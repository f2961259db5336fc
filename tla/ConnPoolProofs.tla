---------------------------- MODULE ConnPoolProofs ----------------------------
(***************************************************************************)
(* Proofs about ConnPool for every number of objects, threads and          *)
(* descriptors.                                                            *)
(***************************************************************************)
EXTENDS ConnPool, SequenceTheorems, TLAPS

USE DEF NoSocket, Idle, Busy

(* The sequence operators the pool uses.                                   *)
LEMMA RemoveAtProperties ==
    ASSUME NEW S, NEW s \in Seq(S), NEW i \in 1 .. Len(s)
    PROVE  /\ RemoveAt(s, i) \in Seq(S)
           /\ Len(RemoveAt(s, i)) = Len(s) - 1
           /\ \A j \in 1 .. Len(s) - 1 :
                 RemoveAt(s, i)[j] = IF j < i THEN s[j] ELSE s[j + 1]
<1> DEFINE left == SubSeq(s, 1, i - 1)
           right == SubSeq(s, i + 1, Len(s))
<1>1. /\ Len(s) \in Nat
      /\ \A j \in 1 .. Len(s) : s[j] \in S
  BY LenProperties, ElementOfSeq
<1>2. /\ left \in Seq(S) /\ Len(left) = i - 1
      /\ \A j \in 1 .. i - 1 : left[j] = s[j]
  <2>1. \A j \in 1 .. i - 1 : s[j] \in S
    BY <1>1
  <2>2. /\ left \in Seq(S)
        /\ Len(left) = IF 1 <= i - 1 THEN (i - 1) - 1 + 1 ELSE 0
        /\ \A j \in 1 .. (i - 1) - 1 + 1 : left[j] = s[1 + j - 1]
    BY ONLY <2>1, <1>1, i \in 1 .. Len(s), SubSeqProperties
  <2>3. QED BY <2>2
<1>3. /\ right \in Seq(S) /\ Len(right) = Len(s) - i
      /\ \A j \in 1 .. Len(s) - i : right[j] = s[i + j]
  <2>1. \A j \in i + 1 .. Len(s) : s[j] \in S
    BY <1>1
  <2>2. /\ right \in Seq(S)
        /\ Len(right) = IF i + 1 <= Len(s) THEN Len(s) - (i + 1) + 1 ELSE 0
        /\ \A j \in 1 .. Len(s) - (i + 1) + 1 : right[j] = s[(i + 1) + j - 1]
    BY ONLY <2>1, <1>1, i \in 1 .. Len(s), SubSeqProperties
  <2>3. QED BY <1>1, <2>2
<1>4. /\ left \o right \in Seq(S)
      /\ Len(left \o right) = Len(left) + Len(right)
      /\ \A j \in 1 .. Len(left) + Len(right) :
            (left \o right)[j] = IF j <= Len(left) THEN left[j] ELSE right[j - Len(left)]
  BY ONLY <1>2, <1>3, ConcatProperties
<1>5. RemoveAt(s, i) = left \o right
  BY DEF RemoveAt
<1> HIDE DEF left, right
<1>6. Len(left \o right) = Len(s) - 1
  BY ONLY <1>1, <1>2, <1>3, <1>4, i \in 1 .. Len(s)
<1>7. ASSUME NEW j \in 1 .. Len(s) - 1
      PROVE  (left \o right)[j] = IF j < i THEN s[j] ELSE s[j + 1]
  <2>1. CASE j < i
    BY ONLY <2>1, <1>1, <1>2, <1>3, <1>4, i \in 1 .. Len(s), j \in 1 .. Len(s) - 1
  <2>2. CASE ~(j < i)
    <3>1. /\ j - Len(left) \in 1 .. Len(s) - i
          /\ (left \o right)[j] = right[j - Len(left)]
      BY ONLY <2>2, <1>1, <1>2, <1>3, <1>4, i \in 1 .. Len(s), j \in 1 .. Len(s) - 1, SMTT(30)
    <3>2. i + (j - Len(left)) = j + 1
      BY ONLY <1>1, <1>2, i \in 1 .. Len(s), j \in 1 .. Len(s) - 1
    <3>3. QED BY <2>2, <3>1, <3>2, <1>3
  <2>3. QED BY <2>1, <2>2
<1>8. QED BY <1>4, <1>5, <1>6, <1>7

LEMMA AppendElems ==
    ASSUME NEW S, NEW s \in Seq(S), NEW c \in S
    PROVE  /\ Append(s, c) \in Seq(S)
           /\ Len(Append(s, c)) = Len(s) + 1
           /\ Elems(Append(s, c)) = Elems(s) \cup {c}
           /\ IsInjective(s) /\ c \notin Elems(s) => IsInjective(Append(s, c))
<1> DEFINE a == Append(s, c)
<1>1. /\ Len(s) \in Nat /\ a \in Seq(S) /\ Len(a) = Len(s) + 1
      /\ DOMAIN s = 1 .. Len(s) /\ DOMAIN a = 1 .. Len(s) + 1
      /\ \A i \in 1 .. Len(s) : a[i] = s[i]
      /\ a[Len(s) + 1] = c
  OBVIOUS
<1> HIDE DEF a
<1>2. Elems(s) \subseteq Elems(a)
  BY <1>1 DEF Elems
<1>3. c \in Elems(a)
  BY <1>1 DEF Elems
<1>4. Elems(a) \subseteq Elems(s) \cup {c}
  BY <1>1 DEF Elems
<1>5. IsInjective(s) /\ c \notin Elems(s) => IsInjective(a)
  BY <1>1 DEF Elems, IsInjective
<1>6. QED BY <1>1, <1>2, <1>3, <1>4, <1>5 DEF a

LEMMA TailElems ==
    ASSUME NEW S, NEW s \in Seq(S), s # <<>>
    PROVE  /\ Head(s) \in S /\ Tail(s) \in Seq(S)
           /\ Len(Tail(s)) = Len(s) - 1
           /\ Elems(s) = Elems(Tail(s)) \cup {Head(s)}
           /\ IsInjective(s) => IsInjective(Tail(s)) /\ Head(s) \notin Elems(Tail(s))
<1>1. /\ Head(s) = s[1] /\ Len(s) \in Nat /\ 1 \in DOMAIN s
      /\ DOMAIN s = 1 .. Len(s) /\ DOMAIN Tail(s) = 1 .. Len(s) - 1
      /\ \A i \in 1 .. Len(s) - 1 : Tail(s)[i] = s[i + 1]
  OBVIOUS
<1>2. Elems(s) \subseteq Elems(Tail(s)) \cup {Head(s)}
  <2>1. SUFFICES ASSUME NEW i \in 1 .. Len(s), i # 1
                 PROVE  s[i] \in Elems(Tail(s))
    BY <1>1 DEF Elems
  <2>2. i - 1 \in 1 .. Len(s) - 1 /\ (i - 1) + 1 = i
    BY <1>1, <2>1
  <2>3. QED BY <1>1, <2>2 DEF Elems
<1>3. Elems(Tail(s)) \subseteq Elems(s)
  BY <1>1 DEF Elems
<1>4. IsInjective(s) => IsInjective(Tail(s)) /\ Head(s) \notin Elems(Tail(s))
  BY <1>1, SMTT(30) DEF Elems, IsInjective
<1>5. Head(s) \in Elems(s)
  BY <1>1 DEF Elems
<1>6. QED BY <1>1, <1>2, <1>3, <1>4, <1>5

LEMMA RemoveAtElems ==
    ASSUME NEW S, NEW s \in Seq(S), NEW i \in 1 .. Len(s)
    PROVE  /\ RemoveAt(s, i) \in Seq(S)
           /\ Len(RemoveAt(s, i)) = Len(s) - 1
           /\ s[i] \in S
           /\ Elems(s) = Elems(RemoveAt(s, i)) \cup {s[i]}
           /\ IsInjective(s) => /\ IsInjective(RemoveAt(s, i))
                                /\ s[i] \notin Elems(RemoveAt(s, i))
<1> DEFINE r == RemoveAt(s, i)
<1>1. /\ r \in Seq(S) /\ Len(r) = Len(s) - 1 /\ Len(s) \in Nat
      /\ \A j \in 1 .. Len(s) - 1 : r[j] = IF j < i THEN s[j] ELSE s[j + 1]
      /\ DOMAIN r = 1 .. Len(s) - 1 /\ DOMAIN s = 1 .. Len(s)
  BY RemoveAtProperties
<1> HIDE DEF r
<1>2. Elems(s) \subseteq Elems(r) \cup {s[i]}
  <2>1. SUFFICES ASSUME NEW j \in 1 .. Len(s), j # i
                 PROVE  s[j] \in Elems(r)
    BY <1>1 DEF Elems
  <2>2. CASE j < i
    <3>1. j \in 1 .. Len(s) - 1 /\ r[j] = s[j]
      BY <1>1, <2>2
    <3>2. QED BY <1>1, <3>1 DEF Elems
  <2>3. CASE j > i
    <3>1. j - 1 \in 1 .. Len(s) - 1 /\ r[j - 1] = s[j]
      BY <1>1, <2>3
    <3>2. QED BY <1>1, <3>1 DEF Elems
  <2>4. QED BY <1>1, <2>1, <2>2, <2>3
<1>3. Elems(r) \subseteq Elems(s) /\ s[i] \in Elems(s)
  <2>1. SUFFICES ASSUME NEW j \in 1 .. Len(s) - 1
                 PROVE  r[j] \in Elems(s)
    BY <1>1 DEF Elems
  <2>2. CASE j < i
    <3>1. j \in 1 .. Len(s) /\ r[j] = s[j]
      BY <1>1, <2>2
    <3>2. QED BY <3>1 DEF Elems
  <2>3. CASE ~(j < i)
    <3>1. j + 1 \in 1 .. Len(s) /\ r[j] = s[j + 1]
      BY <1>1, <2>3
    <3>2. QED BY <3>1 DEF Elems
  <2>4. QED BY <2>2, <2>3
<1>4. IsInjective(s) => s[i] \notin Elems(r)
  BY <1>1, SMTT(30) DEF Elems, IsInjective
<1>5. IsInjective(s) => IsInjective(r)
  <2>1. SUFFICES ASSUME IsInjective(s), NEW j \in 1 .. Len(s) - 1,
                        NEW k \in 1 .. Len(s) - 1, r[j] = r[k]
                 PROVE  j = k
    BY <1>1 DEF IsInjective
  <2> DEFINE up(n) == IF n < i THEN n ELSE n + 1
  <2>2. up(j) \in 1 .. Len(s) /\ up(k) \in 1 .. Len(s)
    BY <1>1
  <2>3. r[j] = s[up(j)] /\ r[k] = s[up(k)]
    BY <1>1
  <2>4. up(j) = up(k)
    BY <1>1, <2>1, <2>2, <2>3 DEF IsInjective
  <2>5. QED BY <1>1, <2>4
<1>6. QED BY <1>1, <1>2, <1>3, <1>4, <1>5 DEF r

-----------------------------------------------------------------------------
(* ngx_get_connection: what the refilled free list contains.               *)
LEMMA RefilledProperties ==
    ASSUME TypeOK, Room
    PROVE  /\ Refilled \in Seq(Conns) /\ Refilled # <<>>
           /\ Created \subseteq Conns
           /\ \A c \in Created : c >= total
           /\ Elems(Refilled) = Free \cup Created
           /\ IsInjective(freeList) => IsInjective(Refilled)
           /\ freeList # <<>> => Refilled = freeList
           /\ freeList = <<>> => Len(Refilled) = WorkerConnections
<1>1. CASE freeList # <<>>
  BY <1>1 DEF Refilled, Created, Free, TypeOK, PoolType
<1>2. CASE freeList = <<>>
  <2> DEFINE r == [i \in 1 .. WorkerConnections |-> total + i - 1]
  <2>1. /\ WorkerConnections \in Nat /\ WorkerConnections # 0 /\ total \in Nat
        /\ total + WorkerConnections <= MaxConns /\ MaxConns \in Nat
    BY <1>2, PoolAssumption DEF TypeOK, PoolType, Room
  <2>2. \A i \in 1 .. WorkerConnections : total + i - 1 \in Conns
    BY <2>1 DEF Conns
  <2>3. r \in Seq(Conns) /\ Len(r) = WorkerConnections
    BY <2>1, <2>2
  <2>4. r # <<>>
    BY <2>1, <2>3
  <2>5. Elems(r) = total .. total + WorkerConnections - 1
    <3>1. ASSUME NEW c \in total .. total + WorkerConnections - 1
          PROVE  c \in Elems(r)
      <4>1. c - total + 1 \in 1 .. WorkerConnections /\ r[c - total + 1] = c
        BY <2>1
      <4>2. QED BY <4>1 DEF Elems
    <3>2. Elems(r) \subseteq total .. total + WorkerConnections - 1
      BY <2>1 DEF Elems
    <3>3. QED BY <3>1, <3>2
  <2>6. IsInjective(r)
    BY <2>1 DEF IsInjective
  <2>7. Free = {}
    BY <1>2 DEF Free, Elems
  <2> HIDE DEF r
  <2>8. Refilled = r /\ Created = total .. total + WorkerConnections - 1
    BY <1>2 DEF Refilled, Created, r
  <2>9. Created \subseteq Conns
    BY <2>1, <2>8 DEF Conns
  <2>10. QED BY <2>9, <1>2, <2>1, <2>3, <2>4, <2>5, <2>6, <2>7, <2>8
<1>3. QED BY <1>1, <1>2

LEMMA GetConnectionType ==
    ASSUME TypeOK, Room, NEW c \in Conns, GetConnection(c)
    PROVE  /\ total' \in 0 .. MaxConns /\ online' \in Int
           /\ inRecyTime' \in [Conns -> Nat] /\ owner' \in [Conns -> Nat]
           /\ SeqAfterGet(c) \in [Conns -> Nat]
           /\ Tail(Refilled) \in Seq(Conns)
<1>1. Tail(Refilled) \in Seq(Conns)
  BY RefilledProperties, TailElems
<1>2. total' \in 0 .. MaxConns
  BY PoolAssumption DEF GetConnection, Room, TypeOK, PoolType
<1>3. SeqAfterGet(c) \in [Conns -> Nat]
  BY DEF SeqAfterGet, TypeOK, PoolType
<1>4. /\ online' \in Int
      /\ inRecyTime' \in [Conns -> Nat]
      /\ owner' \in [Conns -> Nat]
  BY DEF GetConnection, TypeOK, PoolType, KernelType
<1>5. QED
  BY <1>1, <1>2, <1>3, <1>4

LEMMA TypeStep == TypeOK /\ [Next]_vars => TypeOK'
<1> SUFFICES ASSUME TypeOK, [Next]_vars PROVE TypeOK'
  OBVIOUS
<1>1. Epoll \in Threads /\ Workers \subseteq Threads /\ Senders \subseteq Threads
  BY DEF Threads
<1> USE <1>1 DEF TypeOK
<1>2. CASE AcceptRefused
  BY <1>2 DEF PoolType, TimeType, ThreadType, LoopType, KernelType, AcceptRefused,
              pool, recycler, threads, loop
<1>3. CASE Accept
  BY <1>3 DEF PoolType, TimeType, ThreadType, LoopType, KernelType, Accept,
              IsLowestFd, pool, recycler
<1>4. CASE Register
  <2>1. PICK c \in Conns : /\ GetConnection(c)
                           /\ freeList' = Tail(Refilled)
                           /\ seqNo' = SeqAfterGet(c)
                           /\ fd' = [fd EXCEPT ![c] = acceptFd]
                           /\ interest' = [interest EXCEPT ![acceptFd] = c]
    BY <1>4 DEF Register
  <2>2. Room
    BY <2>1 DEF GetConnection
  <2>3. PoolType'
    BY <1>4, <2>1, <2>2, GetConnectionType DEF PoolType, Register
  <2>4. KernelType'
    BY <1>4, <2>1 DEF KernelType, LoopType, Register
  <2>5. TimeType' /\ ThreadType' /\ LoopType' /\ msgs' \subseteq Message
    BY <1>4 DEF TimeType, ThreadType, LoopType, Register, recycler
  <2>6. QED BY <2>3, <2>4, <2>5
<1>5. CASE RegisterFails
  <2>1. PICK c \in Conns : /\ GetConnection(c)
                           /\ freeList' = Append(Tail(Refilled), c)
                           /\ seqNo' = [SeqAfterGet(c) EXCEPT ![c] = @ + 1]
                           /\ fd' = [fd EXCEPT ![c] = NoFd]
    BY <1>5 DEF RegisterFails
  <2>2. Room
    BY <2>1 DEF GetConnection
  <2>3. freeList' \in Seq(Conns) /\ seqNo' \in [Conns -> Nat]
    BY <2>1, <2>2, GetConnectionType, SMTT(30)
  <2>4. PoolType'
    BY <1>5, <2>1, <2>2, <2>3, GetConnectionType DEF PoolType, RegisterFails
  <2>5. KernelType'
    BY <1>5, <2>1 DEF KernelType, LoopType, RegisterFails
  <2>6. TimeType' /\ ThreadType' /\ LoopType' /\ msgs' \subseteq Message
    BY <1>5 DEF TimeType, ThreadType, LoopType, RegisterFails, recycler
  <2>7. QED BY <2>4, <2>5, <2>6
<1>6. CASE EpollWait
  <2>1. batch' \subseteq Conns
    BY <1>6 DEF EpollWait, KernelType
  <2>2. batchUntil' \in Nat
    BY <1>6, PoolAssumption DEF EpollWait, TimeType
  <2>3. QED
    BY <1>6, <2>1, <2>2 DEF PoolType, TimeType, ThreadType, LoopType, KernelType,
                            EpollWait, pool, recycler, threads, kernel
<1>7. ASSUME NEW c \in batch, EventIgnored(c)
      PROVE  TypeOK'
  BY <1>7 DEF PoolType, TimeType, ThreadType, LoopType, KernelType, EventIgnored,
              pool, recycler, threads, kernel
<1>8. ASSUME NEW c \in batch, EventData(c)
      PROVE  TypeOK'
  <2>1. msgs' \subseteq Message
    BY <1>8 DEF EventData, Message, LoopType, PoolType
  <2>2. QED
    BY <1>8, <2>1 DEF PoolType, TimeType, ThreadType, LoopType, KernelType, EventData,
                      pool, recycler, threads, kernel
<1>9. ASSUME NEW c \in batch, EventClose(c)
      PROVE  TypeOK'
  <2>1. c \in Conns /\ batchUntil \in Nat /\ owner[c] \in Nat
    BY DEF LoopType, PoolType
  <2>2. ThreadType'
    BY <1>9, <2>1 DEF ThreadType, EventClose, Lease
  <2>3. QED
    BY <1>9, <2>1, <2>2 DEF PoolType, TimeType, LoopType, ThreadType, KernelType,
                            EventClose, Lease, pool, recycler, kernel
<1>10. ASSUME NEW t \in Threads, NEW m \in msgs, DropStale(t, m)
       PROVE  TypeOK'
  BY <1>10 DEF PoolType, TimeType, ThreadType, LoopType, KernelType, DropStale,
               pool, recycler, threads, loop, kernel
<1>11. ASSUME NEW t \in Threads, NEW m \in msgs,
              TakeRequest(t, m) \/ TakeResponse(t, m)
       PROVE  TypeOK'
  <2>1. m.conn \in Conns /\ m.until \in Nat /\ m.sock \in Nat /\ clock + Hold \in Nat
    BY PoolAssumption DEF Message, TimeType
  <2>2. ThreadType'
    BY <1>11, <2>1 DEF ThreadType, TakeRequest, TakeResponse, Lease
  <2>3. LoopType'
    BY <1>11 DEF LoopType, ThreadType, TakeRequest, TakeResponse, Lease, loop
  <2>4. QED
    BY <1>11, <2>2, <2>3 DEF PoolType, TimeType, KernelType, TakeRequest, TakeResponse,
                             pool, recycler, kernel
<1>12. ASSUME NEW t \in Threads, Respond(t)
       PROVE  TypeOK'
  <2>1. msgs' \subseteq Message
    <3>1. hold[t] \in Conns /\ serves[t] \in Nat /\ clock + Hold \in Nat
      BY <1>12, PoolAssumption DEF Respond, ThreadType, TimeType
    <3>2. seqNo[hold[t]] \in Nat
      BY <3>1 DEF PoolType
    <3>3. QED BY <1>12, <3>1, <3>2 DEF Respond, Message
  <2>2. ThreadType'
    BY <1>12 DEF ThreadType, Respond, Release, Lease
  <2>3. LoopType'
    BY <1>12 DEF LoopType, ThreadType, Respond, Release, Lease, loop
  <2>4. QED
    BY <1>12, <2>1, <2>2, <2>3 DEF PoolType, TimeType, KernelType, Respond, pool,
                                   recycler, kernel
<1>13. ASSUME NEW t \in Threads, Finish(t)
       PROVE  TypeOK'
  <2>1. ThreadType'
    BY <1>13 DEF ThreadType, Finish, Release, Lease
  <2>2. LoopType'
    BY <1>13 DEF LoopType, ThreadType, Finish, Release, Lease, loop
  <2>3. QED
    BY <1>13, <2>1, <2>2 DEF PoolType, TimeType, KernelType, Finish, pool, recycler,
                             kernel
<1>14. ASSUME NEW t \in Threads,
              StartClose(t) \/ CheckFd(t) \/ CloseFd(t) \/ ClearFd(t)
       PROVE  TypeOK'
  <2>1. ThreadType'
    BY <1>14 DEF ThreadType, StartClose, CheckFd, CloseFd, ClearFd
  <2>2. LoopType'
    BY <1>14 DEF LoopType, ThreadType, StartClose, CheckFd, CloseFd, ClearFd, loop
  <2>3. KernelType'
    BY <1>14 DEF KernelType, ThreadType, StartClose, CheckFd, CloseFd, ClearFd, kernel
  <2>4. QED
    BY <1>14, <2>1, <2>2, <2>3 DEF PoolType, TimeType, StartClose, CheckFd, CloseFd,
                                   ClearFd, pool, recycler
<1>15. ASSUME NEW t \in Threads, Retire(t)
       PROVE  TypeOK'
  <2>1. PoolType'
    <3>1. hold[t] \in Conns /\ UNCHANGED <<total, freeList, owner>> /\ Enqueue(hold[t])
      BY <1>15 DEF Retire, ThreadType
    <3>2. CASE hold[t] \in Recycling
      BY <3>1, <3>2 DEF PoolType, Enqueue
    <3>3. CASE hold[t] \notin Recycling
      <4> DEFINE c == hold[t]
      <4>1. /\ recyList' = Append(recyList, c)
            /\ seqNo' = [seqNo EXCEPT ![c] = @ + 1]
            /\ inRecyTime' = [inRecyTime EXCEPT ![c] = clock]
            /\ online' = online - 1
            /\ totalRecy' = totalRecy - 1
        BY <3>1, <3>3 DEF Enqueue
      <4> HIDE DEF c
      <4>2. c \in Conns
        BY <3>1 DEF c
      <4>3. recyList' \in Seq(Conns)
        BY <4>1, <4>2 DEF PoolType
      <4>4. seqNo' \in [Conns -> Nat] /\ inRecyTime' \in [Conns -> Nat]
        BY <4>1, <4>2 DEF PoolType, TimeType
      <4>5. online' \in Int /\ totalRecy' \in Int
        BY <4>1 DEF PoolType
      <4>6. QED BY <3>1, <4>3, <4>4, <4>5 DEF PoolType
    <3>4. QED BY <3>2, <3>3
  <2>2. ThreadType'
    BY <1>15 DEF ThreadType, Retire, Release, Lease
  <2>3. LoopType'
    BY <1>15 DEF LoopType, ThreadType, Retire, Release, Lease, loop
  <2>4. QED
    BY <1>15, <2>1, <2>2, <2>3 DEF TimeType, KernelType, Retire, recycler, kernel
<1>16. CASE SweepStart \/ SweepSkip \/ SweepEnd
  <2>1. TimeType'
    BY <1>16 DEF TimeType, SweepStart, SweepSkip, SweepEnd
  <2>2. UNCHANGED <<pool, fd, msgs, threads, loop, kernel, owner>>
    BY <1>16 DEF SweepStart, SweepSkip, SweepEnd
  <2>3. QED
    BY <2>1, <2>2 DEF PoolType, ThreadType, LoopType, KernelType, pool, threads, loop,
                      kernel
<1>17. CASE SweepFree
  <2>1. sweep \in 1 .. Len(recyList)
    BY <1>17, SMTT(30) DEF SweepFree, PoolType
  <2>2. recyList' \in Seq(Conns) /\ recyList[sweep] \in Conns
    BY <1>17, <2>1, RemoveAtElems DEF SweepFree, PoolType
  <2>3. freeList' \in Seq(Conns) /\ seqNo' \in [Conns -> Nat]
    BY <1>17, <2>2, SMTT(30) DEF SweepFree, PoolType
  <2>4. QED
    BY <1>17, <2>2, <2>3 DEF PoolType, TimeType, ThreadType, LoopType, KernelType,
                             SweepFree, recycler, threads, loop, kernel
<1>18. CASE Tick
  <2>1. /\ clock' = clock + 1
        /\ UNCHANGED <<pool, fd, recycler, msgs, threads, loop, kernel, owner>>
    BY <1>18 DEF Tick
  <2>2. TimeType'
    BY <2>1 DEF TimeType, recycler
  <2>3. QED
    BY <2>1, <2>2 DEF PoolType, ThreadType, LoopType, KernelType, pool, recycler, threads,
                      loop, kernel
<1>19. CASE UNCHANGED vars
  BY <1>19 DEF PoolType, TimeType, ThreadType, LoopType, KernelType, vars, pool,
               recycler, threads, loop, kernel
<1>20. QED
  BY <1>2, <1>3, <1>4, <1>5, <1>6, <1>7, <1>8, <1>9, <1>10, <1>11, <1>12, <1>13,
     <1>14, <1>15, <1>16, <1>17, <1>18, <1>19
  DEF Next, EpollStep, MessageStep, WorkStep, CloseStep, Recycle

THEOREM TypeCorrect == Spec => []TypeOK
<1>1. Init => TypeOK
  <2> SUFFICES ASSUME Init PROVE TypeOK
    OBVIOUS
  <2> USE PoolAssumption DEF Init, Conns, NoConn, NoFd
  <2>1. PoolType
    BY DEF PoolType, ListenConn
  <2>2. TimeType /\ ThreadType /\ LoopType
    BY DEF TimeType, ThreadType, LoopType, Threads
  <2>3. KernelType
    BY DEF KernelType, ListenFd
  <2>4. QED BY <2>1, <2>2, <2>3 DEF TypeOK
<1>2. TypeOK /\ [Next]_vars => TypeOK'
  BY TypeStep
<1>3. QED BY <1>1, <1>2, PTL DEF Spec

-----------------------------------------------------------------------------
(* The steps that touch no list of the pool, no object's recycle time and  *)
(* no clock.                                                               *)
Quiet == UNCHANGED <<total, freeList, recyList, inRecyTime, clock>>

LEMMA ListedAreConns ==
    ASSUME TypeOK
    PROVE  /\ Free \subseteq Conns /\ Recycling \subseteq Conns
           /\ Conns \subseteq Nat /\ total \in Nat
<1>1. Free \subseteq Conns /\ Recycling \subseteq Conns
  BY SMTT(30) DEF TypeOK, PoolType, Free, Recycling, Elems
<1>2. Conns \subseteq Nat /\ total \in Nat
  BY PoolAssumption DEF TypeOK, PoolType, Conns
<1>3. QED BY <1>1, <1>2

(* ngx_get_connection takes an object that was free or has just been       *)
(* created, and the free list loses exactly this one.                      *)
LEMMA GetConnectionFacts ==
    ASSUME TypeOK, ListsInv, NEW c \in Conns, GetConnection(c)
    PROVE  /\ c \in Free \cup Created /\ c \notin Recycling
           /\ \A d \in Created : d \notin Recycling /\ d >= total
           /\ Tail(Refilled) \in Seq(Conns) /\ IsInjective(Tail(Refilled))
           /\ c \notin Elems(Tail(Refilled))
           /\ Elems(Tail(Refilled)) \cup {c} = Free \cup Created
           /\ total' >= total
           /\ \A d \in Free \cup Created : d < total'
<1>1. Room /\ c = Head(Refilled) /\ total \in Nat /\ MaxConns \in Nat
  BY PoolAssumption DEF GetConnection, TypeOK, PoolType
<1>2. /\ Refilled \in Seq(Conns) /\ Refilled # <<>>
      /\ \A d \in Created : d >= total
      /\ Elems(Refilled) = Free \cup Created
      /\ IsInjective(Refilled)
  BY <1>1, RefilledProperties DEF ListsInv, OnceInPool
<1>3. /\ Tail(Refilled) \in Seq(Conns) /\ IsInjective(Tail(Refilled))
      /\ c \notin Elems(Tail(Refilled))
      /\ Elems(Tail(Refilled)) \cup {c} = Free \cup Created
  BY <1>1, <1>2, TailElems
<1>4. \A d \in Created : d \notin Recycling
  <2>1. \A d \in Created : d \in Conns
    BY <1>1, RefilledProperties
  <2>2. QED BY <1>1, <1>2, <2>1 DEF ListsInv, Conns
<1>5. c \in Free \cup Created /\ c \notin Recycling
  BY <1>3, <1>4 DEF ListsInv, OnceInPool
<1>6. total' >= total
  BY <1>1, PoolAssumption DEF GetConnection
<1>7. \A d \in Free \cup Created : d < total'
  <2>1. CASE freeList = <<>>
    <3>1. Free = {}
      BY <2>1 DEF Free, Elems
    <3>2. QED BY <1>1, <2>1, <3>1, PoolAssumption DEF Created, GetConnection
  <2>2. CASE freeList # <<>>
    BY <1>1, <2>2 DEF Created, GetConnection, ListsInv
  <2>3. QED BY <2>1, <2>2
<1>8. QED BY <1>2, <1>3, <1>4, <1>5, <1>6, <1>7

(* The lists stay free of duplicates and disjoint.                         *)
LEMMA ListsStep ==
    ASSUME TypeOK, PoolInv, [Next]_vars
    PROVE  ListsInv'
<1>1. ASSUME Quiet, UNCHANGED currtime \/ currtime' = clock
      PROVE  ListsInv'
  <2>1. currtime' <= clock'
    BY <1>1 DEF Quiet, PoolInv, ListsInv, TypeOK, TimeType
  <2>2. QED BY <1>1, <2>1 DEF Quiet, PoolInv, ListsInv, OnceInPool, Free, Recycling
<1>2. CASE Register
  <2>1. PICK c \in Conns : /\ GetConnection(c)
                           /\ freeList' = Tail(Refilled)
    BY <1>2 DEF Register
  <2>2. UNCHANGED <<recyList, clock, currtime>>
    BY <1>2 DEF Register, recycler
  <2>3. ListsInv
    BY DEF PoolInv
  <2>4. Free' = Elems(Tail(Refilled)) /\ Recycling' = Recycling
    BY <2>1, <2>2 DEF Free, Recycling
  <2>5. OnceInPool'
    BY <2>1, <2>2, <2>3, <2>4, GetConnectionFacts DEF OnceInPool, ListsInv
  <2>6. \A d \in Recycling : d < total'
    <3>1. total' \in Nat /\ total' >= total
      BY <2>1, PoolAssumption DEF GetConnection, TypeOK, PoolType
    <3>2. QED BY <2>3, <3>1, ListedAreConns DEF ListsInv
  <2>7. \A d \in Recycling' : inRecyTime'[d] <= clock'
    <3>1. /\ inRecyTime' = [inRecyTime EXCEPT ![c] = 0]
          /\ inRecyTime \in [Conns -> Nat] /\ c \notin Recycling
      BY <2>1, <2>3, GetConnectionFacts DEF GetConnection, TypeOK, PoolType
    <3>2. QED BY <2>2, <2>3, <2>4, <3>1, ListedAreConns DEF ListsInv
  <2>8. QED
    BY <2>1, <2>2, <2>3, <2>4, <2>5, <2>6, <2>7, GetConnectionFacts DEF ListsInv
<1>3. CASE RegisterFails
  <2>1. PICK c \in Conns : /\ GetConnection(c)
                           /\ freeList' = Append(Tail(Refilled), c)
    BY <1>3 DEF RegisterFails
  <2>2. UNCHANGED <<recyList, clock, currtime>>
    BY <1>3 DEF RegisterFails, recycler
  <2>3. ListsInv
    BY DEF PoolInv
  <2>4. /\ Free' = Free \cup Created /\ IsInjective(freeList')
        /\ Recycling' = Recycling
    <3>1. /\ Elems(Append(Tail(Refilled), c)) = Elems(Tail(Refilled)) \cup {c}
          /\ IsInjective(Append(Tail(Refilled), c))
      <4>1. /\ Tail(Refilled) \in Seq(Conns) /\ IsInjective(Tail(Refilled))
            /\ c \notin Elems(Tail(Refilled))
        BY <2>1, <2>3, GetConnectionFacts
      <4>2. QED BY <4>1, AppendElems, ZenonT(60)
    <3>2. QED BY <2>1, <2>2, <2>3, <3>1, GetConnectionFacts DEF Free, Recycling
  <2>5. OnceInPool'
    BY <2>1, <2>2, <2>3, <2>4, GetConnectionFacts DEF OnceInPool, ListsInv
  <2>6. \A d \in Recycling : d < total'
    <3>1. total' \in Nat /\ total' >= total
      BY <2>1, PoolAssumption DEF GetConnection, TypeOK, PoolType
    <3>2. QED BY <2>3, <3>1, ListedAreConns DEF ListsInv
  <2>7. \A d \in Recycling' : inRecyTime'[d] <= clock'
    <3>1. /\ inRecyTime' = [inRecyTime EXCEPT ![c] = 0]
          /\ inRecyTime \in [Conns -> Nat] /\ c \notin Recycling
      BY <2>1, <2>3, GetConnectionFacts DEF GetConnection, TypeOK, PoolType
    <3>2. QED BY <2>2, <2>3, <2>4, <3>1, ListedAreConns DEF ListsInv
  <2>8. QED
    BY <2>1, <2>2, <2>3, <2>4, <2>5, <2>6, <2>7, GetConnectionFacts DEF ListsInv
<1>4. ASSUME NEW t \in Threads, Retire(t)
      PROVE  ListsInv'
  <2> DEFINE c == hold[t]
  <2>1. c \in Conns /\ c < total /\ c \notin Free
    BY <1>4 DEF Retire, TypeOK, ThreadType, PoolInv, RefsInv, ThreadRefs, Safe
  <2>2. UNCHANGED <<total, freeList, clock, currtime>> /\ Enqueue(c)
    BY <1>4 DEF Retire, recycler
  <2>3. CASE c \in Recycling
    <3>1. Quiet
      BY <2>2, <2>3 DEF Enqueue, Quiet
    <3>2. QED BY <1>1, <2>2, <3>1
  <2>4. CASE c \notin Recycling
    <3>1. recyList' = Append(recyList, c) /\ inRecyTime' = [inRecyTime EXCEPT ![c] = clock]
      BY <2>2, <2>4 DEF Enqueue
    <3> HIDE DEF c
    <3>2. Recycling' = Recycling \cup {c} /\ IsInjective(recyList')
      BY <2>1, <2>4, <3>1, AppendElems
      DEF Recycling, TypeOK, PoolType, PoolInv, ListsInv, OnceInPool
    <3>3. Free' = Free /\ IsInjective(freeList')
      BY <2>2 DEF Free, PoolInv, ListsInv, OnceInPool
    <3>4. \A d \in Recycling' : inRecyTime'[d] <= clock'
      BY <2>1, <2>2, <3>1, <3>2
      DEF TypeOK, PoolType, TimeType, PoolInv, ListsInv
    <3>5. QED
      BY <2>1, <2>2, <3>2, <3>3, <3>4 DEF PoolInv, ListsInv, OnceInPool
  <2>5. QED BY <2>3, <2>4
<1>5. CASE SweepFree
  <2> DEFINE c == recyList[sweep]
  <2>1. sweep \in 1 .. Len(recyList)
    BY <1>5, SMTT(30) DEF SweepFree, TypeOK, PoolType
  <2>2. /\ freeList' = Append(freeList, c) /\ recyList' = RemoveAt(recyList, sweep)
        /\ UNCHANGED <<total, inRecyTime, clock, currtime>>
    BY <1>5 DEF SweepFree, recycler
  <2>3. /\ c \in Conns /\ c \in Recycling /\ c \notin Recycling'
        /\ Recycling = Recycling' \cup {c} /\ IsInjective(recyList')
    <3>1. recyList \in Seq(Conns) /\ IsInjective(recyList)
      BY DEF TypeOK, PoolType, PoolInv, ListsInv, OnceInPool
    <3>2. /\ c \in Conns
          /\ Elems(recyList) = Elems(RemoveAt(recyList, sweep)) \cup {c}
          /\ IsInjective(RemoveAt(recyList, sweep))
          /\ c \notin Elems(RemoveAt(recyList, sweep))
      BY <2>1, <3>1, RemoveAtElems
    <3>3. QED BY <2>2, <3>2 DEF Recycling
  <2>4. c \notin Free /\ Free' = Free \cup {c} /\ IsInjective(freeList')
    BY <2>2, <2>3, AppendElems, SMTT(30)
    DEF Free, TypeOK, PoolType, PoolInv, ListsInv, OnceInPool
  <2> HIDE DEF c
  <2>5. QED BY <2>2, <2>3, <2>4 DEF PoolInv, ListsInv, OnceInPool
<1>6. CASE Tick
  <2>1. /\ clock' = clock + 1
        /\ UNCHANGED <<total, freeList, recyList, inRecyTime, currtime>>
    BY <1>6 DEF Tick, pool, recycler
  <2>2. Free' = Free /\ Recycling' = Recycling /\ OnceInPool'
    BY <2>1 DEF Free, Recycling, OnceInPool, PoolInv, ListsInv
  <2>3. \A c \in Recycling : c \in Conns
    BY DEF Recycling, Elems, TypeOK, PoolType
  <2>4. QED
    BY <2>1, <2>2, <2>3 DEF PoolInv, ListsInv, TypeOK, PoolType, TimeType
<1>7. CASE EpollStep /\ ~Register /\ ~RegisterFails
  <2>1. Quiet /\ UNCHANGED currtime
    BY <1>7 DEF EpollStep, AcceptRefused, Accept, EpollWait, EventIgnored, EventData,
                EventClose, Quiet, pool, recycler
  <2>2. QED BY <1>1, <2>1
<1>8. ASSUME NEW t \in Threads,
             MessageStep(t) \/ WorkStep(t) \/ (CloseStep(t) /\ ~Retire(t))
      PROVE  ListsInv'
  <2>1. Quiet /\ UNCHANGED currtime
    BY <1>8 DEF MessageStep, DropStale, TakeRequest, TakeResponse, WorkStep, Respond,
                Finish, StartClose, CloseStep, CheckFd, CloseFd, ClearFd, Quiet, pool,
                recycler
  <2>2. QED BY <1>1, <2>1
<1>9. CASE SweepStart \/ SweepSkip \/ SweepEnd
  <2>1. Quiet /\ (UNCHANGED currtime \/ currtime' = clock)
    BY <1>9 DEF SweepStart, SweepSkip, SweepEnd, Quiet, pool
  <2>2. QED BY <1>1, <2>1
<1>10. CASE UNCHANGED vars
  <2>1. Quiet /\ UNCHANGED currtime
    BY <1>10 DEF vars, pool, recycler, Quiet
  <2>2. QED BY <1>1, <2>1
<1>11. QED
  BY <1>2, <1>3, <1>4, <1>5, <1>6, <1>7, <1>8, <1>9, <1>10
  DEF Next, CloseStep, Recycle

-----------------------------------------------------------------------------
(* What changes for the objects that are in use or cooling when the epoll  *)
(* thread takes an object: nothing, and the taken object has no reference. *)
LEMMA GetConnectionFrame ==
    ASSUME TypeOK, PoolInv, NEW c \in Conns, GetConnection(c),
           UNCHANGED <<recyList, clock>>,
           Free' \subseteq Free \cup Created
    PROVE  /\ c >= total \/ c \in Free
           /\ Recycling' = Recycling
           /\ \A d \in Conns : d < total /\ d \notin Free =>
                 /\ d # c /\ d \notin Created
                 /\ d < total' /\ d \notin Free'
                 /\ inRecyTime'[d] = inRecyTime[d]
                 /\ owner'[d] = owner[d]
                 /\ SeqAfterGet(c)[d] = seqNo[d]
           /\ \A d \in Conns : SeqAfterGet(c)[d] >= seqNo[d]
<1>1. /\ c \in Free \cup Created /\ c \notin Recycling
      /\ \A d \in Created : d >= total
      /\ total' >= total /\ total \in Nat /\ total' \in Nat
  <2>1. ListsInv
    BY DEF PoolInv
  <2>2. total \in Nat /\ total' \in Nat
    BY PoolAssumption DEF GetConnection, TypeOK, PoolType
  <2>3. QED BY <2>1, <2>2, GetConnectionFacts
<1>2. Conns \subseteq Nat
  BY ListedAreConns
<1>3. Recycling' = Recycling
  BY DEF Recycling
<1>4. /\ inRecyTime' = [inRecyTime EXCEPT ![c] = 0]
      /\ owner' = [owner EXCEPT ![c] = accepted]
      /\ inRecyTime \in [Conns -> Nat] /\ owner \in [Conns -> Nat]
      /\ seqNo \in [Conns -> Nat]
  BY DEF GetConnection, TypeOK, PoolType
<1>5. ASSUME NEW d \in Conns, d < total, d \notin Free
      PROVE  /\ d # c /\ d \notin Created /\ d < total' /\ d \notin Free'
             /\ inRecyTime'[d] = inRecyTime[d] /\ owner'[d] = owner[d]
             /\ SeqAfterGet(c)[d] = seqNo[d]
  <2>1. d # c /\ d \notin Created /\ d < total' /\ d \notin Free'
    BY <1>1, <1>2, <1>5
  <2>2. QED BY <1>4, <2>1 DEF SeqAfterGet
<1>6. \A d \in Conns : SeqAfterGet(c)[d] >= seqNo[d]
  BY <1>4 DEF SeqAfterGet
<1>7. QED BY <1>1, <1>2, <1>3, <1>5, <1>6

(* In both outcomes of an accept the free list gains only created objects, *)
(* and loses the one taken or keeps it.                                    *)
LEMMA RegisterLists ==
    ASSUME TypeOK, PoolInv, Register \/ RegisterFails
    PROVE  /\ UNCHANGED <<recyList, clock>>
           /\ Free' \subseteq Free \cup Created
           /\ \E c \in Conns :
                 /\ GetConnection(c)
                 /\ \/ seqNo' = SeqAfterGet(c)
                    \/ seqNo' = [SeqAfterGet(c) EXCEPT ![c] = @ + 1]
                 /\ \/ /\ fd' = [fd EXCEPT ![c] = acceptFd]
                       /\ interest' = [interest EXCEPT ![acceptFd] = c]
                       /\ c \notin Free' /\ c < total'
                    \/ fd' = [fd EXCEPT ![c] = NoFd] /\ UNCHANGED interest
<1>1. CASE Register
  <2>1. PICK c \in Conns : /\ GetConnection(c)
                           /\ freeList' = Tail(Refilled)
                           /\ seqNo' = SeqAfterGet(c)
                           /\ fd' = [fd EXCEPT ![c] = acceptFd]
                           /\ interest' = [interest EXCEPT ![acceptFd] = c]
    BY <1>1 DEF Register
  <2>2. Free' = Elems(Tail(Refilled))
    BY <2>1 DEF Free
  <2>3. Free' \subseteq Free \cup Created /\ c \notin Free' /\ c < total'
    BY <2>1, <2>2, GetConnectionFacts DEF PoolInv
  <2>4. UNCHANGED <<recyList, clock>>
    BY <1>1 DEF Register
  <2>5. QED BY <2>1, <2>3, <2>4
<1>2. CASE RegisterFails
  <2>1. PICK c \in Conns : /\ GetConnection(c)
                           /\ freeList' = Append(Tail(Refilled), c)
                           /\ seqNo' = [SeqAfterGet(c) EXCEPT ![c] = @ + 1]
                           /\ fd' = [fd EXCEPT ![c] = NoFd]
    BY <1>2 DEF RegisterFails
  <2>2. /\ Tail(Refilled) \in Seq(Conns)
        /\ Elems(Tail(Refilled)) \cup {c} = Free \cup Created
    BY <2>1, GetConnectionFacts DEF PoolInv
  <2>3. Free' = Free \cup Created
    <3> DEFINE rest == Tail(Refilled)
    <3> HIDE DEF rest
    <3>1. rest \in Seq(Conns)
      BY <2>2 DEF rest
    <3>2. Elems(Append(rest, c)) = Elems(rest) \cup {c}
      BY <3>1, AppendElems
    <3>3. QED BY <2>1, <2>2, <3>2 DEF Free, rest
  <2>4. UNCHANGED <<recyList, clock, interest>>
    BY <1>2 DEF RegisterFails
  <2>5. QED BY <2>1, <2>3, <2>4
<1>3. QED BY <1>1, <1>2

(* Objects registered with epoll are open and in use.                      *)
LEMMA FdStep ==
    ASSUME TypeOK, PoolInv, [Next]_vars
    PROVE  FdInv'
<1> USE DEF TypeOK, PoolInv
<1>1. ASSUME UNCHANGED <<total, freeList, recyList, interest, fd>>,
             \A t \in Threads : pc'[t] \in {"clear", "retire"} =>
                 pc[t] = pc'[t] /\ hold'[t] = hold[t]
      PROVE  FdInv'
  <2>1. Free' = Free /\ Recycling' = Recycling
    BY <1>1 DEF Free, Recycling
  <2>2. QED BY <1>1, <2>1 DEF FdInv
<1>2. CASE Register \/ RegisterFails
  <2>1. /\ UNCHANGED <<recyList, clock>>
        /\ Free' \subseteq Free \cup Created
    BY <1>2, RegisterLists
  <2>2. PICK c \in Conns :
           /\ GetConnection(c)
           /\ \/ /\ fd' = [fd EXCEPT ![c] = acceptFd]
                 /\ interest' = [interest EXCEPT ![acceptFd] = c]
                 /\ c \notin Free' /\ c < total'
              \/ fd' = [fd EXCEPT ![c] = NoFd] /\ UNCHANGED interest
    BY <1>2, RegisterLists
  <2>3. /\ c >= total \/ c \in Free
        /\ c \notin Recycling
        /\ Recycling' = Recycling
        /\ \A d \in Conns : d < total /\ d \notin Free =>
              d # c /\ d < total' /\ d \notin Free'
    BY <2>1, <2>2, GetConnectionFrame, GetConnectionFacts
  <2>4. /\ \A t \in Threads : pc'[t] \in {"clear", "retire"} =>
              pc[t] = pc'[t] /\ hold'[t] = hold[t]
        /\ acceptFd \in Fds
    BY <1>2 DEF Register, RegisterFails, ThreadType, LoopType
  <2>5. \A t \in Threads : Busy(t) => hold[t] # c
    BY <2>3, ListedAreConns DEF RefsInv, ThreadRefs, Safe, ThreadType
  <2>6. \A t \in Threads : pc'[t] \in {"clear", "retire"} => hold'[t] # c
    BY <2>4, <2>5 DEF ThreadType
  <2>7. \A f \in Fds : interest[f] # NoConn =>
           /\ interest[f] \in Conns /\ interest[f] # c
           /\ interest[f] < total' /\ interest[f] \notin Free'
    BY <2>3 DEF FdInv, KernelType
  <2>8. ASSUME NEW f \in Fds, interest'[f] # NoConn
        PROVE  /\ interest'[f] < total'
               /\ interest'[f] \notin Free' /\ interest'[f] \notin Recycling'
               /\ fd'[interest'[f]] = f
               /\ \A t \in Threads : pc'[t] \in {"clear", "retire"}
                                         => hold'[t] # interest'[f]
    <3>1. CASE interest'[f] = interest[f]
      <4>1. interest[f] \in Conns /\ interest[f] # c /\ fd'[interest[f]] = fd[interest[f]]
        BY <2>2, <2>7, <2>8, <3>1 DEF KernelType
      <4>2. QED BY <2>3, <2>4, <2>7, <2>8, <3>1, <4>1 DEF FdInv
    <3>2. CASE interest'[f] # interest[f]
      <4>1. /\ f = acceptFd /\ interest'[f] = c /\ fd'[c] = acceptFd
            /\ c \notin Free' /\ c < total'
        BY <2>2, <2>4, <3>2 DEF KernelType
      <4>2. QED BY <2>3, <2>6, <4>1
    <3>3. QED BY <3>1, <3>2
  <2>9. \A d \in Recycling' : fd'[d] = NoFd
    BY <2>2, <2>3, ListedAreConns DEF FdInv, KernelType
  <2>10. \A t \in Threads : pc'[t] = "retire" => fd'[hold'[t]] = NoFd
    BY <2>2, <2>4, <2>6 DEF FdInv, KernelType, ThreadType
  <2>11. QED BY <2>8, <2>9, <2>10 DEF FdInv
<1>3. CASE EpollStep /\ ~Register /\ ~RegisterFails
  <2>1. /\ UNCHANGED <<total, freeList, recyList, interest, fd>>
        /\ \A t \in Threads : pc'[t] \in {"clear", "retire"} =>
              pc[t] = pc'[t] /\ hold'[t] = hold[t]
    BY <1>3 DEF EpollStep, AcceptRefused, Accept, EpollWait, EventIgnored, EventData,
                EventClose, Lease, pool, threads, kernel, ThreadType
  <2>2. QED BY <1>1, <2>1
<1>4. ASSUME NEW t \in Threads, MessageStep(t) \/ WorkStep(t)
      PROVE  FdInv'
  <2>1. UNCHANGED <<total, freeList, recyList, interest, fd>>
    BY <1>4 DEF MessageStep, DropStale, TakeRequest, TakeResponse, WorkStep, Respond,
                Finish, StartClose, pool, kernel
  <2>2. \A u \in Threads : pc'[u] \in {"clear", "retire"} =>
           pc[u] = pc'[u] /\ hold'[u] = hold[u]
    BY <1>4 DEF MessageStep, DropStale, TakeRequest, TakeResponse, WorkStep, Respond,
                Finish, StartClose, Lease, Release, threads, ThreadType
  <2>3. QED BY <1>1, <2>1, <2>2
<1>5. ASSUME NEW t \in Threads, CheckFd(t)
      PROVE  FdInv'
  <2>1. /\ UNCHANGED <<total, freeList, recyList, interest, fd, hold>>
        /\ Free' = Free /\ Recycling' = Recycling
    BY <1>5 DEF CheckFd, pool, kernel, Free, Recycling
  <2>2. \A u \in Threads : pc'[u] \in {"clear", "retire"} /\ u # t => pc[u] = pc'[u]
    BY <1>5 DEF CheckFd, ThreadType
  <2>3. pc'[t] \in {"clear", "retire"} => fd[hold[t]] = NoFd
    BY <1>5 DEF CheckFd, ThreadType
  <2>4. \A f \in Fds : f # NoFd
    BY PoolAssumption DEF Fds, NoFd
  <2>5. QED BY <2>1, <2>2, <2>3, <2>4 DEF FdInv
<1>6. ASSUME NEW t \in Threads, CloseFd(t)
      PROVE  FdInv'
  <2> DEFINE f == fd[hold[t]]
  <2>1. /\ UNCHANGED <<total, freeList, recyList, fd, hold>>
        /\ Free' = Free /\ Recycling' = Recycling
        /\ interest' = [g \in Fds |-> IF g = f THEN NoConn ELSE interest[g]]
    BY <1>6 DEF CloseFd, pool, Free, Recycling
  <2>2. \A u \in Threads : pc'[u] \in {"clear", "retire"} /\ u # t => pc[u] = pc'[u]
    BY <1>6 DEF CloseFd, ThreadType
  <2>3. pc'[t] = "clear"
    BY <1>6 DEF CloseFd, ThreadType
  <2>4. ASSUME NEW g \in Fds, interest'[g] # NoConn
        PROVE  interest'[g] = interest[g] /\ hold[t] # interest[g]
    <3>1. g # f /\ interest'[g] = interest[g]
      BY <2>1, <2>4
    <3>2. fd[interest[g]] = g
      BY <2>4, <3>1 DEF FdInv
    <3>3. QED BY <3>1, <3>2
  <2> HIDE DEF f
  <2>5. QED BY <2>1, <2>2, <2>3, <2>4 DEF FdInv
<1>7. ASSUME NEW t \in Threads, ClearFd(t)
      PROVE  FdInv'
  <2>1. /\ UNCHANGED <<total, freeList, recyList, interest, hold>>
        /\ Free' = Free /\ Recycling' = Recycling
        /\ fd' = [fd EXCEPT ![hold[t]] = NoFd]
    BY <1>7 DEF ClearFd, pool, kernel, Free, Recycling
  <2>2. /\ pc[t] = "clear" /\ hold[t] \in Conns
        /\ pc' = [pc EXCEPT ![t] = "retire"]
    BY <1>7 DEF ClearFd, ThreadType
  <2>3. \A f \in Fds : interest[f] # NoConn =>
           interest[f] # hold[t] /\ fd'[interest[f]] = fd[interest[f]]
    BY <2>1, <2>2 DEF FdInv, KernelType
  <2>4. \A c \in Conns : fd[c] = NoFd => fd'[c] = NoFd
    BY <2>1 DEF KernelType
  <2>5. \A u \in Threads : pc'[u] \in {"clear", "retire"} => u = t \/ pc[u] = pc'[u]
    BY <2>2 DEF ThreadType
  <2>6. fd'[hold[t]] = NoFd
    BY <2>1, <2>2 DEF KernelType
  <2>7. ASSUME NEW u \in Threads, pc'[u] = "retire"
        PROVE  fd'[hold'[u]] = NoFd
    <3>1. CASE u = t
      BY <2>1, <2>6, <3>1
    <3>2. CASE u # t
      <4>1. hold[u] \in Conns /\ fd[hold[u]] = NoFd
        BY <2>5, <2>7, <3>2 DEF FdInv, ThreadType
      <4>2. QED BY <2>1, <2>4, <4>1
    <3>3. QED BY <3>1, <3>2
  <2>8. ASSUME NEW f \in Fds, interest'[f] # NoConn, NEW u \in Threads,
               pc'[u] \in {"clear", "retire"}
        PROVE  hold'[u] # interest'[f]
    BY <2>1, <2>3, <2>5, <2>8 DEF FdInv
  <2>9. QED BY <2>1, <2>3, <2>4, <2>7, <2>8, ListedAreConns DEF FdInv
<1>8. ASSUME NEW t \in Threads, Retire(t)
      PROVE  FdInv'
  <2> DEFINE c == hold[t]
  <2>1. /\ pc[t] = "retire" /\ c \in Conns /\ fd[c] = NoFd
        /\ UNCHANGED <<total, freeList, interest, fd>> /\ Enqueue(c)
    BY <1>8 DEF Retire, ThreadType, FdInv, kernel
  <2>2. \A u \in Threads : pc'[u] \in {"clear", "retire"} =>
           pc[u] = pc'[u] /\ hold'[u] = hold[u]
    BY <1>8 DEF Retire, Release, Lease, ThreadType
  <2>3. \A f \in Fds : interest[f] # NoConn => interest[f] # c
    BY <2>1 DEF FdInv
  <2> HIDE DEF c
  <2>4. Free' = Free /\ Recycling' \subseteq Recycling \cup {c}
    <3>1. CASE c \in Recycling
      BY <2>1, <3>1 DEF Enqueue, Free, Recycling
    <3>2. CASE c \notin Recycling
      <4>1. recyList' = Append(recyList, c) /\ recyList \in Seq(Conns)
        BY <2>1, <3>2 DEF Enqueue, PoolType
      <4>2. Elems(Append(recyList, c)) = Elems(recyList) \cup {c}
        BY <2>1, <4>1, AppendElems
      <4>3. QED BY <2>1, <4>1, <4>2 DEF Free, Recycling
    <3>3. QED BY <3>1, <3>2
  <2>5. QED BY <2>1, <2>2, <2>3, <2>4 DEF FdInv
<1>9. CASE SweepFree
  <2> DEFINE c == recyList[sweep]
  <2>1. /\ sweep \in 1 .. Len(recyList)
        /\ freeList' = Append(freeList, c) /\ recyList' = RemoveAt(recyList, sweep)
        /\ UNCHANGED <<total, interest, fd, pc, hold>>
    BY <1>9, SMTT(30) DEF SweepFree, PoolType, threads, kernel
  <2>2. c \in Conns /\ c \in Recycling /\ Recycling' \subseteq Recycling
    <3>1. recyList \in Seq(Conns)
      BY DEF PoolType
    <3>2. /\ c \in Conns
          /\ Elems(recyList) = Elems(RemoveAt(recyList, sweep)) \cup {c}
      BY <2>1, <3>1, RemoveAtElems
    <3>3. QED BY <2>1, <3>2 DEF Recycling
  <2>3. Free' = Free \cup {c}
    BY <2>1, <2>2, AppendElems, SMTT(30) DEF Free, PoolType
  <2> HIDE DEF c
  <2>4. QED BY <2>1, <2>2, <2>3 DEF FdInv
<1>10. CASE SweepStart \/ SweepSkip \/ SweepEnd \/ Tick \/ UNCHANGED vars
  <2>1. UNCHANGED <<total, freeList, recyList, interest, fd, pc, hold>>
    BY <1>10 DEF SweepStart, SweepSkip, SweepEnd, Tick, vars, pool, threads, kernel
  <2>2. QED BY <1>1, <2>1
<1>11. QED
  BY <1>2, <1>3, <1>4, <1>5, <1>6, <1>7, <1>8, <1>9, <1>10
  DEF Next, CloseStep, Recycle

-----------------------------------------------------------------------------
(* Safe in the next state, for a reference that does not change.           *)
SafeNext(c, u, margin) ==
    /\ c < total' /\ c \notin Free'
    /\ clock' <= u /\ u <= clock' + Hold
    /\ c \in Recycling' => u + margin < inRecyTime'[c] + RecyWait

(* A safe reference stays safe, unless its deadline passes.                *)
SafeKept ==
    \A c \in Conns, u \in Nat, margin \in {0, Hold} :
        Safe(c, u, margin) /\ (clock' = clock \/ clock < u)
            => SafeNext(c, u, margin) /\ owner'[c] = owner[c]

(* An object in use stays in use and keeps its client, or its sequence     *)
(* number grows.                                                           *)
LiveKept ==
    \A c \in Conns :
        /\ seqNo'[c] >= seqNo[c]
        /\ c < total /\ c \notin Free /\ c \notin Recycling /\ seqNo'[c] = seqNo[c]
              => c < total' /\ c \notin Free' /\ c \notin Recycling'
                 /\ owner'[c] = owner[c]

LEMMA KeptStep ==
    ASSUME TypeOK, PoolInv, [Next]_vars
    PROVE  SafeKept /\ LiveKept
<1> USE DEF TypeOK, PoolInv
<1>0. /\ Conns \subseteq Nat /\ Hold \in Nat /\ RecyWait \in Nat /\ clock \in Nat
      /\ seqNo \in [Conns -> Nat] /\ inRecyTime \in [Conns -> Nat]
      /\ Recycling \subseteq Conns
  BY PoolAssumption, ListedAreConns DEF TimeType, PoolType
<1>1. ASSUME Quiet, UNCHANGED <<seqNo, owner>>
      PROVE  SafeKept /\ LiveKept
  <2>1. Free' = Free /\ Recycling' = Recycling
    BY <1>1 DEF Quiet, Free, Recycling
  <2>2. SafeKept
    BY <1>1, <2>1 DEF Quiet, SafeKept, SafeNext, Safe
  <2>3. LiveKept
    BY <1>0, <1>1, <2>1 DEF Quiet, LiveKept
  <2>4. QED BY <2>2, <2>3
<1>2. CASE Register \/ RegisterFails
  <2>1. /\ UNCHANGED <<recyList, clock>> /\ Free' \subseteq Free \cup Created
    BY <1>2, RegisterLists
  <2>2. PICK c \in Conns :
           /\ GetConnection(c)
           /\ \/ seqNo' = SeqAfterGet(c)
              \/ seqNo' = [SeqAfterGet(c) EXCEPT ![c] = @ + 1]
    BY <1>2, RegisterLists
  <2>3. /\ c >= total \/ c \in Free
        /\ Recycling' = Recycling
        /\ \A d \in Conns : d < total /\ d \notin Free =>
              /\ d # c /\ d < total' /\ d \notin Free'
              /\ inRecyTime'[d] = inRecyTime[d] /\ owner'[d] = owner[d]
              /\ SeqAfterGet(c)[d] = seqNo[d]
        /\ \A d \in Conns : SeqAfterGet(c)[d] >= seqNo[d]
    BY <2>1, <2>2, GetConnectionFrame
  <2>4. SafeKept
    BY <2>1, <2>3 DEF SafeKept, SafeNext, Safe
  <2>5. SeqAfterGet(c) \in [Conns -> Nat]
    BY <2>2, GetConnectionType DEF GetConnection
  <2>6. \A d \in Conns : seqNo'[d] >= seqNo[d]
    BY <1>0, <2>2, <2>3, <2>5
  <2>7. LiveKept
    BY <2>3, <2>6 DEF LiveKept
  <2>8. QED BY <2>4, <2>7
<1>3. ASSUME NEW t \in Threads, Retire(t)
      PROVE  SafeKept /\ LiveKept
  <2> DEFINE c == hold[t]
  <2>1. /\ c \in Conns /\ Enqueue(c)
        /\ UNCHANGED <<total, freeList, clock, owner>> /\ Free' = Free
    BY <1>3 DEF Retire, ThreadType, Free
  <2> HIDE DEF c
  <2>2. CASE c \in Recycling
    <3>1. Quiet /\ UNCHANGED <<seqNo, owner>>
      BY <2>1, <2>2 DEF Enqueue, Quiet
    <3>2. QED BY <1>1, <3>1
  <2>3. CASE c \notin Recycling
    <3>1. /\ recyList' = Append(recyList, c) /\ recyList \in Seq(Conns)
          /\ seqNo' = [seqNo EXCEPT ![c] = @ + 1]
          /\ inRecyTime' = [inRecyTime EXCEPT ![c] = clock]
      BY <2>1, <2>3 DEF Enqueue, PoolType
    <3>2. Elems(Append(recyList, c)) = Elems(recyList) \cup {c}
      BY <2>1, <3>1, AppendElems
    <3>3. Recycling' = Recycling \cup {c}
      BY <3>1, <3>2 DEF Recycling
    <3>4. SafeKept
      <4> SUFFICES ASSUME NEW d \in Conns, NEW u \in Nat, NEW margin \in {0, Hold},
                          Safe(d, u, margin)
                   PROVE  SafeNext(d, u, margin) /\ owner'[d] = owner[d]
        BY DEF SafeKept
      <4>1. CASE d = c
        <5>1. u + margin <= clock + 2 * Hold
          BY <1>0 DEF Safe
        <5>2. u + margin < clock + RecyWait
          BY <1>0, <5>1, DelayAssumption
        <5>3. inRecyTime'[d] = clock
          BY <1>0, <2>1, <3>1, <4>1
        <5>4. QED BY <2>1, <5>2, <5>3 DEF Safe, SafeNext
      <4>2. CASE d # c
        <5>1. inRecyTime'[d] = inRecyTime[d] /\ (d \in Recycling' <=> d \in Recycling)
          BY <1>0, <2>1, <3>1, <3>3, <4>2
        <5>2. QED BY <2>1, <5>1 DEF Safe, SafeNext
      <4>3. QED BY <4>1, <4>2
    <3>5. \A d \in Conns : seqNo'[d] = IF d = c THEN seqNo[d] + 1 ELSE seqNo[d]
      BY <1>0, <3>1
    <3>6. LiveKept
      BY <1>0, <2>1, <3>3, <3>5 DEF LiveKept
    <3>7. QED BY <3>4, <3>6
  <2>4. QED BY <2>2, <2>3
<1>4. CASE SweepFree
  <2> DEFINE c == recyList[sweep]
  <2>1. /\ sweep \in 1 .. Len(recyList) /\ recyList \in Seq(Conns)
        /\ recyList' = RemoveAt(recyList, sweep) /\ freeList' = Append(freeList, c)
        /\ seqNo' = [seqNo EXCEPT ![c] = @ + 1]
        /\ Expired(c)
        /\ UNCHANGED <<total, inRecyTime, clock, owner>>
    BY <1>4, SMTT(30) DEF SweepFree, PoolType
  <2>2. /\ c \in Conns
        /\ Elems(recyList) = Elems(RemoveAt(recyList, sweep)) \cup {c}
    BY <2>1, RemoveAtElems
  <2> HIDE DEF c
  <2>3. c \in Recycling /\ Recycling' \subseteq Recycling
    BY <2>1, <2>2 DEF Recycling
  <2>4. Free' = Free \cup {c}
    BY <2>1, <2>2, AppendElems DEF Free, PoolType
  <2>5. inRecyTime[c] + RecyWait <= clock
    <3>1. currtime <= clock /\ currtime \in Nat /\ inRecyTime[c] \in Nat
      BY <1>0, <2>2 DEF ListsInv, TimeType
    <3>2. QED BY <1>0, <2>1, <3>1 DEF Expired
  <2>6. SafeKept
    <3> SUFFICES ASSUME NEW d \in Conns, NEW u \in Nat, NEW margin \in {0, Hold},
                        Safe(d, u, margin)
                 PROVE  SafeNext(d, u, margin) /\ owner'[d] = owner[d]
      BY DEF SafeKept
    <3>1. d # c
      BY <1>0, <2>2, <2>3, <2>5 DEF Safe
    <3>2. QED BY <2>1, <2>3, <2>4, <3>1 DEF Safe, SafeNext
  <2>7. \A d \in Conns : seqNo'[d] = IF d = c THEN seqNo[d] + 1 ELSE seqNo[d]
    BY <1>0, <2>1
  <2>8. LiveKept
    BY <1>0, <2>1, <2>3, <2>4, <2>7 DEF LiveKept
  <2>9. QED BY <2>6, <2>8
<1>5. CASE Tick
  <2>1. /\ clock' = clock + 1
        /\ UNCHANGED <<total, freeList, recyList, inRecyTime, seqNo, owner>>
    BY <1>5 DEF Tick, pool
  <2>2. Free' = Free /\ Recycling' = Recycling
    BY <2>1 DEF Free, Recycling
  <2>3. SafeKept
    BY <1>0, <2>1, <2>2 DEF SafeKept, SafeNext, Safe
  <2>4. LiveKept
    BY <1>0, <2>1, <2>2 DEF LiveKept
  <2>5. QED BY <2>3, <2>4
<1>6. CASE EpollStep /\ ~Register /\ ~RegisterFails
  <2>1. Quiet /\ UNCHANGED <<seqNo, owner>>
    BY <1>6 DEF EpollStep, AcceptRefused, Accept, EpollWait, EventIgnored, EventData,
                EventClose, Quiet, pool
  <2>2. QED BY <1>1, <2>1
<1>7. ASSUME NEW t \in Threads,
             MessageStep(t) \/ WorkStep(t) \/ (CloseStep(t) /\ ~Retire(t))
      PROVE  SafeKept /\ LiveKept
  <2>1. Quiet /\ UNCHANGED <<seqNo, owner>>
    BY <1>7 DEF MessageStep, DropStale, TakeRequest, TakeResponse, WorkStep, Respond,
                Finish, StartClose, CloseStep, CheckFd, CloseFd, ClearFd, Quiet, pool
  <2>2. QED BY <1>1, <2>1
<1>8. CASE SweepStart \/ SweepSkip \/ SweepEnd \/ UNCHANGED vars
  <2>1. Quiet /\ UNCHANGED <<seqNo, owner>>
    BY <1>8 DEF SweepStart, SweepSkip, SweepEnd, vars, Quiet, pool
  <2>2. QED BY <1>1, <2>1
<1>9. QED
  BY <1>2, <1>3, <1>4, <1>5, <1>6, <1>7, <1>8 DEF Next, CloseStep, Recycle

(* The references of the next state: each one was safe in this state, for  *)
(* the same client and the same deadline.                                  *)
MarginNext(t) == IF pc'[t] = "work" THEN Hold ELSE 0

Kept(c, u, margin) == Safe(c, u, margin) /\ (clock' = clock \/ clock < u)

ThreadsKept ==
    \A t \in Threads : Busy(t)' =>
        /\ hold'[t] \in Conns /\ until'[t] \in Nat
        /\ Kept(hold'[t], until'[t], MarginNext(t))
        /\ owner[hold'[t]] = serves'[t]

BatchKept ==
    \A c \in batch' : /\ c \in Conns /\ batchUntil' \in Nat
                      /\ Kept(c, batchUntil', 0)

MsgsKept ==
    /\ \A m \in msgs' : m.kind = "resp" =>
          /\ m.conn \in Conns /\ m.until \in Nat
          /\ Kept(m.conn, m.until, 0)
          /\ owner[m.conn] = m.sock
    /\ \A m \in msgs' : m.kind = "req" =>
          /\ m.conn \in Conns /\ m.seq \in Nat /\ m.seq <= seqNo[m.conn]
          /\ m.seq = seqNo[m.conn] =>
                /\ m.conn < total /\ m.conn \notin Free /\ m.conn \notin Recycling
                /\ owner[m.conn] = m.sock

LEMMA KeptRefs ==
    ASSUME TypeOK, TypeOK', SafeKept, LiveKept, ThreadsKept, BatchKept, MsgsKept
    PROVE  RefsInv'
<1>1. Hold \in Nat /\ seqNo \in [Conns -> Nat]
  BY PoolAssumption DEF TypeOK, PoolType
<1>2. ThreadRefs'
  BY <1>1 DEF ThreadsKept, SafeKept, SafeNext, Kept, MarginNext, ThreadRefs, Safe, Margin
<1>3. BatchRefs'
  BY <1>1 DEF BatchKept, SafeKept, SafeNext, Kept, BatchRefs, Safe
<1>4. ResponseRefs'
  BY <1>1 DEF MsgsKept, SafeKept, SafeNext, Kept, ResponseRefs, Safe
<1>5. RequestRefs'
  <2> SUFFICES ASSUME NEW m \in msgs', m.kind = "req"
               PROVE  /\ m.seq <= seqNo'[m.conn]
                      /\ m.seq = seqNo'[m.conn] =>
                            /\ m.conn < total' /\ m.conn \notin Free'
                            /\ m.conn \notin Recycling'
                            /\ owner'[m.conn] = m.sock
    BY DEF RequestRefs
  <2>1. /\ m.conn \in Conns /\ m.seq \in Nat /\ m.seq <= seqNo[m.conn]
        /\ m.seq = seqNo[m.conn] =>
              /\ m.conn < total /\ m.conn \notin Free /\ m.conn \notin Recycling
              /\ owner[m.conn] = m.sock
    BY DEF MsgsKept
  <2>2. /\ seqNo[m.conn] \in Nat /\ seqNo'[m.conn] \in Nat
        /\ seqNo'[m.conn] >= seqNo[m.conn]
    BY <1>1, <2>1 DEF LiveKept, TypeOK, PoolType
  <2>3. QED BY <2>1, <2>2 DEF LiveKept
<1>6. QED BY <1>2, <1>3, <1>4, <1>5 DEF RefsInv

LEMMA RefsStep ==
    ASSUME TypeOK, TypeOK', PoolInv, [Next]_vars
    PROVE  RefsInv'
<1> USE DEF TypeOK, PoolInv, RefsInv
<1>0. /\ Hold \in Nat /\ clock \in Nat /\ RecyWait \in Nat
      /\ 2 * Hold < RecyWait /\ until \in [Threads -> Nat] /\ batchUntil \in Nat
      /\ batch \subseteq Conns /\ msgs \subseteq Message /\ Epoll \in Threads
      /\ inRecyTime \in [Conns -> Nat] /\ Conns \subseteq Nat
      /\ seqNo \in [Conns -> Nat]
  BY PoolAssumption, DelayAssumption, ListedAreConns
  DEF TimeType, ThreadType, LoopType, PoolType, Threads
<1>1. ASSUME NEW t \in Threads, Busy(t)
      PROVE  /\ hold[t] \in Conns /\ until[t] \in Nat
             /\ Safe(hold[t], until[t], Margin(t)) /\ Safe(hold[t], until[t], 0)
             /\ owner[hold[t]] = serves[t]
  <2>1. /\ hold[t] \in Conns /\ Safe(hold[t], until[t], Margin(t))
        /\ owner[hold[t]] = serves[t] /\ inRecyTime[hold[t]] \in Nat
    BY <1>0, <1>1 DEF ThreadRefs, ThreadType
  <2>2. QED BY <1>0, <2>1 DEF Safe, Margin
<1>2. ASSUME clock' = clock, UNCHANGED threads
      PROVE  ThreadsKept
  BY <1>1, <1>2 DEF ThreadsKept, Kept, Margin, MarginNext, threads
<1>3. ASSUME NEW t \in Threads, clock' = clock,
             \A u \in Threads \ {t} : /\ pc'[u] = pc[u] /\ hold'[u] = hold[u]
                                      /\ until'[u] = until[u] /\ serves'[u] = serves[u],
             Busy(t)' => /\ hold'[t] \in Conns /\ until'[t] \in Nat
                         /\ Safe(hold'[t], until'[t], MarginNext(t))
                         /\ owner[hold'[t]] = serves'[t]
      PROVE  ThreadsKept
  <2>1. ASSUME NEW u \in Threads, Busy(u)'
        PROVE  /\ hold'[u] \in Conns /\ until'[u] \in Nat
               /\ Kept(hold'[u], until'[u], MarginNext(u))
               /\ owner[hold'[u]] = serves'[u]
    <3>1. CASE u = t
      BY <1>3, <2>1, <3>1 DEF Kept
    <3>2. CASE u # t
      BY <1>1, <1>3, <2>1, <3>2 DEF Kept, Margin, MarginNext
    <3>3. QED BY <3>1, <3>2
  <2>2. QED BY <2>1 DEF ThreadsKept
<1>4. ASSUME clock' = clock, batch' \subseteq batch, UNCHANGED batchUntil
      PROVE  BatchKept
  BY <1>0, <1>4 DEF BatchKept, Kept, BatchRefs
<1>5. ASSUME clock' = clock, msgs' \subseteq msgs
      PROVE  MsgsKept
  BY <1>0, <1>5 DEF MsgsKept, Kept, ResponseRefs, RequestRefs, Message
<1>6. SafeKept /\ LiveKept
  BY KeptStep
<1>7. CASE \/ AcceptRefused \/ SweepStart \/ SweepFree \/ SweepSkip \/ SweepEnd
           \/ UNCHANGED vars
  <2>1. clock' = clock /\ UNCHANGED <<threads, msgs, batch, batchUntil>>
    BY <1>7 DEF AcceptRefused, SweepStart, SweepFree, SweepSkip, SweepEnd, vars, loop
  <2>2. QED BY <1>2, <1>4, <1>5, <1>6, <2>1, KeptRefs
<1>8. CASE Accept \/ Register \/ RegisterFails
  <2>1. /\ clock' = clock /\ UNCHANGED <<msgs, batch, batchUntil, hold, until, serves>>
        /\ \A t \in Threads \ {Epoll} : pc'[t] = pc[t]
        /\ pc'[Epoll] \in {"get", Idle}
    BY <1>0, <1>8 DEF Accept, Register, RegisterFails, ThreadType
  <2>2. ThreadsKept
    BY <1>0, <1>3, <2>1
  <2>3. QED BY <1>4, <1>5, <1>6, <2>1, <2>2, KeptRefs
<1>9. CASE EpollWait
  <2>1. clock' = clock /\ UNCHANGED <<threads, msgs>> /\ batchUntil' = clock + Hold
    BY <1>9 DEF EpollWait
  <2>2. BatchKept
    <3> SUFFICES ASSUME NEW c \in batch'
                 PROVE  c \in Conns /\ Kept(c, clock + Hold, 0)
      BY <1>0, <2>1 DEF BatchKept
    <3>1. PICK f \in Fds : interest[f] # NoConn /\ c = interest[f]
      BY <1>9 DEF EpollWait
    <3>2. c \in Conns
      BY <3>1 DEF KernelType
    <3>3. QED BY <1>0, <2>1, <3>1, <3>2 DEF FdInv, Kept, Safe
  <2>3. QED BY <1>2, <1>5, <1>6, <2>1, <2>2, KeptRefs
<1>10. ASSUME NEW c \in batch, EventIgnored(c)
       PROVE  RefsInv'
  <2>1. clock' = clock /\ UNCHANGED <<threads, msgs, batchUntil>> /\ batch' \subseteq batch
    BY <1>10 DEF EventIgnored
  <2>2. QED BY <1>2, <1>4, <1>5, <1>6, <2>1, KeptRefs
<1>11. ASSUME NEW c \in batch, EventData(c)
       PROVE  RefsInv'
  <2> DEFINE new == [kind |-> "req", conn |-> c, seq |-> seqNo[c], until |-> 0,
                     sock |-> owner[c]]
  <2>1. /\ clock' = clock /\ UNCHANGED <<threads, batchUntil>> /\ batch' \subseteq batch
        /\ msgs' = msgs \cup {new}
    BY <1>11 DEF EventData
  <2>2. c \in Conns /\ c < total /\ c \notin Free /\ c \notin Recycling
    <3>1. fd[c] # NoFd
      BY <1>11, PoolAssumption DEF EventData, Fds, NoFd
    <3>2. QED BY <1>0, <3>1 DEF BatchRefs, Safe, FdInv
  <2>3. MsgsKept
    <3>1. /\ new.kind = "req" /\ new.conn = c /\ new.seq = seqNo[c] /\ new.sock = owner[c]
          /\ new.seq \in Nat
      BY <1>0, <2>2
    <3> HIDE DEF new
    <3>2. ASSUME NEW m \in msgs
          PROVE  /\ m.kind = "resp" =>
                       /\ m.conn \in Conns /\ m.until \in Nat
                       /\ Kept(m.conn, m.until, 0) /\ owner[m.conn] = m.sock
                 /\ m.kind = "req" =>
                       /\ m.conn \in Conns /\ m.seq \in Nat /\ m.seq <= seqNo[m.conn]
                       /\ m.seq = seqNo[m.conn] =>
                             /\ m.conn < total /\ m.conn \notin Free
                             /\ m.conn \notin Recycling /\ owner[m.conn] = m.sock
      BY <1>0, <2>1 DEF Kept, ResponseRefs, RequestRefs, Message
    <3>3. QED BY <2>1, <2>2, <3>1, <3>2 DEF MsgsKept
  <2>4. QED BY <1>2, <1>4, <1>6, <2>1, <2>3, KeptRefs
<1>12. ASSUME NEW c \in batch, EventClose(c)
       PROVE  RefsInv'
  <2>1. /\ clock' = clock /\ UNCHANGED <<msgs, batchUntil>> /\ batch' \subseteq batch
        /\ \A u \in Threads \ {Epoll} : /\ pc'[u] = pc[u] /\ hold'[u] = hold[u]
                                        /\ until'[u] = until[u] /\ serves'[u] = serves[u]
        /\ pc'[Epoll] = "check" /\ hold'[Epoll] = c /\ until'[Epoll] = batchUntil
        /\ serves'[Epoll] = owner[c]
    BY <1>0, <1>12 DEF EventClose, Lease, ThreadType
  <2>2. ThreadsKept
    <3>1. c \in Conns /\ Safe(c, batchUntil, 0) /\ MarginNext(Epoll) = 0
      BY <1>0, <2>1 DEF BatchRefs, MarginNext
    <3>2. QED BY <1>0, <1>3, <2>1, <3>1
  <2>3. QED BY <1>4, <1>5, <1>6, <2>1, <2>2, KeptRefs
<1>13. ASSUME NEW t \in Threads, NEW m \in msgs, DropStale(t, m)
       PROVE  RefsInv'
  <2>1. clock' = clock /\ UNCHANGED <<threads, batch, batchUntil>> /\ msgs' \subseteq msgs
    BY <1>13 DEF DropStale, loop
  <2>2. QED BY <1>2, <1>4, <1>5, <1>6, <2>1, KeptRefs
<1>14. ASSUME NEW t \in Threads, NEW m \in msgs, TakeRequest(t, m)
       PROVE  RefsInv'
  <2>1. /\ clock' = clock /\ UNCHANGED <<batch, batchUntil>> /\ msgs' \subseteq msgs
        /\ \A u \in Threads \ {t} : /\ pc'[u] = pc[u] /\ hold'[u] = hold[u]
                                    /\ until'[u] = until[u] /\ serves'[u] = serves[u]
        /\ hold'[t] = m.conn /\ until'[t] = clock + Hold /\ serves'[t] = m.sock
        /\ pc'[t] = "work"
    BY <1>0, <1>14 DEF TakeRequest, Lease, ThreadType, loop
  <2>2. ThreadsKept
    <3>1. /\ m.conn \in Conns /\ m.conn < total /\ m.conn \notin Free
          /\ m.conn \notin Recycling /\ owner[m.conn] = m.sock
      BY <1>0, <1>14 DEF TakeRequest, Fresh, RequestRefs, Message
    <3>2. Safe(m.conn, clock + Hold, Hold)
      BY <1>0, <3>1 DEF Safe
    <3>3. QED BY <1>0, <1>3, <2>1, <3>1, <3>2 DEF MarginNext
  <2>3. QED BY <1>4, <1>5, <1>6, <2>1, <2>2, KeptRefs
<1>15. ASSUME NEW t \in Threads, NEW m \in msgs, TakeResponse(t, m)
       PROVE  RefsInv'
  <2>1. /\ clock' = clock /\ UNCHANGED <<batch, batchUntil>> /\ msgs' \subseteq msgs
        /\ \A u \in Threads \ {t} : /\ pc'[u] = pc[u] /\ hold'[u] = hold[u]
                                    /\ until'[u] = until[u] /\ serves'[u] = serves[u]
        /\ hold'[t] = m.conn /\ until'[t] = m.until /\ serves'[t] = m.sock
        /\ pc'[t] = "send"
    BY <1>0, <1>15 DEF TakeResponse, Lease, ThreadType, loop
  <2>2. ThreadsKept
    <3>1. /\ m.conn \in Conns /\ m.until \in Nat /\ Safe(m.conn, m.until, 0)
          /\ owner[m.conn] = m.sock /\ MarginNext(t) = 0
      BY <1>0, <1>15, <2>1 DEF TakeResponse, ResponseRefs, Message, MarginNext
    <3>2. QED BY <1>3, <2>1, <3>1
  <2>3. QED BY <1>4, <1>5, <1>6, <2>1, <2>2, KeptRefs
<1>16. ASSUME NEW t \in Threads, Respond(t)
       PROVE  RefsInv'
  <2> DEFINE new == [kind |-> "resp", conn |-> hold[t], seq |-> seqNo[hold[t]],
                     until |-> clock + Hold, sock |-> serves[t]]
  <2>1. /\ clock' = clock /\ UNCHANGED <<batch, batchUntil>>
        /\ msgs' = msgs \cup {new}
        /\ \A u \in Threads \ {t} : /\ pc'[u] = pc[u] /\ hold'[u] = hold[u]
                                    /\ until'[u] = until[u] /\ serves'[u] = serves[u]
        /\ hold'[t] = hold[t] /\ until'[t] = until[t] /\ serves'[t] = serves[t]
        /\ pc[t] = "work" /\ pc'[t] = "reset"
    BY <1>16 DEF Respond, ThreadType, loop
  <2>2. ThreadsKept
    <3>1. /\ hold'[t] \in Conns /\ until'[t] \in Nat
          /\ Safe(hold'[t], until'[t], MarginNext(t))
          /\ owner[hold'[t]] = serves'[t]
      BY <1>1, <2>1 DEF MarginNext
    <3>2. QED BY <1>3, <2>1, <3>1
  <2>3. /\ hold[t] \in Conns /\ owner[hold[t]] = serves[t]
        /\ Safe(hold[t], clock + Hold, 0)
    <3>1. /\ hold[t] \in Conns /\ owner[hold[t]] = serves[t] /\ until[t] \in Nat
          /\ Safe(hold[t], until[t], Hold)
      BY <1>1, <2>1 DEF Margin
    <3>2. clock + Hold <= until[t] + Hold /\ clock + Hold \in Nat
      BY <1>0, <3>1 DEF Safe
    <3>3. inRecyTime[hold[t]] \in Nat
      BY <1>0, <3>1
    <3>4. QED BY <1>0, <3>1, <3>2, <3>3 DEF Safe
  <2>4. MsgsKept
    <3>1. /\ new.kind = "resp" /\ new.conn = hold[t] /\ new.until = clock + Hold
          /\ new.sock = serves[t] /\ new.until \in Nat
      BY <1>0
    <3> HIDE DEF new
    <3>2. ASSUME NEW m \in msgs
          PROVE  /\ m.kind = "resp" =>
                       /\ m.conn \in Conns /\ m.until \in Nat
                       /\ Kept(m.conn, m.until, 0) /\ owner[m.conn] = m.sock
                 /\ m.kind = "req" =>
                       /\ m.conn \in Conns /\ m.seq \in Nat /\ m.seq <= seqNo[m.conn]
                       /\ m.seq = seqNo[m.conn] =>
                             /\ m.conn < total /\ m.conn \notin Free
                             /\ m.conn \notin Recycling /\ owner[m.conn] = m.sock
      BY <1>0, <2>1 DEF Kept, ResponseRefs, RequestRefs, Message
    <3>3. QED BY <2>1, <2>3, <3>1, <3>2 DEF MsgsKept, Kept
  <2>5. QED BY <1>4, <1>6, <2>1, <2>2, <2>4, KeptRefs
<1>17. ASSUME NEW t \in Threads,
              Finish(t) \/ StartClose(t) \/ CheckFd(t) \/ CloseFd(t) \/ ClearFd(t)
                  \/ Retire(t)
       PROVE  RefsInv'
  <2>1. clock' = clock /\ UNCHANGED <<batch, batchUntil, msgs>>
    BY <1>17 DEF Finish, StartClose, CheckFd, CloseFd, ClearFd, Retire, loop
  <2>2. /\ \A u \in Threads \ {t} : /\ pc'[u] = pc[u] /\ hold'[u] = hold[u]
                                    /\ until'[u] = until[u] /\ serves'[u] = serves[u]
        /\ \/ pc'[t] = "idle"
           \/ /\ Busy(t) /\ pc'[t] # "work"
              /\ hold'[t] = hold[t] /\ until'[t] = until[t] /\ serves'[t] = serves[t]
    BY <1>17 DEF Finish, StartClose, CheckFd, CloseFd, ClearFd, Retire, Release, Lease,
                 ThreadType
  <2>3. ThreadsKept
    <3>1. Busy(t)' => /\ hold'[t] \in Conns /\ until'[t] \in Nat
                      /\ Safe(hold'[t], until'[t], MarginNext(t))
                      /\ owner[hold'[t]] = serves'[t]
      BY <1>1, <2>2 DEF MarginNext
    <3>2. QED BY <1>3, <2>1, <2>2, <3>1
  <2>4. QED BY <1>4, <1>5, <1>6, <2>1, <2>3, KeptRefs
<1>18. CASE Tick
  <2>1. /\ UNCHANGED <<threads, batch, batchUntil, msgs>>
        /\ \A t \in Threads : Busy(t) => clock < until[t]
        /\ \A m \in msgs : m.kind = "resp" => clock < m.until
        /\ batch # {} => clock < batchUntil
    BY <1>18 DEF Tick, loop
  <2>2. ThreadsKept
    BY <1>1, <2>1 DEF ThreadsKept, Kept, Margin, MarginNext, threads
  <2>3. BatchKept
    BY <1>0, <2>1 DEF BatchKept, Kept, BatchRefs
  <2>4. MsgsKept
    BY <1>0, <2>1 DEF MsgsKept, Kept, ResponseRefs, RequestRefs, Message
  <2>5. QED BY <1>6, <2>2, <2>3, <2>4, KeptRefs
<1>19. QED
  BY <1>7, <1>8, <1>9, <1>10, <1>11, <1>12, <1>13, <1>14, <1>15, <1>16, <1>17, <1>18
  DEF Next, EpollStep, MessageStep, WorkStep, CloseStep, Recycle

-----------------------------------------------------------------------------
(* The inductive invariant of the pool: the lists, every reference a       *)
(* thread, a queued header or a pending event holds, and the descriptors.  *)
THEOREM PoolInvariant == Spec => []PoolInv
<1>1. Init => PoolInv
  <2> SUFFICES ASSUME Init PROVE PoolInv
    OBVIOUS
  <2> USE PoolAssumption DEF Init, NoFd, NoConn
  <2>1. /\ freeList \in Seq(Nat) /\ Len(freeList) = WorkerConnections - 1
        /\ Free \subseteq 1 .. WorkerConnections - 1 /\ Recycling = {}
    BY DEF Free, Recycling, Elems
  <2>2. IsInjective(freeList) /\ IsInjective(recyList)
    BY DEF IsInjective
  <2>3. ListsInv
    BY <2>1, <2>2 DEF ListsInv, OnceInPool
  <2>4. RefsInv
    BY DEF RefsInv, ThreadRefs, BatchRefs, ResponseRefs, RequestRefs
  <2>5. FdInv
    BY <2>1 DEF FdInv
  <2>6. QED BY <2>3, <2>4, <2>5 DEF PoolInv
<1>2. TypeOK /\ TypeOK' /\ PoolInv /\ [Next]_vars => PoolInv'
  BY ListsStep, RefsStep, FdStep DEF PoolInv
<1>3. QED BY <1>1, <1>2, TypeCorrect, PTL DEF Spec

(* An object is on at most one of the two lists, and on it once: no two    *)
(* clients are ever given the same object.                                 *)
THEOREM NoDoubleRelease == Spec => []OnceInPool
<1>1. PoolInv => OnceInPool
  BY DEF PoolInv, ListsInv
<1>2. QED BY <1>1, PoolInvariant, PTL

(* While the recycle delay is more than twice the time a thread may keep   *)
(* working, no thread, queued response or pending event refers to an       *)
(* object that is back on the free list.                                   *)
THEOREM DelayProtects == Spec => []NoUseAfterRecycle
<1>1. PoolInv => NoUseAfterRecycle
  BY DEF PoolInv, RefsInv, ThreadRefs, BatchRefs, ResponseRefs, Safe, NoUseAfterRecycle
<1>2. QED BY <1>1, PoolInvariant, PTL

(* A thread never works for a client on an object that has passed to       *)
(* another client.                                                         *)
THEOREM WorksForOwner == Spec => []ServesOwner
<1>1. PoolInv => ServesOwner
  BY DEF PoolInv, RefsInv, ThreadRefs, ServesOwner
<1>2. QED BY <1>1, PoolInvariant, PTL
-----------------------------------------------------------------------------
(* The two bounds of ConnPool, on the clients served at a time and on the  *)
(* objects ever created.  Both tests of ngx_event_accept are made before   *)
(* ngx_get_connection, without a lock that spans the two: what the tests   *)
(* found must still hold when the object is taken.                         *)
USE PoolAssumption DEF Idle, NoSocket, Busy

(* While the epoll thread is between its tests and the object, the counter *)
(* has room for one more.                                                  *)
AdmissionInv ==
    /\ AdmissionBound
    /\ pc[Epoll] = "get" => online < WorkerConnections

(* While it is there, the pool is small enough to grow, or need not grow.  *)
GrowthInv ==
    /\ GrowthBound
    /\ pc[Epoll] = "get" => \/ total <= 5 * WorkerConnections
                            \/ Len(freeList) >= WorkerConnections

(* The steps that move no object between the lists.                        *)
Still ==
    /\ UNCHANGED <<total, online, freeList, recyList>>
    /\ pc'[Epoll] = "get" => pc[Epoll] = "get"

(* Five kinds of steps move objects, or bring the epoll thread past its    *)
(* tests; all others leave both alone.                                     *)
LEMMA StepKinds ==
    ASSUME TypeOK, [Next]_vars
    PROVE  \/ Still \/ Accept \/ Register \/ RegisterFails
           \/ \E t \in Threads : Retire(t)
           \/ SweepFree
<1>0. pc \in [Threads -> {"idle", "get", "work", "reset", "send", "check", "close", "clear",
                          "retire"}]
      /\ Epoll \in Threads
  BY DEF TypeOK, ThreadType, Threads
<1>1. CASE EpollStep /\ ~Accept /\ ~Register /\ ~RegisterFails
  BY <1>0, <1>1 DEF EpollStep, AcceptRefused, EpollWait, EventIgnored, EventData,
     EventClose, Lease, Still, pool, threads
<1>2. ASSUME NEW t \in Threads, MessageStep(t) PROVE Still
  BY <1>0, <1>2 DEF MessageStep, DropStale, TakeRequest, TakeResponse, Lease, Still, pool,
     threads
<1>3. ASSUME NEW t \in Threads, WorkStep(t) PROVE Still
  <2>1. \/ pc' = [pc EXCEPT ![t] = "check"]
        \/ pc' = [pc EXCEPT ![t] = "idle"]
        \/ pc' = [pc EXCEPT ![t] = "reset"]
    BY <1>3 DEF WorkStep, Respond, Finish, StartClose, Release, Lease
  <2>2. UNCHANGED <<total, online, freeList, recyList>>
    BY <1>3 DEF WorkStep, Respond, Finish, StartClose, pool
  <2>3. QED BY <1>0, <2>1, <2>2 DEF Still
<1>4. ASSUME NEW t \in Threads, CloseStep(t), ~Retire(t) PROVE Still
  BY <1>0, <1>4 DEF CloseStep, CheckFd, CloseFd, ClearFd, Still, pool
<1>5. CASE SweepStart \/ SweepSkip \/ SweepEnd \/ Tick \/ UNCHANGED vars
  BY <1>5 DEF SweepStart, SweepSkip, SweepEnd, Tick, Still, pool, threads, vars
<1>6. QED BY <1>1, <1>2, <1>3, <1>4, <1>5 DEF Next, EpollStep, Recycle, CloseStep

(* An object is taken: one more is in use or, if epoll refuses it, none.   *)
LEMMA Taken ==
    ASSUME TypeOK, Register \/ RegisterFails
    PROVE  /\ pc[Epoll] = "get" /\ pc'[Epoll] # "get"
           /\ recyList' = recyList /\ online' = online + 1
           /\ total' - Len(freeList') \in {total - Len(freeList),
                                           total - Len(freeList) + 1}
           /\ \/ total' = total
              \/ freeList = <<>> /\ total' = total + WorkerConnections
<1>0. Epoll \in Threads /\ DOMAIN pc = Threads
  BY DEF TypeOK, ThreadType, Threads
<1>1. /\ pc[Epoll] = "get" /\ pc'[Epoll] # "get" /\ recyList' = recyList
  <2>1. /\ pc[Epoll] = "get" /\ recyList' = recyList
        /\ pc' = [pc EXCEPT ![Epoll] = "idle"]
    BY DEF Register, RegisterFails
  <2>2. QED BY <1>0, <2>1
<1>2. PICK c \in Conns : /\ GetConnection(c)
                         /\ freeList' \in {Tail(Refilled), Append(Tail(Refilled), c)}
  BY DEF Register, RegisterFails
<1>3. /\ Room /\ online' = online + 1
      /\ total' = IF freeList = <<>> THEN total + WorkerConnections ELSE total
  BY <1>2 DEF GetConnection
<1>4. /\ Refilled \in Seq(Conns) /\ Refilled # <<>>
      /\ Len(Refilled) = IF freeList = <<>> THEN WorkerConnections ELSE Len(freeList)
  BY <1>3, RefilledProperties
<1>5. Tail(Refilled) \in Seq(Conns) /\ Len(Tail(Refilled)) = Len(Refilled) - 1
  BY <1>4, TailElems
<1>6. Len(Append(Tail(Refilled), c)) = Len(Refilled)
      /\ Len(freeList) \in Nat /\ Len(Refilled) \in Nat
  <2>1. Len(freeList) \in Nat
    BY DEF TypeOK, PoolType
  <2>2. Len(Refilled) \in Nat
    BY ONLY <1>4
  <2>3. Len(Append(Tail(Refilled), c)) = Len(Tail(Refilled)) + 1
    <3> DEFINE t == Tail(Refilled)
    <3>1. t \in Seq(Conns)
      BY <1>5
    <3> HIDE DEF t
    <3>2. Len(Append(t, c)) = Len(t) + 1
      BY ONLY <3>1, c \in Conns, AppendElems, ZenonT(60)
    <3>3. QED BY ONLY <3>2 DEF t
  <2>4. QED BY ONLY <1>5, <2>1, <2>2, <2>3
<1>7. Len(freeList') \in {Len(Refilled) - 1, Len(Refilled)}
  BY <1>2, <1>5, <1>6, ZenonT(60)
<1>8. freeList = <<>> => Len(freeList) = 0
  OBVIOUS
<1>9. total \in Nat
  BY DEF TypeOK, PoolType
<1>10. total' - Len(freeList') \in {total - Len(freeList), total - Len(freeList) + 1}
  BY ONLY <1>3, <1>4, <1>6, <1>7, <1>8, <1>9, PoolAssumption
<1>11. QED BY <1>1, <1>3, <1>10

(* An object is closed or given back: it moves from use to the recycle     *)
(* queue, where it is not counted any more, or from there to the free list.*)
LEMMA Moved ==
    ASSUME TypeOK, NEW t \in Threads, Retire(t) \/ SweepFree
    PROVE  /\ total' = total /\ Len(freeList') >= Len(freeList)
           /\ pc'[Epoll] = "get" => pc[Epoll] = "get"
           /\ \/ online' = online
                 /\ Len(freeList') + Len(recyList') = Len(freeList) + Len(recyList)
              \/ online' = online - 1
                 /\ Len(freeList') + Len(recyList') = Len(freeList) + Len(recyList) + 1
<1>0. /\ Epoll \in Threads /\ DOMAIN pc = Threads
      /\ freeList \in Seq(Conns) /\ recyList \in Seq(Conns)
      /\ Len(freeList) \in Nat /\ Len(recyList) \in Nat
  BY DEF TypeOK, PoolType, ThreadType, Threads
<1>1. CASE Retire(t)
  <2>1. /\ UNCHANGED <<total, freeList>> /\ Enqueue(hold[t]) /\ pc[t] = "retire"
        /\ hold[t] \in Conns
    BY <1>1 DEF Retire, TypeOK, ThreadType
  <2>2. pc'[Epoll] = "get" => pc[Epoll] = "get"
    <3>1. \/ pc' = [pc EXCEPT ![t] = "check"]
          \/ pc' = [pc EXCEPT ![t] = "idle"]
      BY <1>1 DEF Retire, Release, Lease
    <3>2. QED BY <1>0, <3>1
  <2>3. \/ recyList' = recyList /\ online' = online
        \/ recyList' = Append(recyList, hold[t]) /\ online' = online - 1
    BY <2>1 DEF Enqueue
  <2>4. Len(Append(recyList, hold[t])) = Len(recyList) + 1
    BY <1>0, <2>1, AppendElems
  <2>5. /\ total' = total /\ Len(freeList') = Len(freeList)
        /\ \/ online' = online /\ Len(recyList') = Len(recyList)
           \/ online' = online - 1 /\ Len(recyList') = Len(recyList) + 1
    BY <2>1, <2>3, <2>4
  <2>6. QED BY <1>0, <2>2, <2>5, SMTT(30)
<1>2. CASE SweepFree
  <2>1. /\ sweep \in 1 .. Len(recyList)
        /\ freeList' = Append(freeList, recyList[sweep])
        /\ recyList' = RemoveAt(recyList, sweep)
        /\ UNCHANGED <<total, online, pc>>
    BY <1>0, <1>2 DEF SweepFree, threads
  <2>2. Len(recyList') = Len(recyList) - 1 /\ recyList[sweep] \in Conns
    BY <1>0, <2>1, RemoveAtElems
  <2>3. Len(freeList') = Len(freeList) + 1
    BY <1>0, <2>1, <2>2, AppendElems
  <2>4. QED BY <1>0, <2>1, <2>2, <2>3
<1>3. QED BY <1>1, <1>2

(* The counter that ngx_event_accept tests is never below the number of    *)
(* objects in use and never above worker_connections.                      *)
THEOREM AdmissionBounded == Spec => []AdmissionBound
<1>1. Init => AdmissionInv
  <2> SUFFICES ASSUME Init PROVE AdmissionInv
    OBVIOUS
  <2>1. Len(freeList) = WorkerConnections - 1 /\ Len(recyList) = 0
    <3>1. freeList = [i \in 1 .. WorkerConnections - 1 |-> i] /\ recyList = <<>>
      BY DEF Init
    <3>2. QED BY <3>1
  <2>2. total = WorkerConnections /\ online = 1 /\ pc[Epoll] = "idle"
    <3>1. Epoll \in Threads /\ pc = [t \in Threads |-> "idle"]
      BY DEF Init, Threads
    <3>2. QED BY <3>1 DEF Init
  <2>3. QED BY <2>1, <2>2 DEF AdmissionInv, AdmissionBound
<1>2. TypeOK /\ AdmissionInv /\ [Next]_vars => AdmissionInv'
  <2> SUFFICES ASSUME TypeOK, AdmissionInv, [Next]_vars PROVE AdmissionInv'
    OBVIOUS
  <2>0. /\ total \in Nat /\ online \in Int
        /\ Len(freeList) \in Nat /\ Len(recyList) \in Nat
    BY DEF TypeOK, PoolType
  <2>1. /\ total' \in Nat /\ online' \in Int
        /\ Len(freeList') \in Nat /\ Len(recyList') \in Nat
    BY TypeStep DEF TypeOK, PoolType
  <2> USE DEF AdmissionInv, AdmissionBound
  <2>2. CASE Still
    BY <2>2 DEF Still
  <2>3. CASE Accept
    <3>1. UNCHANGED <<total, online, freeList, recyList>> /\ online < WorkerConnections
      BY <2>0, <2>3 DEF Accept, Refused, pool
    <3>2. QED BY <3>1
  <2>4. CASE Register \/ RegisterFails
    <3>1. /\ pc[Epoll] = "get" /\ pc'[Epoll] # "get"
          /\ Len(recyList') = Len(recyList) /\ online' = online + 1
          /\ total' - Len(freeList') <= total - Len(freeList) + 1
      BY <2>0, <2>4, Taken
    <3>2. total' - Len(freeList') - Len(recyList') <= online'
      BY <2>0, <2>1, <3>1
    <3>3. QED BY <2>0, <3>1, <3>2
  <2>5. ASSUME NEW t \in Threads, Retire(t) \/ SweepFree PROVE AdmissionInv'
    BY <2>0, <2>1, <2>5, Moved, SMTT(30)
  <2>6. QED BY <2>2, <2>3, <2>4, <2>5, StepKinds DEF Threads
<1>3. AdmissionInv => AdmissionBound
  BY DEF AdmissionInv
<1>4. QED BY <1>1, <1>2, <1>3, TypeCorrect, PTL DEF Spec

(* However clients come and go, no more than six times the configured      *)
(* number of objects is ever created.                                      *)
THEOREM GrowthBounded == Spec => []GrowthBound
<1>1. Init => GrowthInv
  BY DEF Init, GrowthInv, GrowthBound, Threads
<1>2. TypeOK /\ GrowthInv /\ [Next]_vars => GrowthInv'
  <2> SUFFICES ASSUME TypeOK, GrowthInv, [Next]_vars PROVE GrowthInv'
    OBVIOUS
  <2>0. total \in Nat /\ Len(freeList) \in Nat /\ (freeList = <<>> => Len(freeList) = 0)
    BY DEF TypeOK, PoolType
  <2> USE DEF GrowthInv, GrowthBound
  <2>1. CASE Still
    BY <2>1 DEF Still
  <2>2. CASE Accept
    <3>1. /\ UNCHANGED <<total, freeList>>
          /\ total <= 5 * WorkerConnections \/ Len(freeList) >= WorkerConnections
      BY <2>0, <2>2 DEF Accept, Refused, pool
    <3>2. QED BY <3>1
  <2>3. CASE Register \/ RegisterFails
    BY <2>0, <2>3, Taken, SMTT(30)
  <2>4. ASSUME NEW t \in Threads, Retire(t) \/ SweepFree PROVE GrowthInv'
    <3>1. Len(freeList') \in Nat
      BY TypeStep DEF TypeOK, PoolType
    <3>2. QED BY <2>0, <2>4, <3>1, Moved
  <2>5. QED BY <2>1, <2>2, <2>3, <2>4, StepKinds DEF Threads
<1>3. GrowthInv => GrowthBound
  BY DEF GrowthInv
<1>4. QED BY <1>1, <1>2, <1>3, TypeCorrect, PTL DEF Spec

-----------------------------------------------------------------------------
(***************************************************************************)
(* The pool implements the life of an object of ConnLife, for every        *)
(* instance: each step of the pool is one step of one object's life, or    *)
(* changes nothing that ConnLife speaks of.                                *)
(***************************************************************************)
USE PoolAssumption, DelayAssumption

(* The references ConnPool's threads, events and responses hold.           *)
HeldBy(t) == IF Busy(t) THEN {hold[t]} ELSE {}
Answered == {m.conn : m \in {n \in msgs : n.kind = "resp"}}
Threaded == UNION {HeldBy(t) : t \in Threads}

(* What ConnLife calls busy is what these three refer to.                  *)
LEMMA ReferredParts ==
    /\ Referred = Threaded \cup Answered \cup batch
    /\ Referred' = Threaded' \cup Answered' \cup batch'
<1>1. Referred = {hold[t] : t \in {u \in Threads : Busy(u)}} \cup Answered \cup batch
  BY DEF Referred, Answered
<1>2. {hold[t] : t \in {u \in Threads : Busy(u)}} = Threaded
  BY DEF Threaded, HeldBy
<1>3. Referred' = {hold'[t] : t \in {u \in Threads : Busy(u)'}} \cup Answered' \cup batch'
  BY DEF Referred, Answered
<1>4. {hold'[t] : t \in {u \in Threads : Busy(u)'}} = Threaded'
  BY DEF Threaded, HeldBy
<1>5. QED BY <1>1, <1>2, <1>3, <1>4

(* As long as each thread refers to what it did, all of them do.           *)
LEMMA SameThreads ==
    ASSUME \A t \in Threads : HeldBy(t)' = HeldBy(t)
    PROVE  Threaded' = Threaded
BY DEF Threaded

(* Two states of the objects are equal when they are for each object.      *)
LEMMA StatusFunction ==
    /\ Status = [d \in Conns |-> Status[d]]
    /\ Status' = [d \in Conns |-> Status'[d]]
BY DEF Status

(* The state of an object is a matter of the lists alone.                  *)
LEMMA SameLists ==
    ASSUME UNCHANGED <<total, freeList, recyList>>
    PROVE  Status' = Status
BY DEF Status, Free, Recycling

(* A step that moves no object between the lists, and after which all but  *)
(* one of the references are there still, is a stutter or the end of one.  *)
LEMMA Loses ==
    ASSUME UNCHANGED <<total, freeList, recyList>>, NEW c \in Conns,
           Referred' \subseteq Referred, Referred \ {c} \subseteq Referred'
    PROVE  [Life!Next]_<<Status, Referred>>
<1>1. Status' = Status
  BY SameLists
<1>2. Referred' = Referred \/ Referred' = Referred \ {c}
  OBVIOUS
<1>3. QED BY <1>1, <1>2 DEF Life!Next, Life!End

(* A step that begins to refer to objects that are not free.               *)
LEMMA Gains ==
    ASSUME TypeOK, UNCHANGED <<total, freeList, recyList>>, NEW S \in SUBSET Conns,
           \A c \in S : c < total /\ c \notin Free,
           Referred' = Referred \cup S
    PROVE  [Life!Next]_<<Status, Referred>>
<1>1. Status' = Status
  BY SameLists
<1>2. \A c \in S : Status[c] \in {"used", "cooling"}
  BY ListedAreConns DEF Status
<1>3. QED BY <1>1, <1>2 DEF Life!Next, Life!Begin

(* A step that changes what one thread refers to, and nothing else.        *)
LEMMA OneThread ==
    ASSUME NEW t \in Threads, UNCHANGED batch,
           \A u \in Threads \ {t} : pc'[u] = pc[u] /\ hold'[u] = hold[u]
    PROVE  \E rest \in SUBSET Referred :
              /\ Referred = rest \cup HeldBy(t) \cup Answered
              /\ Referred' = rest \cup HeldBy(t)' \cup Answered'
<1> DEFINE others == UNION {HeldBy(u) : u \in Threads \ {t}}
<1> DEFINE rest == others \cup batch
<1>1. \A u \in Threads \ {t} : HeldBy(u)' = HeldBy(u)
  BY DEF HeldBy
<1>2. others' = others
  BY <1>1
<1>3. Threaded = others \cup HeldBy(t) /\ Threaded' = others' \cup HeldBy(t)'
  BY DEF Threaded
<1> HIDE DEF others
<1>4. /\ Referred = rest \cup HeldBy(t) \cup Answered
      /\ Referred' = rest \cup HeldBy(t)' \cup Answered'
  BY <1>2, <1>3, ReferredParts
<1> HIDE DEF rest
<1>5. QED BY <1>4

-----------------------------------------------------------------------------
(* An object is taken from the free list, which may have to be refilled;   *)
(* when epoll refuses it, it goes back.                                    *)
LEMMA RegisterLives ==
    ASSUME TypeOK, PoolInv, Register \/ RegisterFails
    PROVE  [Life!Next]_<<Status, Referred>>
<1>1. PICK c \in Conns :
         /\ GetConnection(c) /\ recyList' = recyList
         /\ \/ freeList' = Tail(Refilled)
            \/ freeList' = Append(Tail(Refilled), c)
  BY DEF Register, RegisterFails
<1>2. /\ c \in Free \cup Created /\ c \notin Recycling
      /\ \A d \in Created : d \notin Recycling /\ d >= total
      /\ Tail(Refilled) \in Seq(Conns)
      /\ c \notin Elems(Tail(Refilled))
      /\ Elems(Tail(Refilled)) \cup {c} = Free \cup Created
  BY <1>1, GetConnectionFacts DEF PoolInv
<1>3. /\ Created \subseteq Conns
      /\ \A d \in Conns : d < total' <=> (d < total \/ d \in Created)
  <2>1. Created \subseteq Conns
    BY <1>1, RefilledProperties DEF GetConnection
  <2>2. total' = IF freeList = <<>> THEN total + WorkerConnections ELSE total
    BY <1>1 DEF GetConnection
  <2>3. total \in Nat /\ Conns \subseteq Nat
    BY ListedAreConns
  <2>4. QED BY <2>1, <2>2, <2>3 DEF Created
<1>4. Recycling' = Recycling
  BY <1>1 DEF Recycling
<1>5. Free' \in {(Free \cup Created) \ {c}, Free \cup Created}
  <2>1. Elems(Append(Tail(Refilled), c)) = Elems(Tail(Refilled)) \cup {c}
    <3>1. \A s \in Seq(Conns) : Elems(Append(s, c)) = Elems(s) \cup {c}
      BY AppendElems
    <3>2. QED BY <1>2, <3>1
  <2>2. QED BY <1>1, <1>2, <2>1 DEF Free
<1>6. \A d \in Free \cup Recycling : d < total
  BY DEF PoolInv, ListsInv
<1>7. Referred' = Referred
  <2>1. pc[Epoll] = "get" /\ pc' = [pc EXCEPT ![Epoll] = "idle"]
        /\ UNCHANGED <<hold, batch, msgs>>
    BY DEF Register, RegisterFails
  <2>2. \A t \in Threads : HeldBy(t)' = HeldBy(t)
    BY <2>1 DEF HeldBy, TypeOK, ThreadType
  <2>3. QED BY <2>1, <2>2, SameThreads, ReferredParts DEF Answered
<1>8. \A d \in Created : Status[d] = "none"
  BY <1>2, <1>3, ListedAreConns DEF Status, Conns
<1>9. Status[c] = "free" \/ c \in Created
  BY <1>2, <1>6, ListedAreConns DEF Status
<1>10. total' \in Nat /\ \A d \in Conns : d >= total' <=> ~(d < total')
  BY <1>1, ListedAreConns, GetConnectionType DEF GetConnection
<1>11. CASE Free' = (Free \cup Created) \ {c}
  <2>1. Status' = [d \in Conns |-> IF d = c THEN "used"
                                   ELSE IF d \in Created THEN "free" ELSE Status[d]]
    <3>1. \A d \in Conns : Status'[d] = IF d = c THEN "used"
                                          ELSE IF d \in Created THEN "free" ELSE Status[d]
      BY <1>2, <1>3, <1>4, <1>6, <1>11, <1>10, ListedAreConns DEF Status
    <3>2. QED BY <3>1, StatusFunction
  <2>2. Life!Open(Created, c)
    BY <1>7, <1>8, <1>9, <2>1 DEF Life!Open
  <2>3. QED BY <1>3, <2>2 DEF Life!Next
<1>12. CASE Free' = Free \cup Created
  <2>1. Status' = [d \in Conns |-> IF d \in Created THEN "free" ELSE Status[d]]
    <3>1. \A d \in Conns : Status'[d] = IF d \in Created THEN "free" ELSE Status[d]
      BY <1>2, <1>3, <1>4, <1>6, <1>12, <1>10, ListedAreConns DEF Status
    <3>2. QED BY <3>1, StatusFunction
  <2>2. Life!Create(Created)
    BY <1>7, <1>8, <2>1 DEF Life!Create
  <2>3. QED BY <1>3, <2>2 DEF Life!Next
<1>13. QED BY <1>5, <1>11, <1>12

(* The epoll thread's batch: events are found, and handled one by one.     *)
LEMMA EventsLive ==
    ASSUME TypeOK, PoolInv,
           EpollWait \/ \E c \in batch : EventIgnored(c) \/ EventData(c) \/ EventClose(c)
    PROVE  [Life!Next]_<<Status, Referred>>
<1>0. UNCHANGED <<total, freeList, recyList>>
  BY DEF EpollWait, EventIgnored, EventData, EventClose, pool
<1>1. CASE EpollWait
  <2>1. /\ batch = {} /\ UNCHANGED <<pc, hold, msgs>>
        /\ batch' \subseteq {interest[f] : f \in {g \in Fds : interest[g] # NoConn}}
    BY <1>1 DEF EpollWait, threads
  <2>2. batch' \in SUBSET Conns /\ \A c \in batch' : c < total /\ c \notin Free
    BY <2>1 DEF PoolInv, FdInv, TypeOK, KernelType
  <2>3. Referred' = Referred \cup batch'
    <3>1. \A t \in Threads : HeldBy(t)' = HeldBy(t)
      BY <2>1 DEF HeldBy
    <3>2. QED BY <2>1, <3>1, SameThreads, ReferredParts DEF Answered
  <2>4. QED BY <1>0, <2>2, <2>3, Gains
<1>2. ASSUME NEW c \in batch, EventIgnored(c) \/ EventData(c)
      PROVE  [Life!Next]_<<Status, Referred>>
  <2>1. batch' = batch \ {c} /\ UNCHANGED <<pc, hold>> /\ Answered' = Answered
    BY <1>2 DEF EventIgnored, EventData, threads, Answered
  <2>2. \A t \in Threads : HeldBy(t)' = HeldBy(t)
    BY <2>1 DEF HeldBy
  <2>3. Referred' \subseteq Referred /\ Referred \ {c} \subseteq Referred'
    BY <2>1, <2>2, SameThreads, ReferredParts
  <2>4. c \in Conns
    BY DEF TypeOK, LoopType
  <2>5. QED BY <1>0, <2>3, <2>4, Loses
<1>3. ASSUME NEW c \in batch, EventClose(c)
      PROVE  [Life!Next]_<<Status, Referred>>
  <2>1. /\ pc[Epoll] = "idle" /\ batch' = batch \ {c} /\ msgs' = msgs
        /\ pc' = [pc EXCEPT ![Epoll] = "check"] /\ hold' = [hold EXCEPT ![Epoll] = c]
    BY <1>3 DEF EventClose, Lease
  <2>2. Epoll \in Threads /\ DOMAIN pc = Threads /\ DOMAIN hold = Threads
    BY DEF TypeOK, ThreadType, Threads
  <2>3. HeldBy(Epoll) = {} /\ HeldBy(Epoll)' = {c}
    BY <2>1, <2>2 DEF HeldBy
  <2>4. \A t \in Threads \ {Epoll} : HeldBy(t)' = HeldBy(t)
    BY <2>1, <2>2 DEF HeldBy
  <2>5. Answered' = Answered /\ Threaded' = Threaded \cup {c}
    BY <2>1, <2>2, <2>3, <2>4 DEF Answered, Threaded
  <2>6. Referred' = Referred
    BY <2>1, <2>5, ReferredParts
  <2>7. QED BY <1>0, <2>6, SameLists
<1>4. QED BY <1>1, <1>2, <1>3

(* A thread takes a header, works, answers, and is done.                   *)
LEMMA ThreadsLive ==
    ASSUME TypeOK, PoolInv, NEW t \in Threads, MessageStep(t) \/ WorkStep(t)
    PROVE  [Life!Next]_<<Status, Referred>>
<1>0. /\ UNCHANGED <<total, freeList, recyList, batch>>
      /\ \A u \in Threads \ {t} : pc'[u] = pc[u] /\ hold'[u] = hold[u]
      /\ pc \in [Threads -> {"idle", "get", "work", "reset", "send", "check", "close", "clear",
                             "retire"}]
      /\ DOMAIN hold = Threads
  BY DEF MessageStep, DropStale, TakeRequest, TakeResponse, WorkStep, Respond, Finish,
     StartClose, Release, Lease, pool, loop, threads, TypeOK, ThreadType
<1>1. PICK rest \in SUBSET Referred :
         /\ Referred = rest \cup HeldBy(t) \cup Answered
         /\ Referred' = rest \cup HeldBy(t)' \cup Answered'
  BY <1>0, OneThread
<1>2. ASSUME NEW m \in msgs, DropStale(t, m)
      PROVE  [Life!Next]_<<Status, Referred>>
  <2>1. m.conn \in Conns /\ Answered \ {m.conn} \subseteq Answered' /\ Answered' \subseteq Answered
    BY <1>2 DEF DropStale, Answered, TypeOK, Message
  <2>2. HeldBy(t)' = HeldBy(t)
    BY <1>2 DEF DropStale, threads, HeldBy
  <2>3. Referred' \subseteq Referred /\ Referred \ {m.conn} \subseteq Referred'
    BY <1>1, <2>1, <2>2
  <2>4. QED BY <1>0, <2>1, <2>3, Loses
<1>3. ASSUME NEW m \in msgs, TakeRequest(t, m)
      PROVE  [Life!Next]_<<Status, Referred>>
  <2>1. /\ pc[t] = "idle" /\ msgs' = msgs \ {m} /\ m.kind = "req" /\ m.seq = seqNo[m.conn]
        /\ pc' = [pc EXCEPT ![t] = "work"] /\ hold' = [hold EXCEPT ![t] = m.conn]
    BY <1>3 DEF TakeRequest, Lease, Fresh
  <2>2. Answered' = Answered
    BY <2>1 DEF Answered
  <2>3. HeldBy(t) = {} /\ HeldBy(t)' = {m.conn}
    BY <1>0, <2>1 DEF HeldBy
  <2>4. Referred' = Referred \cup {m.conn}
    BY <1>1, <2>2, <2>3
  <2>5. m.conn \in Conns /\ m.conn < total /\ m.conn \notin Free
    BY <2>1 DEF PoolInv, RefsInv, RequestRefs, TypeOK, Message
  <2>6. {m.conn} \in SUBSET Conns /\ \A c \in {m.conn} : c < total /\ c \notin Free
    BY <2>5
  <2>7. QED BY <1>0, <2>4, <2>6, Gains
<1>4. ASSUME NEW m \in msgs, TakeResponse(t, m)
      PROVE  [Life!Next]_<<Status, Referred>>
  <2>1. /\ pc[t] = "idle" /\ msgs' = msgs \ {m} /\ m.kind = "resp"
        /\ pc' = [pc EXCEPT ![t] = "send"] /\ hold' = [hold EXCEPT ![t] = m.conn]
    BY <1>4 DEF TakeResponse, Lease
  <2>2. Answered' \cup {m.conn} = Answered
    BY <2>1 DEF Answered
  <2>3. HeldBy(t) = {} /\ HeldBy(t)' = {m.conn}
    BY <1>0, <2>1 DEF HeldBy
  <2>4. Referred' = Referred
    BY <1>1, <2>2, <2>3
  <2>5. QED BY <1>0, <2>4, SameLists
<1>5. CASE Respond(t)
  <2> DEFINE r == [kind |-> "resp", conn |-> hold[t], seq |-> seqNo[hold[t]],
                   until |-> clock + Hold, sock |-> serves[t]]
  <2>1. /\ pc[t] = "work" /\ pc' = [pc EXCEPT ![t] = "reset"] /\ hold' = hold
        /\ msgs' = msgs \cup {r} /\ r.kind = "resp" /\ r.conn = hold[t]
    BY <1>5 DEF Respond
  <2> HIDE DEF r
  <2>2. Answered' = Answered \cup {hold[t]}
    BY <2>1 DEF Answered
  <2>3. HeldBy(t) = {hold[t]} /\ HeldBy(t)' = {hold[t]}
    BY <1>0, <2>1 DEF HeldBy
  <2>4. Referred' = Referred
    BY <1>1, <2>2, <2>3
  <2>5. QED BY <1>0, <2>4, SameLists
<1>6. CASE Finish(t)
  <2>1. /\ pc[t] \in {"work", "reset", "send"} /\ pc' = [pc EXCEPT ![t] = "idle"] /\ msgs' = msgs
    BY <1>6 DEF Finish, Release, Lease
  <2>2. Answered' = Answered /\ HeldBy(t) = {hold[t]} /\ HeldBy(t)' = {}
    BY <1>0, <2>1 DEF Answered, HeldBy
  <2>3. Referred' \subseteq Referred /\ Referred \ {hold[t]} \subseteq Referred'
    BY <1>1, <2>2
  <2>4. hold[t] \in Conns
    BY <2>1 DEF TypeOK, ThreadType
  <2>5. QED BY <1>0, <2>3, <2>4, Loses
<1>7. CASE StartClose(t)
  <2>1. /\ pc[t] \in {"work", "send"} /\ pc' = [pc EXCEPT ![t] = "check"]
        /\ UNCHANGED <<msgs, hold>>
    BY <1>7 DEF StartClose
  <2>2. Answered' = Answered /\ HeldBy(t)' = HeldBy(t)
    BY <1>0, <2>1 DEF Answered, HeldBy
  <2>3. QED BY <1>0, <1>1, <2>2, SameLists
<1>8. QED BY <1>2, <1>3, <1>4, <1>5, <1>6, <1>7 DEF MessageStep, WorkStep

(* A thread closes a connection; the object begins to cool.                *)
LEMMA ClosingLives ==
    ASSUME TypeOK, PoolInv, NEW t \in Threads, CloseStep(t)
    PROVE  [Life!Next]_<<Status, Referred>>
<1>0. /\ UNCHANGED <<total, freeList, batch>> /\ Answered' = Answered
      /\ \A u \in Threads \ {t} : pc'[u] = pc[u] /\ hold'[u] = hold[u]
      /\ pc \in [Threads -> {"idle", "get", "work", "reset", "send", "check", "close", "clear",
                             "retire"}]
      /\ DOMAIN hold = Threads
      /\ pc[t] \in {"check", "close", "clear", "retire"}
  BY DEF CloseStep, CheckFd, CloseFd, ClearFd, Retire, Release, Lease, pool, loop, TypeOK,
     ThreadType, Answered
<1>1. PICK rest \in SUBSET Referred :
         /\ Referred = rest \cup HeldBy(t) \cup Answered
         /\ Referred' = rest \cup HeldBy(t)' \cup Answered'
  BY <1>0, OneThread
<1>2. HeldBy(t) = {hold[t]} /\ hold[t] \in Conns
  BY <1>0 DEF HeldBy, TypeOK, ThreadType
<1>3. HeldBy(t)' \in {{}, {hold[t]}}
  <2>1. CASE CheckFd(t) \/ CloseFd(t) \/ ClearFd(t)
    BY <2>1 DEF CheckFd, CloseFd, ClearFd, HeldBy
  <2>2. CASE Retire(t)
    <3>1. \/ hold' = hold
          \/ pc' = [pc EXCEPT ![t] = "idle"]
      BY <2>2 DEF Retire, Release, Lease
    <3>2. QED BY <1>0, <3>1 DEF HeldBy
  <2>3. QED BY <2>1, <2>2 DEF CloseStep
<1>4. CASE recyList' = recyList
  <2>1. Referred' \subseteq Referred /\ Referred \ {hold[t]} \subseteq Referred'
    BY <1>0, <1>1, <1>2, <1>3
  <2>2. QED BY <1>0, <1>2, <1>4, <2>1, Loses
<1>5. CASE Retire(t) /\ hold[t] \notin Recycling
  <2> DEFINE c == hold[t]
  <2>1. recyList' = Append(recyList, c)
    BY <1>5 DEF Retire, Enqueue
  <2>2. c < total /\ c \notin Free
    BY <1>0, <1>2 DEF PoolInv, RefsInv, ThreadRefs, Safe
  <2>3. Free' = Free /\ Recycling' = Recycling \cup {c}
    BY <1>0, <1>2, <2>1, AppendElems DEF Free, Recycling, TypeOK, PoolType
  <2> HIDE DEF c
  <2>4. c \in Conns /\ c \notin Recycling
    BY <1>2, <1>5 DEF c
  <2>5. Status[c] = "used" /\ Status' = [Status EXCEPT ![c] = "cooling"]
    <3>1. \A d \in Conns : Status'[d] = IF d = c THEN "cooling" ELSE Status[d]
      BY <1>0, <2>2, <2>3, <2>4, ListedAreConns DEF Status
    <3>2. Status[c] = "used"
      BY <2>2, <2>4, ListedAreConns DEF Status
    <3>3. QED BY <2>4, <3>1, <3>2, StatusFunction
  <2>6. c \in Referred /\ Referred' \in {Referred, Referred \ {c}}
    <3>1. c \in Referred /\ Referred' \subseteq Referred /\ Referred \ {c} \subseteq Referred'
      BY <1>0, <1>1, <1>2, <1>3 DEF c
    <3>2. QED BY <3>1
  <2>7. Life!Retire(c)
    BY <2>5, <2>6 DEF Life!Retire
  <2>8. QED BY <2>4, <2>7 DEF Life!Next
<1>6. recyList' = recyList \/ (Retire(t) /\ hold[t] \notin Recycling)
  BY DEF CloseStep, CheckFd, CloseFd, ClearFd, Retire, Enqueue, pool
<1>7. QED BY <1>4, <1>5, <1>6

(* The recycler frees an object: its delay is over, and with it every      *)
(* reference there was.                                                    *)
LEMMA SweepLives ==
    ASSUME TypeOK, PoolInv, SweepFree
    PROVE  [Life!Next]_<<Status, Referred>>
<1> DEFINE c == recyList[sweep]
<1>1. /\ sweep \in 1 .. Len(recyList) /\ Expired(c)
      /\ freeList' = Append(freeList, c) /\ recyList' = RemoveAt(recyList, sweep)
      /\ UNCHANGED <<total, pc, hold, msgs, batch>>
  BY SMTT(30) DEF SweepFree, threads, loop, TypeOK, PoolType
<1>2. /\ c \in Conns /\ c \in Recycling /\ c \notin Recycling'
      /\ Recycling = Recycling' \cup {c}
  <2>1. recyList \in Seq(Conns) /\ IsInjective(recyList)
    BY DEF TypeOK, PoolType, PoolInv, ListsInv, OnceInPool
  <2>2. /\ c \in Conns
        /\ Elems(recyList) = Elems(RemoveAt(recyList, sweep)) \cup {c}
        /\ c \notin Elems(RemoveAt(recyList, sweep))
    BY <1>1, <2>1, RemoveAtElems
  <2>3. QED BY <1>1, <2>2 DEF Recycling
<1>3. Free' = Free \cup {c} /\ c \notin Free /\ c < total
  <2>1. freeList \in Seq(Conns)
    BY DEF TypeOK, PoolType
  <2>2. Elems(Append(freeList, c)) = Elems(freeList) \cup {c}
    BY ONLY <1>2, <2>1, AppendElems
  <2>3. c \notin Free /\ c < total
    BY <1>2 DEF PoolInv, ListsInv, OnceInPool
  <2>4. QED BY <1>1, <2>2, <2>3 DEF Free
<1> HIDE DEF c
<1>4. Referred' = Referred
  <2>1. \A t \in Threads : HeldBy(t)' = HeldBy(t)
    BY <1>1 DEF HeldBy
  <2>2. QED BY <1>1, <2>1, SameThreads, ReferredParts DEF Answered
<1>5. Status[c] = "cooling" /\ Status' = [Status EXCEPT ![c] = "free"]
  <2>1. \A d \in Conns : Status'[d] = IF d = c THEN "free" ELSE Status[d]
    BY <1>1, <1>2, <1>3, ListedAreConns DEF Status
  <2>2. Status[c] = "cooling"
    BY <1>2, <1>3, ListedAreConns DEF Status
  <2>3. QED BY <1>2, <2>1, <2>2, StatusFunction
<1>6. c \notin Referred
  <2>1. ASSUME NEW u \in Nat, NEW margin \in Nat, Safe(c, u, margin) PROVE FALSE
    <3>1. /\ inRecyTime[c] + RecyWait <= currtime /\ currtime <= clock
          /\ clock <= u /\ u + margin < inRecyTime[c] + RecyWait
      BY <1>1, <1>2, <2>1 DEF Expired, PoolInv, ListsInv, Safe
    <3>2. /\ inRecyTime[c] \in Nat /\ RecyWait \in Nat /\ currtime \in Nat /\ clock \in Nat
      BY <1>2 DEF TypeOK, PoolType, TimeType
    <3>3. QED BY ONLY <3>1, <3>2, u \in Nat, margin \in Nat
  <2>2. ASSUME NEW t \in Threads, c \in HeldBy(t) PROVE FALSE
    <3>1. Busy(t) /\ Safe(c, until[t], Margin(t))
      BY <2>2 DEF HeldBy, PoolInv, RefsInv, ThreadRefs
    <3>2. until[t] \in Nat /\ Margin(t) \in Nat
      BY DEF TypeOK, ThreadType, Margin
    <3>3. QED BY <2>1, <3>1, <3>2
  <2>3. c \notin Answered
    <3>1. SUFFICES ASSUME NEW m \in msgs, m.kind = "resp", m.conn = c PROVE FALSE
      BY DEF Answered
    <3>2. Safe(c, m.until, 0) /\ m.until \in Nat
      BY <3>1 DEF PoolInv, RefsInv, ResponseRefs, TypeOK, Message
    <3>3. QED BY <2>1, <3>2
  <2>4. c \notin batch
    BY <2>1 DEF PoolInv, RefsInv, BatchRefs, TypeOK, LoopType
  <2>5. c \notin Threaded
    BY <2>2 DEF Threaded
  <2>6. QED BY <2>3, <2>4, <2>5, ReferredParts
<1>7. Life!Recycle(c)
  BY <1>4, <1>5, <1>6 DEF Life!Recycle
<1>8. QED BY <1>2, <1>7 DEF Life!Next

(* Nothing that ConnLife speaks of changes.                                *)
LEMMA OthersStutter ==
    ASSUME TypeOK,
           \/ AcceptRefused \/ Accept \/ SweepStart \/ SweepSkip \/ SweepEnd \/ Tick
           \/ UNCHANGED vars
    PROVE  [Life!Next]_<<Status, Referred>>
<1>1. /\ UNCHANGED <<total, freeList, recyList, hold, batch, msgs>>
      /\ \/ pc' = pc
         \/ pc[Epoll] = "idle" /\ pc' = [pc EXCEPT ![Epoll] = "get"]
  BY DEF AcceptRefused, Accept, CanAccept, SweepStart, SweepSkip, SweepEnd, Tick, vars,
     pool, threads, loop
<1>2. \A t \in Threads : HeldBy(t)' = HeldBy(t)
  BY <1>1 DEF HeldBy, TypeOK, ThreadType
<1>3. Referred' = Referred
  BY <1>1, <1>2, SameThreads, ReferredParts DEF Answered
<1>4. QED BY <1>1, <1>3, SameLists

-----------------------------------------------------------------------------
(* The connection pool, whatever its threads and clients do, takes each    *)
(* object through the life that ConnLife states.                           *)
THEOREM PoolImplementsLife == Spec => ImplementsLife
<1>1. Init => Life!Init
  <2> SUFFICES ASSUME Init PROVE Life!Init
    OBVIOUS
  <2>1. /\ freeList = [i \in 1 .. WorkerConnections - 1 |-> i] /\ recyList = <<>>
        /\ pc = [t \in Threads |-> "idle"] /\ msgs = {} /\ batch = {}
    BY DEF Init
  <2>2. Recycling = {}
    BY <2>1 DEF Recycling, Elems
  <2>3. Status \in [Conns -> {"none", "free", "used"}]
    BY <2>2 DEF Status
  <2>4. Referred = {}
    BY <2>1 DEF Referred
  <2>5. QED BY <2>3, <2>4 DEF Life!Init
<1>2. TypeOK /\ PoolInv /\ [Next]_vars => [Life!Next]_<<Status, Referred>>
  BY RegisterLives, EventsLive, ThreadsLive, ClosingLives, SweepLives, OthersStutter
  DEF Next, EpollStep, Recycle
<1>3. QED BY <1>1, <1>2, TypeCorrect, PoolInvariant, PTL DEF Spec, ImplementsLife, Life!Spec
=============================================================================
