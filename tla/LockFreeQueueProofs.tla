------------------------- MODULE LockFreeQueueProofs ------------------------
(***************************************************************************)
(* The lock-free queue of LockFreeQueue implements Fifo for every number   *)
(* of threads, nodes and messages, until a deleted node is touched or its  *)
(* address comes back while something still points there.                  *)
(***************************************************************************)
EXTENDS LockFreeQueue, FiniteSetTheorems, SequenceTheorems, WellFoundedInduction, TLAPS

(* s is the list from the dummy on.                                        *)
Linked(s) ==
    /\ s \in Seq(Nodes) /\ Len(s) > 0 /\ head = s[1]
    /\ \A i, j \in 1 .. Len(s) : s[i] = s[j] => i = j
    /\ \A i \in 1 .. Len(s) - 1 : next[s[i]] = s[i + 1]
    /\ next[s[Len(s)]] = Null

(* The numbers up to n are n.                                              *)
LEMMA CountTo == ASSUME NEW n \in Nat PROVE Cardinality(1 .. n) = n
BY FS_Interval

(* The list has at most one place for each node.                           *)
LEMMA Bound ==
    ASSUME NEW s, Linked(s)
    PROVE  Len(s) <= Length /\ Length \in Nat
<1>1. s \in [1 .. Len(s) -> Nodes] /\ Len(s) \in Nat
  BY DEF Linked
<1>2. s \in Injection(1 .. Len(s), Nodes)
  BY <1>1 DEF Linked, Injection, IsInjective
<1>3. IsFiniteSet(Nodes)
  BY QueueAssumption DEF QueueAssumption
<1>4. Cardinality(1 .. Len(s)) = Len(s)
  BY <1>1, CountTo
<1> QED BY <1>2, <1>3, <1>4, FS_Injection, FS_CardinalityType DEF Length

(* Every set of numbers that is not empty has a least one.                 *)
LEMMA SmallestExists ==
    ASSUME NEW S, S \subseteq Nat, S # {}
    PROVE  \E x \in S : \A y \in S : x <= y
<1>1. \E x \in S : \A y \in S : ~ (<<y, x>> \in OpToRel(<, Nat))
  BY NatLessThanWellFounded, WFMin
<1>2. PICK x \in S : \A y \in S : ~ (<<y, x>> \in OpToRel(<, Nat))
  BY <1>1
<1>3. \A y \in S : ~ (y < x)
  BY <1>2 DEF OpToRel
<1>4. \A y \in S : x <= y
  BY <1>3
<1> QED BY <1>4

(* What holds at 0 and goes on from each number to the next holds of all:  *)
(* there is no least exception.                                            *)
LEMMA UpFrom0 ==
    ASSUME NEW n \in Nat, NEW S, 0 \in S, \A i \in 1 .. n : i - 1 \in S => i \in S
    PROVE  0 .. n \subseteq S
<1> DEFINE T == (0 .. n) \ S
<1> SUFFICES ASSUME T # {} PROVE FALSE
  OBVIOUS
<1>1. T \subseteq Nat /\ T \subseteq 0 .. n
  OBVIOUS
<1>2. PICK x \in T : \A y \in T : x <= y
  <2> HIDE DEF T
  <2> QED BY <1>1, SmallestExists
<1>3. x \in 1 .. n /\ x \notin S
  BY <1>1
<1>4. x - 1 \in S
  BY <1>2, <1>3
<1> QED BY <1>3, <1>4

(* The walk of Chain from head goes along s and stays at Null behind it.   *)
LEMMA ChainIs ==
    ASSUME NEW s, Linked(s), Null \notin Nodes
    PROVE  Chain = [i \in 1 .. Len(s) - 1 |-> s[1 + i]]
<1> DEFINE step(f) == [i \in 0 .. Length |->
                IF i = 0 THEN head ELSE IF f[i - 1] = Null THEN Null ELSE next[f[i - 1]]]
           at == CHOOSE f : f = step(f)
           w == [i \in 0 .. Length |-> IF 1 + i <= Len(s) THEN s[1 + i] ELSE Null]
           last == Cardinality({i \in 1 .. Length : at[i] # Null})
<1>1. Chain = [i \in 1 .. last |-> at[i]]
  BY DEF Chain
<1>2. /\ Len(s) <= Length /\ Length \in Nat /\ Len(s) \in Nat /\ 1 \in 1 .. Len(s)
      /\ \A i \in 1 .. Len(s) : s[i] \in Nodes
  <2>1. Len(s) <= Length /\ Length \in Nat
    BY Bound
  <2>2. s \in Seq(Nodes) /\ 1 \in 1 .. Len(s)
    BY DEF Linked
  <2> QED BY ONLY <2>1, <2>2
<1>3. w = step(w)
  <2>1. w[0] = head
    BY <1>2 DEF Linked
  <2>2. ASSUME NEW i \in 1 .. Length
        PROVE  w[i] = IF w[i - 1] = Null THEN Null ELSE next[w[i - 1]]
    <3>1. i - 1 \in 0 .. Length /\ i \in 0 .. Length
      BY <1>2
    <3>2. CASE 1 + i <= Len(s)
      <4>1. PICK k \in 1 .. Len(s) - 1 : k = 1 + (i - 1) /\ k + 1 = 1 + i
        BY <1>2, <3>2
      <4>2. w[i - 1] = s[k] /\ w[i] = s[k + 1] /\ s[k] \in Nodes
        BY <1>2, <3>1, <3>2, <4>1
      <4>3. next[s[k]] = s[k + 1]
        BY DEF Linked
      <4> HIDE DEF w
      <4> QED BY <4>2, <4>3
    <3>3. CASE 1 + i = Len(s) + 1
      <4>1. w[i - 1] = s[Len(s)] /\ w[i] = Null
        BY <1>2, <3>1, <3>3
      <4> QED BY <1>2, <4>1 DEF Linked
    <3>4. CASE 1 + i > Len(s) + 1
      BY <1>2, <3>1, <3>4
    <3>5. 1 + i <= Len(s) \/ 1 + i = Len(s) + 1 \/ 1 + i > Len(s) + 1
      BY ONLY <1>2, <3>1
    <3> HIDE DEF w
    <3> QED BY ONLY <3>2, <3>3, <3>4, <3>5, Zenon
  <2> HIDE DEF w
  <2>3. w = [i \in 0 .. Length |-> w[i]]
    BY DEF w
  <2>4. w = [i \in 0 .. Length |->
                IF i = 0 THEN head ELSE IF w[i - 1] = Null THEN Null ELSE next[w[i - 1]]]
    <3>1. \A i \in 0 .. Length : i = 0 \/ i \in 1 .. Length
      BY <1>2
    <3> QED BY ONLY <2>1, <2>2, <2>3, <3>1
  <2> QED BY <2>4
<1>4. at = step(at)
  <2> HIDE DEF w, step
  <2> QED BY <1>3
<1>5. \A i \in 0 .. Length : at[i] = w[i]
  <2> HIDE DEF at, w
  <2>1. at[0] = w[0]
    BY <1>2, <1>3, <1>4
  <2>2. ASSUME NEW i \in 1 .. Length, at[i - 1] = w[i - 1] PROVE at[i] = w[i]
    <3>1. i \in 0 .. Length /\ i # 0
      BY <1>2
    <3>2. ASSUME NEW f, f = step(f)
          PROVE  f[i] = IF f[i - 1] = Null THEN Null ELSE next[f[i - 1]]
      BY ONLY <3>1, <3>2
    <3> HIDE DEF step
    <3>3. at[i] = IF at[i - 1] = Null THEN Null ELSE next[at[i - 1]]
      BY ONLY <1>4, <3>2
    <3>4. w[i] = IF w[i - 1] = Null THEN Null ELSE next[w[i - 1]]
      BY ONLY <1>3, <3>2
    <3> QED BY ONLY <2>2, <3>3, <3>4
  <2> DEFINE Same == {i \in 0 .. Length : at[i] = w[i]}
  <2>3. 0 \in Same /\ \A i \in 1 .. Length : i - 1 \in Same => i \in Same
    BY <1>2, <2>1, <2>2
  <2>4. 0 .. Length \subseteq Same
    <3> HIDE DEF Same
    <3> QED BY <1>2, <2>3, UpFrom0
  <2> QED BY <2>4
<1>6. {i \in 1 .. Length : at[i] # Null} = 1 .. Len(s) - 1
  <2>1. ASSUME NEW i \in 1 .. Length
        PROVE  w[i] # Null <=> i \in 1 .. Len(s) - 1
    <3>1. i \in 0 .. Length /\ (1 + i <= Len(s) => s[1 + i] \in Nodes)
      BY <1>2
    <3> QED BY <1>2, <3>1
  <2>2. 1 .. Len(s) - 1 \subseteq 1 .. Length /\ 1 .. Length \subseteq 0 .. Length
    BY <1>2
  <2> HIDE DEF at, w
  <2> QED BY <1>5, <2>1, <2>2
<1>7. last = Len(s) - 1
  <2>1. Len(s) - 1 \in Nat
    BY <1>2
  <2> HIDE DEF at
  <2> QED BY <1>6, <2>1, CountTo
<1>8. \A i \in 1 .. Len(s) - 1 : at[i] = s[1 + i]
  <2> HIDE DEF at
  <2> QED BY <1>2, <1>5
<1> HIDE DEF at, last
<1> QED BY <1>1, <1>7, <1>8

-----------------------------------------------------------------------------
(* Node n is in the list, or in B: behind its head, and not yet returned   *)
(* by new again.                                                           *)
On(s, B, n) == n \in B \/ \E i \in 1 .. Len(s) : s[i] = n

(* What is linked is allocated and, but for the dummy, has a message.      *)
(* Behind a node of B that has not been deleted comes another node.        *)
ListAt(s, B) ==
    /\ Linked(s) /\ On(s, B, tail) /\ B \subseteq Nodes
    /\ \A i \in 1 .. Len(s) : s[i] \in live /\ s[i] \notin B
                             /\ (i > 1 => data[s[i]] \in Messages)
    /\ \A n \in B : next[n] # Null /\ (n \in live => On(s, B, next[n]))

(* A producer has a node of its own until it has linked it, looks at a     *)
(* node of the list, and swings the tail to one.                           *)
Linking(p) == pc[p] \in {"tail", "next", "check", "link", "help"}
ProducerAt(s, B, p) ==
    /\ Linking(p) => /\ new[p] \in live /\ ~On(s, B, new[p])
                     /\ next[new[p]] = Null /\ data[new[p]] \in Messages
    /\ pc[p] \in {"size", "store"} => On(s, B, new[p])
    /\ pc[p] \in {"next", "check", "link", "help"} => On(s, B, ptr[p])
    /\ pc[p] = "check" => nxt[p] = Null \/ On(s, B, nxt[p])
    /\ pc[p] = "help" => On(s, B, nxt[p])

(* What a consumer has read behind its old head is still behind it, and    *)
(* the message it has copied is that node's.                               *)
ConsumerAt(s, B, c) ==
    /\ pc[c] \in {"last", "next", "check", "help", "copy", "move"} => On(s, B, ptr[c])
    /\ pc[c] \in {"check", "help", "copy", "move"} =>
          nxt[c] = Null \/ (On(s, B, nxt[c]) /\ next[ptr[c]] = nxt[c])
    /\ pc[c] \in {"help", "move"} => nxt[c] # Null
    /\ pc[c] = "move" => msg[c] = data[nxt[c]]
    /\ pc[c] = "delete" => ptr[c] \in B

(* Together, and no two producers are about to link the same node.         *)
FifoAt(s, B) ==
    /\ ListAt(s, B)
    /\ \A p \in Producers : ProducerAt(s, B, p)
    /\ \A p, q \in Producers : Linking(p) /\ Linking(q) /\ new[p] = new[q] => p = q
    /\ \A c \in Consumers : ConsumerAt(s, B, c)

(* The inductive invariant: there is such a list, and there are such nodes *)
(* behind it.                                                              *)
FifoInv == reborn \/ (TypeOK /\ \E s \in Seq(Nodes), B \in SUBSET Nodes : FifoAt(s, B))

-----------------------------------------------------------------------------
(* What the program counter may be.                                        *)
Points == {"idle", "tail", "last", "next", "check", "link", "help", "copy", "move", "delete",
           "size", "store"}

(* What is assumed of the constants.                                       *)
LEMMA QueueConstants ==
    /\ Null \notin Nodes /\ Producers \cap Consumers = {} /\ MaxMessages \in Nat
    /\ Threads = Producers \cup Consumers
BY QueueAssumption DEF QueueAssumption, Threads

(* The initial state is well typed.                                        *)
LEMMA InitType == Init => TypeOK
<1> SUFFICES ASSUME NEW dummy \in Nodes,
        /\ head = dummy /\ tail = dummy /\ size = 0
        /\ data = [n \in Nodes |-> NoMessage] /\ next = [n \in Nodes |-> Null]
        /\ live = {dummy}
        /\ pc = [t \in Threads |-> "idle"]
        /\ ptr = [t \in Threads |-> Null] /\ nxt = [t \in Threads |-> Null]
        /\ other = [c \in Consumers |-> Null]
        /\ new = [p \in Producers |-> Null]
        /\ msg = [c \in Consumers |-> NoMessage]
        /\ sent = [p \in Producers |-> 0] /\ got = [c \in Consumers |-> <<>>]
        /\ ub = FALSE /\ reborn = FALSE
      PROVE TypeOK
  BY DEF Init
<1>1. got \in [Consumers -> Seq(Messages)]
  OBVIOUS
<1>2. pc \in [Threads -> Points] /\ head \in Nodes /\ tail \in Nodes /\ size \in Int
  BY DEF Points
<1>3. data \in [Nodes -> Messages \cup {NoMessage}] /\ next \in [Nodes -> Nodes \cup {Null}]
  OBVIOUS
<1>4. live \subseteq Nodes /\ ub \in BOOLEAN /\ reborn \in BOOLEAN
  OBVIOUS
<1>5. /\ ptr \in [Threads -> Nodes \cup {Null}] /\ nxt \in [Threads -> Nodes \cup {Null}]
      /\ other \in [Consumers -> Nodes \cup {Null}] /\ new \in [Producers -> Nodes \cup {Null}]
      /\ msg \in [Consumers -> Messages \cup {NoMessage}]
  OBVIOUS
<1>6. sent \in [Producers -> 0 .. MaxMessages]
  BY QueueConstants
<1> QED BY <1>1, <1>2, <1>3, <1>4, <1>5, <1>6 DEF TypeOK, Points

(* What comes behind a node of the list, or one that has been there and    *)
(* has not been deleted, has been linked.                                  *)
LEMMA Behind ==
    ASSUME NEW s, NEW B, ListAt(s, B), NEW a \in live, On(s, B, a), next[a] # Null
    PROVE  On(s, B, next[a])
<1>1. CASE a \in B
  BY <1>1 DEF ListAt
<1>2. ASSUME NEW i \in 1 .. Len(s), s[i] = a PROVE On(s, B, next[a])
  <2>1. i \in 1 .. Len(s) - 1 /\ i + 1 \in 1 .. Len(s)
    BY <1>2 DEF ListAt, Linked
  <2> QED BY <1>2, <2>1 DEF ListAt, Linked, On
<1> QED BY <1>1, <1>2 DEF On

(* Behind the dummy comes the first message.                               *)
LEMMA BehindHead ==
    ASSUME NEW s, NEW B, ListAt(s, B), next[head] # Null
    PROVE  /\ Len(s) \in Nat /\ Len(s) > 1 /\ 2 \in 1 .. Len(s) /\ next[head] = s[2]
           /\ s[2] \in Nodes /\ data[s[2]] \in Messages
<1>1. Len(s) \in Nat /\ Len(s) > 0 /\ head = s[1] /\ s \in Seq(Nodes)
  BY DEF ListAt, Linked
<1>2. Len(s) # 1
  BY <1>1 DEF ListAt, Linked
<1>3. Len(s) > 1 /\ 1 \in 1 .. Len(s) - 1 /\ 2 \in 1 .. Len(s) /\ 1 + 1 = 2 /\ 2 > 1
  <2>1. PICK n \in Nat : n = Len(s)
    BY <1>1
  <2>2. n > 1 /\ 1 \in 1 .. n - 1 /\ 2 \in 1 .. n /\ 1 + 1 = 2 /\ 2 > 1
    BY ONLY <1>1, <1>2, <2>1
  <2> QED BY ONLY <2>1, <2>2
<1> QED BY <1>1, <1>3 DEF ListAt, Linked

(* Each step keeps the types; MoveHead gives out a message and not the     *)
(* dummy's lack of one.                                                    *)
LEMMA NextType ==
    ASSUME TypeOK, ~reborn, [Next]_vars, NEW s, NEW B, FifoAt(s, B)
    PROVE  TypeOK'
<1>0. \A n : On(s, B, n) => n \in Nodes
  BY DEF FifoAt, ListAt, Linked, On
<1> USE QueueConstants DEF TypeOK, list, locals, Goto, Touches
<1>1. CASE UNCHANGED vars
  BY <1>1 DEF vars
<1>2. ASSUME NEW p \in Producers, NewNode(p) PROVE TypeOK'
  <2>1. PICK n \in Nodes :
          /\ live' = live \cup {n} /\ reborn' = (reborn \/ ReferredTo(n))
          /\ data' = [data EXCEPT ![n] = <<p, sent[p] + 1>>]
          /\ next' = [next EXCEPT ![n] = Null]
          /\ new' = [new EXCEPT ![p] = n]
    BY <1>2 DEF NewNode
  <2>2. sent[p] \in 0 .. MaxMessages /\ sent[p] < MaxMessages
    BY <1>2 DEF NewNode
  <2>3. sent[p] + 1 \in 1 .. MaxMessages /\ sent[p] + 1 \in 0 .. MaxMessages
    BY <2>2
  <2>4. <<p, sent[p] + 1>> \in Messages
    BY <2>3 DEF Messages
  <2>5. data' \in [Nodes -> Messages \cup {NoMessage}]
    BY <2>1, <2>4
  <2>6. sent' \in [Producers -> 0 .. MaxMessages]
    BY <1>2, <2>3 DEF NewNode
  <2>7. live' \subseteq Nodes /\ next' \in [Nodes -> Nodes \cup {Null}]
        /\ new' \in [Producers -> Nodes \cup {Null}]
    BY <2>1
  <2>8. pc' \in [Threads -> Points]
    BY <1>2 DEF NewNode, Points
  <2>9. reborn' \in BOOLEAN
    BY <2>1
  <2> QED BY <1>2, <2>5, <2>6, <2>7, <2>8, <2>9 DEF NewNode, Points
<1>3. ASSUME NEW p \in Producers, Enqueue(p) PROVE TypeOK'
  <2>1. CASE ReadTail(p)
    BY <2>1 DEF ReadTail
  <2>2. CASE ReadNext(p)
    BY <2>2 DEF ReadNext
  <2>3. CASE CheckTail(p)
    BY <2>3 DEF CheckTail
  <2>4. CASE LinkFails(p)
    BY <2>4 DEF LinkFails
  <2>5. CASE CountUp(p)
    BY <2>5 DEF CountUp
  <2>6. CASE StoreTail(p)
    <3>1. new[p] \in Nodes
      BY <1>0, <2>6 DEF StoreTail, FifoAt, ProducerAt
    <3> QED BY <2>6, <3>1 DEF StoreTail
  <2>7. CASE HelpEnqueue(p)
    <3>1. nxt[p] \in Nodes
      BY <1>0, <2>7 DEF HelpEnqueue, Swing, FifoAt, ProducerAt
    <3> QED BY <2>7, <3>1 DEF HelpEnqueue, Swing
  <2>8. CASE Link(p)
    BY <2>8 DEF Link
  <2> QED BY <1>3, <2>1, <2>2, <2>3, <2>4, <2>5, <2>6, <2>7, <2>8 DEF Enqueue
<1>4. ASSUME NEW c \in Consumers, TryDequeue(c) PROVE TypeOK'
  <2>1. CASE ReadHead(c)
    BY <2>1 DEF ReadHead
  <2>2. CASE ReadLast(c)
    BY <2>2 DEF ReadLast
  <2>3. CASE ReadNext(c)
    BY <2>3 DEF ReadNext
  <2>4. CASE CheckHead(c)
    BY <2>4 DEF CheckHead
  <2>5. CASE HelpDequeue(c)
    <3>1. nxt[c] \in Nodes
      BY <1>0, <2>5 DEF HelpDequeue, Swing, FifoAt, ConsumerAt
    <3> QED BY <2>5, <3>1 DEF HelpDequeue, Swing
  <2>6. CASE Copy(c)
    BY <2>6 DEF Copy
  <2>7. CASE MoveFails(c)
    BY <2>7 DEF MoveFails
  <2>8. CASE Delete(c)
    BY <2>8 DEF Delete
  <2>9. CASE CountDown(c)
    BY <2>9 DEF CountDown
  <2>10. CASE MoveHead(c)
    <3>1. next[head] = nxt[c] /\ nxt[c] # Null /\ msg[c] = data[nxt[c]]
      BY <2>10 DEF MoveHead, FifoAt, ConsumerAt
    <3>2. nxt[c] \in Nodes /\ msg[c] \in Messages
      BY <3>1, BehindHead DEF FifoAt
    <3>3. got' \in [Consumers -> Seq(Messages)]
      BY <2>10, <3>2 DEF MoveHead
    <3> QED BY <2>10, <3>2, <3>3 DEF MoveHead
  <2> QED
    BY <1>4, <2>1, <2>2, <2>3, <2>4, <2>5, <2>6, <2>7, <2>8, <2>9, <2>10 DEF TryDequeue
<1>5. ASSUME NEW t \in Threads, Crash(t) PROVE TypeOK'
  BY <1>5 DEF Crash
<1> QED BY <1>1, <1>2, <1>3, <1>4, <1>5 DEF Next

-----------------------------------------------------------------------------
(* A step of one thread that links nothing, moves no head and deletes only *)
(* behind the list: it is what it was, and so is what others know of it.   *)
LEMMA ThreadStep ==
    ASSUME TypeOK, NEW s, NEW B, FifoAt(s, B), NEW t \in Threads, NEW to,
           UNCHANGED <<head, data, next>>, live' \subseteq live, live \ live' \subseteq B,
           On(s, B, tail'),
           pc' = [pc EXCEPT ![t] = to],
           \A u \in Threads \ {t} : ptr'[u] = ptr[u] /\ nxt'[u] = nxt[u],
           new' = new, \A c \in Consumers \ {t} : msg'[c] = msg[c],
           t \in Producers => ProducerAt(s, B, t)' /\ (Linking(t)' => Linking(t)),
           t \in Consumers => ConsumerAt(s, B, t)'
    PROVE  FifoAt(s, B)'
<1>1. pc'[t] = to /\ \A u \in Threads \ {t} : pc'[u] = pc[u]
  BY DEF TypeOK
<1>2. ListAt(s, B)'
  BY DEF FifoAt, ListAt, Linked, On
<1>3. ASSUME NEW p \in Producers PROVE ProducerAt(s, B, p)' /\ (Linking(p)' => Linking(p))
  <2>1. CASE p = t
    BY <2>1
  <2>2. CASE p # t
    <3>1. pc'[p] = pc[p] /\ ptr'[p] = ptr[p] /\ nxt'[p] = nxt[p] /\ new'[p] = new[p]
      BY <1>1, <2>2, QueueConstants
    <3> QED BY <3>1 DEF FifoAt, ProducerAt, Linking, On
  <2> QED BY <2>1, <2>2
<1>4. ASSUME NEW c \in Consumers PROVE ConsumerAt(s, B, c)'
  <2>1. CASE c = t
    BY <2>1
  <2>2. CASE c # t
    <3>1. pc'[c] = pc[c] /\ ptr'[c] = ptr[c] /\ nxt'[c] = nxt[c] /\ msg'[c] = msg[c]
      BY <1>1, <2>2, QueueConstants
    <3> QED BY <3>1 DEF FifoAt, ConsumerAt, On
  <2> QED BY <2>1, <2>2
<1> QED BY <1>2, <1>3, <1>4 DEF FifoAt

(* Enqueue changes the list only where it links.                           *)
LEMMA EnqueueStays ==
    ASSUME TypeOK, NEW s, NEW B, FifoAt(s, B), NEW p \in Producers, Enqueue(p), ~Link(p)
    PROVE  FifoAt(s, B)' /\ UNCHANGED <<head, data, next, got>>
<1> USE QueueConstants DEF list, locals, Goto, Touches
<1>0. ProducerAt(s, B, p) /\ On(s, B, tail) /\ p \in Threads /\ p \notin Consumers
  BY DEF FifoAt, ListAt
<1> DEFINE Frame(to) == /\ UNCHANGED <<head, data, next, live, new, msg, got>>
                        /\ pc' = [pc EXCEPT ![p] = to] /\ pc'[p] = to
                        /\ \A u \in Threads \ {p} : ptr'[u] = ptr[u] /\ nxt'[u] = nxt[u]
<1>1. ASSUME NEW to, Frame(to), On(s, B, tail'), ProducerAt(s, B, p)', Linking(p)' => Linking(p)
      PROVE  FifoAt(s, B)' /\ UNCHANGED <<head, data, next, got>>
  BY <1>0, <1>1, ThreadStep
<1>2. CASE ReadTail(p)
  <2>1. Frame("next") /\ ptr'[p] = tail /\ tail' = tail
    BY <1>0, <1>2 DEF ReadTail, TypeOK
  <2>2. ProducerAt(s, B, p)' /\ (Linking(p)' => Linking(p))
    BY <1>0, <1>2, <2>1 DEF ReadTail, ProducerAt, Linking, On
  <2> QED BY <1>0, <1>1, <2>1, <2>2
<1>3. CASE ReadNext(p)
  <2>1. Frame("check") /\ ptr' = ptr /\ nxt'[p] = next[ptr[p]] /\ tail' = tail /\ pc[p] = "next"
    BY <1>0, <1>3 DEF ReadNext, TypeOK
  <2>2. nxt'[p] = Null \/ On(s, B, nxt'[p])
    <3>1. ptr[p] \in live /\ On(s, B, ptr[p])
      BY <1>0, <1>3, <2>1 DEF ReadNext, ProducerAt
    <3> QED BY <2>1, <3>1, Behind DEF FifoAt
  <2>3. ProducerAt(s, B, p)' /\ (Linking(p)' => Linking(p))
    BY <1>0, <2>1, <2>2 DEF ProducerAt, Linking, On
  <2> QED BY <1>0, <1>1, <2>1, <2>3
<1>4. CASE CheckTail(p)
  <2> DEFINE to == IF ptr[p] # tail THEN "tail" ELSE IF nxt[p] = Null THEN "link" ELSE "help"
  <2>1. Frame(to) /\ UNCHANGED <<ptr, nxt, tail>> /\ pc[p] = "check"
    BY <1>0, <1>4 DEF CheckTail, TypeOK
  <2>2. ProducerAt(s, B, p)' /\ (Linking(p)' => Linking(p))
    BY <1>0, <2>1 DEF ProducerAt, Linking, On
  <2> QED BY <1>0, <1>1, <2>1, <2>2
<1>5. CASE LinkFails(p)
  <2>1. Frame("tail") /\ UNCHANGED <<ptr, nxt, tail>> /\ pc[p] = "link"
    BY <1>0, <1>5 DEF LinkFails, TypeOK
  <2>2. ProducerAt(s, B, p)' /\ (Linking(p)' => Linking(p))
    BY <1>0, <2>1 DEF ProducerAt, Linking, On
  <2> QED BY <1>0, <1>1, <2>1, <2>2
<1>6. CASE CountUp(p)
  <2>1. Frame("store") /\ UNCHANGED <<ptr, nxt, tail>> /\ pc[p] = "size"
    BY <1>0, <1>6 DEF CountUp, TypeOK
  <2>2. ProducerAt(s, B, p)' /\ (Linking(p)' => Linking(p))
    BY <1>0, <2>1 DEF ProducerAt, Linking, On
  <2> QED BY <1>0, <1>1, <2>1, <2>2
<1>7. CASE StoreTail(p)
  <2>1. Frame("idle") /\ UNCHANGED <<ptr, nxt>> /\ tail' = new[p] /\ pc[p] = "store"
    BY <1>0, <1>7 DEF StoreTail, TypeOK
  <2>2. ProducerAt(s, B, p)' /\ (Linking(p)' => Linking(p)) /\ On(s, B, tail')
    BY <1>0, <2>1 DEF ProducerAt, Linking, On
  <2> QED BY <1>1, <2>1, <2>2
<1>8. CASE HelpEnqueue(p)
  <2>1. Frame("tail") /\ UNCHANGED <<ptr, nxt>> /\ tail' \in {tail, nxt[p]} /\ pc[p] = "help"
    BY <1>0, <1>8 DEF HelpEnqueue, Swing, TypeOK
  <2>2. ProducerAt(s, B, p)' /\ (Linking(p)' => Linking(p)) /\ On(s, B, tail')
    BY <1>0, <2>1 DEF ProducerAt, Linking, On
  <2> QED BY <1>1, <2>1, <2>2
<1> QED BY <1>2, <1>3, <1>4, <1>5, <1>6, <1>7, <1>8 DEF Enqueue

(* TryDequeue changes the list only where it moves the head.               *)
LEMMA DequeueStays ==
    ASSUME TypeOK, NEW s, NEW B, FifoAt(s, B), NEW c \in Consumers, TryDequeue(c), ~MoveHead(c)
    PROVE  FifoAt(s, B)' /\ UNCHANGED <<head, data, next, got>>
<1> USE QueueConstants DEF list, locals, Goto, Touches
<1>0. ConsumerAt(s, B, c) /\ On(s, B, tail) /\ On(s, B, head) /\ c \in Threads /\ c \notin Producers
  BY DEF FifoAt, ListAt, Linked, On
<1> DEFINE Frame(to) == /\ UNCHANGED <<head, data, next, new, got>>
                        /\ live' \subseteq live /\ live \ live' \subseteq B
                        /\ pc' = [pc EXCEPT ![c] = to] /\ pc'[c] = to
                        /\ \A u \in Threads \ {c} : ptr'[u] = ptr[u] /\ nxt'[u] = nxt[u]
                        /\ \A d \in Consumers \ {c} : msg'[d] = msg[d]
<1>1. ASSUME NEW to, Frame(to), On(s, B, tail'), ConsumerAt(s, B, c)'
      PROVE  FifoAt(s, B)' /\ UNCHANGED <<head, data, next, got>>
  BY <1>0, <1>1, ThreadStep
<1>2. CASE ReadHead(c)
  <2>1. Frame("last") /\ ptr'[c] = head /\ tail' = tail
    BY <1>0, <1>2 DEF ReadHead, TypeOK
  <2>2. ConsumerAt(s, B, c)'
    BY <1>0, <2>1 DEF ConsumerAt, On
  <2> QED BY <1>0, <1>1, <2>1, <2>2
<1>3. CASE ReadLast(c)
  <2>1. Frame("next") /\ UNCHANGED <<ptr, nxt, tail>> /\ pc[c] = "last"
    BY <1>0, <1>3 DEF ReadLast, TypeOK
  <2>2. ConsumerAt(s, B, c)'
    BY <1>0, <2>1 DEF ConsumerAt, On
  <2> QED BY <1>0, <1>1, <2>1, <2>2
<1>4. CASE ReadNext(c)
  <2>1. Frame("check") /\ ptr' = ptr /\ nxt'[c] = next[ptr[c]] /\ tail' = tail /\ pc[c] = "next"
    BY <1>0, <1>4 DEF ReadNext, TypeOK
  <2>2. nxt'[c] = Null \/ On(s, B, nxt'[c])
    <3>1. ptr[c] \in live /\ On(s, B, ptr[c])
      BY <1>0, <1>4, <2>1 DEF ReadNext, ConsumerAt
    <3> QED BY <2>1, <3>1, Behind DEF FifoAt
  <2>3. ConsumerAt(s, B, c)'
    BY <1>0, <2>1, <2>2 DEF ConsumerAt, On
  <2> QED BY <1>0, <1>1, <2>1, <2>3
<1>5. CASE CheckHead(c)
  <2> DEFINE to == IF ptr[c] # head THEN "idle"
                   ELSE IF ptr[c] # other[c] THEN "copy"
                   ELSE IF nxt[c] = Null THEN "idle" ELSE "help"
  <2>1. Frame(to) /\ UNCHANGED <<ptr, nxt, tail>> /\ pc[c] = "check"
    BY <1>0, <1>5 DEF CheckHead, TypeOK
  <2>2. ConsumerAt(s, B, c)'
    BY <1>0, <2>1 DEF ConsumerAt, On
  <2> QED BY <1>0, <1>1, <2>1, <2>2
<1>6. CASE HelpDequeue(c)
  <2>1. Frame("idle") /\ UNCHANGED <<ptr, nxt>> /\ tail' \in {tail, nxt[c]} /\ pc[c] = "help"
    BY <1>0, <1>6 DEF HelpDequeue, Swing, TypeOK
  <2>2. ConsumerAt(s, B, c)' /\ On(s, B, tail')
    BY <1>0, <2>1 DEF ConsumerAt, On
  <2> QED BY <1>1, <2>1, <2>2
<1>7. CASE Copy(c)
  <2>1. /\ Frame("move") /\ UNCHANGED <<ptr, nxt, tail>> /\ pc[c] = "copy"
        /\ msg'[c] = data[nxt[c]] /\ nxt[c] \in Nodes
    BY <1>0, <1>7 DEF Copy, TypeOK
  <2>2. ConsumerAt(s, B, c)'
    BY <1>0, <2>1 DEF ConsumerAt, On
  <2> QED BY <1>0, <1>1, <2>1, <2>2
<1>8. CASE MoveFails(c)
  <2>1. Frame("idle") /\ UNCHANGED <<ptr, nxt, tail>>
    BY <1>0, <1>8 DEF MoveFails, TypeOK
  <2>2. ConsumerAt(s, B, c)'
    BY <1>0, <2>1 DEF ConsumerAt, On
  <2> QED BY <1>0, <1>1, <2>1, <2>2
<1>9. CASE Delete(c)
  <2>0. ptr[c] \in B /\ live' = live \ {ptr[c]}
    BY <1>0, <1>9 DEF Delete, ConsumerAt
  <2>1. Frame("size") /\ UNCHANGED <<ptr, nxt, tail>>
    BY <1>0, <1>9, <2>0 DEF Delete, TypeOK
  <2>2. ConsumerAt(s, B, c)'
    BY <1>0, <2>1 DEF ConsumerAt, On
  <2> QED BY <1>0, <1>1, <2>1, <2>2
<1>10. CASE CountDown(c)
  <2>1. Frame("idle") /\ UNCHANGED <<ptr, nxt, tail>>
    BY <1>0, <1>10 DEF CountDown, TypeOK
  <2>2. ConsumerAt(s, B, c)'
    BY <1>0, <2>1 DEF ConsumerAt, On
  <2> QED BY <1>0, <1>1, <2>1, <2>2
<1> QED BY <1>2, <1>3, <1>4, <1>5, <1>6, <1>7, <1>8, <1>9, <1>10 DEF TryDequeue

(* A new node is nowhere in the list, and where its address was behind it  *)
(* nothing points there any more.                                          *)
LEMMA NewNodeStays ==
    ASSUME ~reborn', TypeOK, NEW s, NEW B, FifoAt(s, B), NEW p \in Producers, NewNode(p)
    PROVE  /\ \E n \in Nodes : FifoAt(s, B \ {n})'
           /\ got' = got /\ \A i \in 1 .. Len(s) : data'[s[i]] = data[s[i]]
<1> USE QueueConstants
<1>1. PICK n \in Nodes \ live :
          /\ reborn' = (reborn \/ ReferredTo(n)) /\ live' = live \cup {n}
          /\ data' = [data EXCEPT ![n] = <<p, sent[p] + 1>>]
          /\ next' = [next EXCEPT ![n] = Null]
          /\ new' = [new EXCEPT ![p] = n]
  BY DEF NewNode
<1> DEFINE C == B \ {n}
<1>2. <<p, sent[p] + 1>> \in Messages
  BY DEF NewNode, TypeOK, Messages
<1>3. /\ pc[p] = "idle" /\ pc' = [pc EXCEPT ![p] = "tail"]
      /\ UNCHANGED <<head, tail, ptr, nxt, msg, got>>
  BY DEF NewNode, Goto
<1>4. \A m \in Nodes \ {n} : data'[m] = data[m] /\ next'[m] = next[m]
  BY <1>1 DEF TypeOK
<1>5. data'[n] \in Messages /\ next'[n] = Null
  BY <1>1, <1>2 DEF TypeOK
<1>r. /\ n # tail /\ \A m \in live : next[m] # n
      /\ \A t \in Threads : n \notin InHand(t)
  BY <1>1 DEF ReferredTo
<1>l. \A i \in 1 .. Len(s) : s[i] \in Nodes \ {n} /\ s[i] \in live
  BY <1>1 DEF FifoAt, ListAt, Linked
<1>6. \A m : On(s, B, m) => m \in Nodes /\ (m # n => On(s, C, m))
  BY <1>l DEF On, FifoAt, ListAt
<1>7. ~On(s, C, n) /\ \A m : On(s, C, m) => On(s, B, m) /\ m \in Nodes \ {n}
  BY <1>l, <1>6 DEF On
<1> HIDE DEF C
<1>8. ListAt(s, C)'
  <2>1. \A i \in 1 .. Len(s) : data'[s[i]] = data[s[i]] /\ next'[s[i]] = next[s[i]]
    BY <1>4, <1>l
  <2>2. Len(s) \in 1 .. Len(s) /\ \A i \in 1 .. Len(s) - 1 : i \in 1 .. Len(s)
    BY DEF FifoAt, ListAt, Linked
  <2>3. Linked(s)'
    BY <1>3, <2>1, <2>2 DEF FifoAt, ListAt, Linked
  <2>4. On(s, C, tail)
    BY <1>r, <1>6 DEF FifoAt, ListAt
  <2>5. C \subseteq Nodes /\ C \subseteq B /\ n \notin C
    BY DEF C, FifoAt, ListAt
  <2>6. \A i \in 1 .. Len(s) : s[i] \in live' /\ s[i] \notin C
                              /\ (i > 1 => data'[s[i]] \in Messages)
    BY <1>1, <1>l, <2>1, <2>5 DEF FifoAt, ListAt
  <2>7. ASSUME NEW m \in C PROVE next'[m] # Null /\ (m \in live' => On(s, C, next'[m]))
    <3>1. m \in B /\ m \in Nodes \ {n} /\ next'[m] = next[m] /\ (m \in live' => m \in live)
      BY <1>1, <1>4, <2>5
    <3>2. next[m] # Null /\ (m \in live => On(s, B, next[m]) /\ next[m] # n)
      BY <1>r, <3>1 DEF FifoAt, ListAt
    <3> QED BY <1>6, <3>1, <3>2
  <2> QED BY <1>3, <2>3, <2>4, <2>5, <2>6, <2>7 DEF ListAt, On
<1>9. ASSUME NEW q \in Producers, q # p
      PROVE  ProducerAt(s, C, q)' /\ new'[q] = new[q] /\ (Linking(q)' => Linking(q) /\ new[q] # n)
  <2>1. pc'[q] = pc[q] /\ new'[q] = new[q] /\ ptr' = ptr /\ nxt' = nxt
    BY <1>1, <1>3, <1>9 DEF TypeOK
  <2>2. Linking(q) => new[q] \in live /\ new[q] \in Nodes \ {n}
    BY <1>1 DEF FifoAt, ProducerAt, TypeOK
  <2>3. /\ pc[q] \in {"size", "store"} => new[q] # n
        /\ pc[q] \in {"next", "check", "link", "help"} => ptr[q] # n
        /\ pc[q] \in {"check", "help"} => nxt[q] # n
    BY <1>r DEF InHand
  <2>4. Linking(q)' => /\ new'[q] \in live' /\ ~On(s, C, new'[q])
                       /\ next'[new'[q]] = Null /\ data'[new'[q]] \in Messages
    BY <1>1, <1>4, <1>7, <2>1, <2>2 DEF FifoAt, ProducerAt, Linking
  <2>5. ProducerAt(s, B, q)
    BY DEF FifoAt
  <2>6. ProducerAt(s, C, q)'
    BY ONLY <1>6, <2>1, <2>3, <2>4, <2>5 DEF ProducerAt, On
  <2> QED BY <2>1, <2>2, <2>6 DEF Linking
<1>10. ProducerAt(s, C, p)' /\ new'[p] = n
  <2>1. pc'[p] = "tail" /\ new'[p] = n
    BY <1>1, <1>3 DEF TypeOK
  <2> QED BY <1>1, <1>5, <1>7, <2>1 DEF ProducerAt, Linking, On
<1>11. ASSUME NEW c \in Consumers PROVE ConsumerAt(s, C, c)'
  <2>1. pc'[c] = pc[c] /\ ptr' = ptr /\ nxt' = nxt /\ msg' = msg
    BY <1>3 DEF TypeOK
  <2>2. \A m : On(s, B, m) /\ m # n => On(s, C, m) /\ data'[m] = data[m] /\ next'[m] = next[m]
    BY <1>4, <1>6
  <2>3. /\ pc[c] \in {"last", "next", "check", "help", "copy", "move", "delete"} => ptr[c] # n
        /\ pc[c] \in {"check", "help", "copy", "move"} => nxt[c] # n
    BY <1>r DEF InHand
  <2>4. ConsumerAt(s, B, c)
    BY DEF FifoAt
  <2>5. pc'[c] = "delete" => ptr'[c] \in C
    BY <2>1, <2>3, <2>4 DEF ConsumerAt, C
  <2>6. /\ pc'[c] \in {"last", "next", "check", "help", "copy", "move"} => On(s, C, ptr'[c])
        /\ pc'[c] \in {"check", "help", "copy", "move"} =>
              nxt'[c] = Null \/ (On(s, C, nxt'[c]) /\ next'[ptr'[c]] = nxt'[c])
        /\ pc'[c] \in {"help", "move"} => nxt'[c] # Null
        /\ pc'[c] = "move" => msg'[c] = data'[nxt'[c]]
    BY ONLY <2>1, <2>2, <2>3, <2>4 DEF ConsumerAt
  <2> QED BY <2>5, <2>6 DEF ConsumerAt, On
<1>12. FifoAt(s, C)'
  BY <1>8, <1>9, <1>10, <1>11 DEF FifoAt
<1> QED BY <1>3, <1>4, <1>l, <1>12 DEF C

(* Only the last node can be linked to: the list grows by one at its end.  *)
LEMMA LinkGrows ==
    ASSUME TypeOK, NEW s, NEW B, FifoAt(s, B), NEW p \in Producers, Link(p),
           NEW n, n = new[p]
    PROVE  /\ FifoAt(Append(s, n), B)' /\ UNCHANGED <<head, data, got>>
           /\ s \in Seq(Nodes) /\ n \in Nodes /\ data[n] \in Messages
<1> USE QueueConstants
<1> DEFINE r == Append(s, n)
<1>1. /\ pc[p] = "link" /\ next[ptr[p]] = Null /\ next' = [next EXCEPT ![ptr[p]] = n]
      /\ pc' = [pc EXCEPT ![p] = "size"]
      /\ UNCHANGED <<head, tail, data, live, ptr, nxt, new, msg, got>>
  BY DEF Link, Touches, Goto, locals
<1>2. /\ n \in live /\ ~On(s, B, n) /\ next[n] = Null /\ data[n] \in Messages
      /\ On(s, B, ptr[p]) /\ n \in Nodes
  BY <1>1 DEF FifoAt, ProducerAt, Linking, TypeOK
<1>3. s \in Seq(Nodes) /\ Len(s) \in Nat /\ Len(s) \in 1 .. Len(s)
  BY DEF FifoAt, ListAt, Linked
<1>4. ptr[p] = s[Len(s)]
  <2>1. ptr[p] \notin B
    BY <1>1 DEF FifoAt, ListAt
  <2> QED BY <1>1, <1>2, <1>3, <2>1, SMTT(30) DEF FifoAt, ListAt, Linked, On
<1>5. /\ r \in Seq(Nodes) /\ Len(r) = Len(s) + 1 /\ r[Len(s) + 1] = n
      /\ \A i \in 1 .. Len(s) : r[i] = s[i]
  BY <1>2, <1>3
<1> HIDE DEF r
<1>6. \A m : On(r, B, m) <=> On(s, B, m) \/ m = n
  BY <1>3, <1>5 DEF On
<1>7. \A m \in Nodes : next'[m] = IF m = s[Len(s)] THEN n ELSE next[m]
  BY <1>1, <1>4 DEF TypeOK
<1>8. s[Len(s)] \in Nodes /\ On(s, B, s[Len(s)]) /\ \A m : On(s, B, m) => m \in Nodes /\ m # n
  <2>1. B \subseteq Nodes /\ \A i \in 1 .. Len(s) : s[i] \in Nodes
    BY <1>3 DEF FifoAt, ListAt
  <2> QED BY <1>2, <1>3, <2>1 DEF On
<1>9. Linked(r)'
  <2>1. Len(r) > 0 /\ head' = r[1]
    BY <1>1, <1>3, <1>5 DEF FifoAt, ListAt, Linked
  <2>2. \A i, j \in 1 .. Len(r) : r[i] = r[j] => i = j
    <3>1. \A i \in 1 .. Len(s) : s[i] # n
      BY <1>2 DEF On
    <3> QED BY <1>3, <1>5, <3>1 DEF FifoAt, ListAt, Linked
  <2>3. ASSUME NEW i \in 1 .. Len(r) - 1 PROVE next'[r[i]] = r[i + 1]
    <3>1. i \in 1 .. Len(s) /\ r[i] = s[i] /\ s[i] \in Nodes
      BY <1>3, <1>5
    <3>2. CASE i = Len(s)
      BY <1>5, <1>7, <3>1, <3>2
    <3>3. CASE i # Len(s)
      <4>1. i \in 1 .. Len(s) - 1 /\ i + 1 \in 1 .. Len(s) /\ s[i] # s[Len(s)]
        BY <1>3, <3>1, <3>3 DEF FifoAt, ListAt, Linked
      <4> QED BY <1>5, <1>7, <3>1, <4>1 DEF FifoAt, ListAt, Linked
    <3> QED BY <3>2, <3>3
  <2>4. next'[r[Len(r)]] = Null
    BY <1>2, <1>5, <1>7, <1>8, <1>3
  <2> QED BY <1>5, <2>1, <2>2, <2>3, <2>4 DEF Linked
<1>10. ListAt(r, B)'
  <2>0. n \notin B
    BY <1>2 DEF On
  <2>1. \A i \in 1 .. Len(r) : r[i] \in live /\ r[i] \notin B /\ (i > 1 => data[r[i]] \in Messages)
    BY <1>2, <1>3, <1>5, <2>0 DEF FifoAt, ListAt
  <2>2. On(r, B, tail)
    BY <1>6 DEF FifoAt, ListAt
  <2>3. ASSUME NEW m \in B PROVE next'[m] # Null /\ (m \in live => On(r, B, next'[m]))
    <3>1. m \in Nodes /\ m # s[Len(s)] /\ next'[m] = next[m]
      BY <1>3, <1>7 DEF FifoAt, ListAt
    <3> QED BY <1>6, <3>1 DEF FifoAt, ListAt
  <2>4. B \subseteq Nodes
    BY DEF FifoAt, ListAt
  <2> QED BY <1>1, <1>9, <2>1, <2>2, <2>3, <2>4 DEF ListAt, On
<1>11. ASSUME NEW q \in Producers, q # p
       PROVE  ProducerAt(r, B, q)' /\ (Linking(q)' => Linking(q))
  <2>1. pc'[q] = pc[q]
    BY <1>1, <1>11 DEF TypeOK
  <2>2. Linking(q) => new[q] # n /\ new[q] # s[Len(s)] /\ new[q] \in Nodes
    <3>1. Linking(p)
      BY <1>1 DEF Linking
    <3> QED BY <1>8, <1>11, <3>1 DEF FifoAt, ProducerAt, TypeOK
  <2>3. Linking(q) => next'[new[q]] = next[new[q]] /\ ~On(r, B, new[q])
    BY <1>6, <1>7, <2>2 DEF FifoAt, ProducerAt
  <2>4. /\ UNCHANGED <<data, live, ptr, nxt, new>> /\ new' = new
        /\ Linking(q)' <=> Linking(q)
    BY <1>1, <2>1 DEF Linking
  <2>5. ProducerAt(s, B, q) /\ \A m : On(s, B, m) => On(r, B, m)
    BY <1>6 DEF FifoAt
  <2>6. Linking(q)' => /\ new'[q] \in live' /\ ~On(r, B, new'[q])
                       /\ next'[new'[q]] = Null /\ data'[new'[q]] \in Messages
    BY ONLY <2>3, <2>4, <2>5 DEF ProducerAt
  <2>7. ProducerAt(r, B, q)'
    BY ONLY <2>1, <2>4, <2>5, <2>6 DEF ProducerAt, On
  <2> QED BY <2>4, <2>7
<1>12. ProducerAt(r, B, p)' /\ ~Linking(p)'
  <2>1. pc'[p] = "size"
    BY <1>1 DEF TypeOK
  <2> QED BY <1>1, <1>6, <2>1 DEF ProducerAt, Linking, On
<1>13. ASSUME NEW c \in Consumers PROVE ConsumerAt(r, B, c)'
  <2>1. pc'[c] = pc[c]
    BY <1>1 DEF TypeOK
  <2>2. \A m : On(s, B, m) /\ next[m] # Null => next'[m] = next[m]
    BY <1>3, <1>7, <1>8 DEF FifoAt, ListAt, Linked
  <2>3. ConsumerAt(s, B, c) /\ pc[c] \in Points
    BY DEF FifoAt, TypeOK, Points
  <2>4. pc[c] \in {"check", "help", "copy", "move"} =>
            nxt[c] = Null \/ (On(r, B, nxt[c]) /\ next'[ptr[c]] = nxt[c])
    BY <1>6, <2>2, <2>3 DEF ConsumerAt
  <2> QED BY <1>1, <1>6, <2>1, <2>3, <2>4 DEF ConsumerAt, On
<1>14. FifoAt(r, B)'
  BY <1>1, <1>10, <1>11, <1>12, <1>13 DEF FifoAt
<1> QED BY <1>1, <1>2, <1>3, <1>14 DEF r

(* The head moves to the next node, whose message the consumer has.        *)
LEMMA HeadMoves ==
    ASSUME TypeOK, NEW s, NEW B, FifoAt(s, B), NEW c \in Consumers, MoveHead(c)
    PROVE  /\ s \in Seq(Nodes) /\ Len(s) > 1 /\ UNCHANGED data
           /\ got' = [got EXCEPT ![c] = Append(@, data[s[2]])]
           /\ \E r \in Seq(Nodes), C \in SUBSET Nodes :
                 /\ FifoAt(r, C)' /\ Len(r) = Len(s) - 1
                 /\ \A i \in 1 .. Len(r) : r[i] = s[i + 1]
<1> USE QueueConstants
<1>r. PICK r : r = Tail(s)
  OBVIOUS
<1>c. PICK C : C = B \cup {head}
  OBVIOUS
<1>1. /\ pc[c] = "move" /\ head = ptr[c] /\ head' = nxt[c]
      /\ got' = [got EXCEPT ![c] = Append(@, msg[c])] /\ pc' = [pc EXCEPT ![c] = "delete"]
      /\ UNCHANGED <<tail, data, next, live, ptr, nxt, new, msg>>
  BY DEF MoveHead, Goto, locals
<1>2. next[head] = nxt[c] /\ nxt[c] # Null /\ msg[c] = data[nxt[c]]
  BY <1>1 DEF FifoAt, ConsumerAt
<1>3. Len(s) > 1 /\ nxt[c] = s[2] /\ Len(s) \in Nat /\ s \in Seq(Nodes) /\ head = s[1]
  BY <1>2, BehindHead DEF FifoAt, ListAt, Linked
<1>4. /\ r \in Seq(Nodes) /\ Len(r) = Len(s) - 1
      /\ \A i \in 1 .. Len(r) : r[i] = s[i + 1]
  BY <1>3, <1>r
<1>5. \A m : On(r, C, m) <=> On(s, B, m)
  <2>1. ASSUME NEW m, On(r, C, m) PROVE On(s, B, m)
    <3>1. 1 \in 1 .. Len(s) /\ \A i \in 1 .. Len(r) : i + 1 \in 1 .. Len(s)
      BY <1>3, <1>4
    <3> QED BY <1>3, <1>4, <1>c, <2>1, <3>1 DEF On
  <2>2. ASSUME NEW m, On(s, B, m) PROVE On(r, C, m)
    <3>1. ASSUME NEW i \in 1 .. Len(s), s[i] = m PROVE On(r, C, m)
      <4>1. CASE i = 1
        BY <1>3, <1>c, <3>1, <4>1 DEF On
      <4>2. CASE i # 1
        <5>1. i - 1 \in 1 .. Len(r) /\ (i - 1) + 1 = i
          BY <1>3, <1>4, <4>2
        <5>2. r[i - 1] = m
          BY <1>4, <3>1, <5>1
        <5> QED BY <5>1, <5>2 DEF On
      <4> QED BY <4>1, <4>2
    <3> QED BY <1>c, <2>2, <3>1 DEF On
  <2> QED BY <2>1, <2>2
<1>6. /\ head \in Nodes /\ C \subseteq Nodes /\ B \subseteq C /\ head \in C
      /\ \A i \in 1 .. Len(r) : r[i] \notin C /\ i + 1 \in 1 .. Len(s)
  <2>1. 1 \in 1 .. Len(s) /\ \A i \in 1 .. Len(r) : i + 1 \in 1 .. Len(s) /\ i + 1 # 1
    BY <1>3, <1>4
  <2>2. \A i \in 1 .. Len(r) : s[i + 1] # s[1] /\ s[i + 1] \notin B
    BY <2>1 DEF FifoAt, ListAt, Linked
  <2>3. head \in Nodes /\ C \subseteq Nodes
    BY <1>3, <1>c, <2>1 DEF FifoAt, ListAt
  <2> QED BY <1>3, <1>4, <1>c, <2>1, <2>2, <2>3
<1>7. Linked(r)'
  <2>1. Len(r) > 0 /\ head' = r[1]
    BY <1>1, <1>3, <1>4
  <2>2. \A i, j \in 1 .. Len(r) : r[i] = r[j] => i = j
    BY <1>3, <1>4, <1>6, SMTT(30) DEF FifoAt, ListAt, Linked
  <2>3. ASSUME NEW i \in 1 .. Len(r) - 1 PROVE next[r[i]] = r[i + 1]
    <3>1. i \in 1 .. Len(r) /\ i + 1 \in 1 .. Len(r) /\ i + 1 \in 1 .. Len(s) - 1
      BY <1>3, <1>4
    <3>2. next[s[i + 1]] = s[(i + 1) + 1]
      BY <3>1 DEF FifoAt, ListAt, Linked
    <3> QED BY <1>4, <3>1, <3>2
  <2>4. next[r[Len(r)]] = Null
    <3>1. Len(r) \in 1 .. Len(r) /\ Len(r) + 1 = Len(s)
      BY <1>3, <1>4
    <3> QED BY <1>4, <3>1 DEF FifoAt, ListAt, Linked
  <2> QED BY <1>1, <1>4, <2>1, <2>2, <2>3, <2>4 DEF Linked
<1>8. ListAt(r, C)'
  <2>1. ASSUME NEW i \in 1 .. Len(r)
        PROVE  r[i] \in live /\ r[i] \notin C /\ data[r[i]] \in Messages
    <3>1. i + 1 \in 1 .. Len(s) /\ i + 1 > 1 /\ r[i] = s[i + 1]
      BY <1>4, <1>6
    <3> QED BY <1>6, <3>1 DEF FifoAt, ListAt
  <2>2. On(s, B, s[2])
    <3>1. 2 \in 1 .. Len(s)
      BY <1>3
    <3> QED BY <3>1 DEF On
  <2>3. \A m \in C : next[m] # Null /\ (m \in live => On(r, C, next[m]))
    BY <1>c, <1>2, <1>3, <1>5, <2>2 DEF FifoAt, ListAt
  <2>4. On(r, C, tail)
    BY <1>5 DEF FifoAt, ListAt
  <2> QED BY <1>1, <1>6, <1>7, <2>1, <2>3, <2>4 DEF ListAt, On
<1>9. ASSUME NEW p \in Producers PROVE ProducerAt(r, C, p)' /\ (Linking(p)' <=> Linking(p))
  <2>1. pc'[p] = pc[p]
    BY <1>1 DEF TypeOK
  <2>2. ProducerAt(s, B, p)
    BY DEF FifoAt
  <2>3. ProducerAt(r, C, p)
    BY ONLY <1>5, <2>2 DEF ProducerAt
  <2> QED BY <1>1, <2>1, <2>3 DEF ProducerAt, Linking, On
<1>10. ASSUME NEW d \in Consumers PROVE ConsumerAt(r, C, d)'
  <2>1. pc'[d] = IF d = c THEN "delete" ELSE pc[d]
    BY <1>1 DEF TypeOK
  <2>2. ConsumerAt(s, B, d)
    BY DEF FifoAt
  <2>3. ConsumerAt(r, C, d)
    BY ONLY <1>5, <1>6, <2>2 DEF ConsumerAt
  <2>4. d = c => ptr[d] \in C
    BY <1>1, <1>6
  <2> QED BY <1>1, <2>1, <2>3, <2>4 DEF ConsumerAt, On
<1>11. FifoAt(r, C)'
  BY <1>1, <1>8, <1>9, <1>10 DEF FifoAt
<1>12. C \in SUBSET Nodes
  BY <1>6
<1> QED BY <1>1, <1>2, <1>3, <1>4, <1>11, <1>12

-----------------------------------------------------------------------------
(* The queue of Fifo: the messages behind the dummy.                       *)
Messaged(s, d) == [i \in 1 .. Len(s) - 1 |-> d[s[i + 1]]]

(* It is a sequence of messages.                                           *)
LEMMA MessagedIs ==
    ASSUME NEW s \in Seq(Nodes), Len(s) > 0, NEW d,
           \A i \in 1 .. Len(s) : i > 1 => d[s[i]] \in Messages
    PROVE  /\ Messaged(s, d) \in Seq(Messages) /\ Len(Messaged(s, d)) = Len(s) - 1
           /\ \A i \in 1 .. Len(s) - 1 : Messaged(s, d)[i] = d[s[i + 1]]
<1>1. Len(s) - 1 \in Nat /\ \A i \in 1 .. Len(s) - 1 : i + 1 \in 1 .. Len(s) /\ i + 1 > 1
  OBVIOUS
<1>2. Messaged(s, d) \in [1 .. Len(s) - 1 -> Messages]
  BY <1>1 DEF Messaged
<1>3. \A i \in 1 .. Len(s) - 1 : Messaged(s, d)[i] = d[s[i + 1]]
  BY DEF Messaged
<1> QED BY <1>1, <1>2, <1>3

(* A sequence that is longer by one, and the same before, is an Append.    *)
LEMMA Appended ==
    ASSUME NEW S, NEW q \in Seq(S), NEW r \in Seq(S), NEW x \in S, Len(r) = Len(q) + 1,
           \A i \in 1 .. Len(q) : r[i] = q[i], r[Len(q) + 1] = x
    PROVE  r = Append(q, x)
<1>1. /\ Append(q, x) \in Seq(S) /\ Len(Append(q, x)) = Len(q) + 1
      /\ Append(q, x)[Len(q) + 1] = x
      /\ \A i \in 1 .. Len(q) : Append(q, x)[i] = q[i]
  BY AppendProperties
<1>2. ASSUME NEW i \in 1 .. Len(r) PROVE r[i] = Append(q, x)[i]
  <2>1. i \in 1 .. Len(q) \/ i = Len(q) + 1
    OBVIOUS
  <2> QED BY <1>1, <2>1
<1> QED BY <1>1, <1>2, SeqEqual

(* A sequence without its first element is its Tail.                       *)
LEMMA Tailed ==
    ASSUME NEW S, NEW q \in Seq(S), NEW r \in Seq(S), Len(q) = Len(r) + 1,
           \A i \in 1 .. Len(r) : r[i] = q[i + 1]
    PROVE  q # <<>> /\ Head(q) = q[1] /\ r = Tail(q)
<1>1. q # <<>> /\ Head(q) = q[1]
  OBVIOUS
<1>2. /\ Tail(q) \in Seq(S) /\ Len(Tail(q)) = Len(r)
      /\ \A i \in 1 .. Len(r) : Tail(q)[i] = q[i + 1]
  BY <1>1, HeadTailProperties
<1> QED BY <1>1, <1>2, SeqEqual

(* It is the queue.                                                        *)
LEMMA QueuedIs ==
    \A s, B : FifoAt(s, B) =>
        /\ Queued = Messaged(s, data) /\ s \in Seq(Nodes) /\ Len(s) > 0
        /\ \A i \in 1 .. Len(s) : i > 1 => data[s[i]] \in Messages
<1> SUFFICES ASSUME NEW s, NEW B, FifoAt(s, B)
    PROVE  /\ Queued = Messaged(s, data) /\ s \in Seq(Nodes) /\ Len(s) > 0
           /\ \A i \in 1 .. Len(s) : i > 1 => data[s[i]] \in Messages
  OBVIOUS
<1>1. Linked(s) /\ \A i \in 1 .. Len(s) : i > 1 => data[s[i]] \in Messages
  BY DEF FifoAt, ListAt
<1>2. Chain = [i \in 1 .. Len(s) - 1 |-> s[1 + i]]
  BY <1>1, ChainIs, QueueConstants
<1>3. \A i \in 1 .. Len(s) - 1 : 1 + i = i + 1
  OBVIOUS
<1>4. Queued = Messaged(s, data)
  BY <1>2, <1>3 DEF Queued, Messaged
<1> QED BY <1>1, <1>4 DEF Linked

(* The same in the next state.                                             *)
LEMMA QueuedNext ==
    \A s, B : FifoAt(s, B)' =>
        /\ Queued' = Messaged(s, data') /\ s \in Seq(Nodes) /\ Len(s) > 0
        /\ \A i \in 1 .. Len(s) : i > 1 => data'[s[i]] \in Messages
<1>1. (\A s, B : FifoAt(s, B) =>
        /\ Queued = Messaged(s, data) /\ s \in Seq(Nodes) /\ Len(s) > 0
        /\ \A i \in 1 .. Len(s) : i > 1 => data[s[i]] \in Messages)'
  BY QueuedIs, PTL
<1> QED BY <1>1 DEF Messaged

(* At first there is a list of the dummy alone.                            *)
LEMMA InitFifo == Init => FifoInv /\ Abstract!Init
<1> SUFFICES ASSUME Init PROVE FifoInv /\ Abstract!Init
  OBVIOUS
<1> USE QueueConstants
<1>1. PICK dummy \in Nodes :
        /\ head = dummy /\ tail = dummy /\ next = [n \in Nodes |-> Null] /\ live = {dummy}
        /\ pc = [t \in Threads |-> "idle"] /\ got = [c \in Consumers |-> <<>>]
  BY DEF Init
<1> DEFINE s == <<dummy>>
<1>2. s \in Seq(Nodes) /\ Len(s) = 1 /\ s[1] = dummy /\ 1 \in 1 .. Len(s)
  OBVIOUS
<1> HIDE DEF s
<1>3. FifoAt(s, {})
  <2>1. ListAt(s, {})
    BY <1>1, <1>2 DEF ListAt, Linked, On
  <2>2. \A t \in Threads : pc[t] = "idle"
    BY <1>1
  <2> QED BY <2>1, <2>2 DEF FifoAt, ProducerAt, ConsumerAt, Linking
<1>4. Queued = <<>>
  <2>1. Len(s) - 1 = 0
    BY <1>2
  <2> QED BY <1>3, <2>1, QueuedIs DEF Messaged
<1>5. {} \in SUBSET Nodes
  OBVIOUS
<1> QED BY <1>1, <1>2, <1>3, <1>4, <1>5, InitType DEF FifoInv, Abstract!Init

(* Linking a node is a Put.                                                *)
LEMMA LinkPuts ==
    ASSUME TypeOK, NEW s, NEW B, FifoAt(s, B), NEW p \in Producers, Link(p)
    PROVE  /\ \E r \in Seq(Nodes) : FifoAt(r, B)'
           /\ \E m \in Messages : Abstract!Put(m)
<1>1. PICK n : n = new[p]
  OBVIOUS
<1>2. PICK r : r = Append(s, n)
  OBVIOUS
<1>3. /\ FifoAt(r, B)' /\ UNCHANGED <<head, data, got>>
      /\ s \in Seq(Nodes) /\ n \in Nodes /\ data[n] \in Messages
  BY <1>1, <1>2, LinkGrows
<1>4. /\ r \in Seq(Nodes) /\ Len(r) = Len(s) + 1 /\ r[Len(s) + 1] = n /\ Len(s) \in Nat
      /\ \A i \in 1 .. Len(s) : r[i] = s[i]
  BY <1>2, <1>3
<1> DEFINE old == Messaged(s, data)
           later == Messaged(r, data)
<1>5. /\ Queued = old /\ Len(s) > 0 /\ Queued' = later /\ Len(r) > 0
      /\ \A i \in 1 .. Len(s) : i > 1 => data[s[i]] \in Messages
      /\ \A i \in 1 .. Len(r) : i > 1 => data[r[i]] \in Messages
  BY <1>3, QueuedIs, QueuedNext
<1>6. /\ old \in Seq(Messages) /\ Len(old) = Len(s) - 1
      /\ \A i \in 1 .. Len(s) - 1 : old[i] = data[s[i + 1]]
  BY <1>3, <1>5, MessagedIs
<1>7. /\ later \in Seq(Messages) /\ Len(later) = Len(r) - 1
      /\ \A i \in 1 .. Len(r) - 1 : later[i] = data[r[i + 1]]
  BY <1>4, <1>5, MessagedIs
<1> HIDE DEF old, later
<1>8. Len(later) = Len(old) + 1 /\ Len(old) + 1 = Len(s)
  BY <1>4, <1>6, <1>7
<1>9. \A i \in 1 .. Len(old) : later[i] = old[i]
  <2> SUFFICES ASSUME NEW i \in 1 .. Len(old) PROVE later[i] = old[i]
    OBVIOUS
  <2>1. i \in 1 .. Len(s) - 1 /\ i \in 1 .. Len(r) - 1 /\ i + 1 \in 1 .. Len(s)
    BY <1>4, <1>6
  <2>2. later[i] = data[r[i + 1]] /\ old[i] = data[s[i + 1]] /\ r[i + 1] = s[i + 1]
    BY ONLY <1>4, <1>6, <1>7, <2>1, Zenon
  <2> QED BY ONLY <2>2
<1>10. later[Len(old) + 1] = data[n]
  <2>1. Len(s) \in 1 .. Len(r) - 1
    BY <1>4, <1>5
  <2> QED BY <1>4, <1>7, <1>8, <2>1
<1>11. PICK m \in Messages : m = data[n]
  BY <1>3
<1>12. later = Append(old, m)
  BY <1>6, <1>7, <1>8, <1>9, <1>10, <1>11, Appended
<1>13. Abstract!Put(m)
  BY <1>3, <1>5, <1>12 DEF Abstract!Put
<1> QED BY <1>3, <1>4, <1>13

(* Moving the head is a Take.                                              *)
LEMMA MoveHeadTakes ==
    ASSUME TypeOK, NEW s, NEW B, FifoAt(s, B), NEW c \in Consumers, MoveHead(c)
    PROVE  /\ \E r \in Seq(Nodes), C \in SUBSET Nodes : FifoAt(r, C)'
           /\ Abstract!Take(c)
<1>1. /\ s \in Seq(Nodes) /\ Len(s) > 1 /\ UNCHANGED data
      /\ got' = [got EXCEPT ![c] = Append(@, data[s[2]])]
  BY HeadMoves
<1>2. PICK r \in Seq(Nodes), C \in SUBSET Nodes :
          /\ FifoAt(r, C)' /\ Len(r) = Len(s) - 1
          /\ \A i \in 1 .. Len(r) : r[i] = s[i + 1]
  BY HeadMoves
<1>3. /\ FifoAt(r, C)' /\ UNCHANGED data
      /\ s \in Seq(Nodes) /\ Len(s) > 1 /\ r \in Seq(Nodes) /\ Len(r) = Len(s) - 1
      /\ \A i \in 1 .. Len(r) : r[i] = s[i + 1]
      /\ got' = [got EXCEPT ![c] = Append(@, data[s[2]])]
  BY <1>1, <1>2
<1> DEFINE old == Messaged(s, data)
           later == Messaged(r, data)
<1>4. /\ Queued = old /\ Queued' = later /\ Len(r) > 0 /\ Len(s) > 0
      /\ \A i \in 1 .. Len(s) : i > 1 => data[s[i]] \in Messages
      /\ \A i \in 1 .. Len(r) : i > 1 => data[r[i]] \in Messages
  BY <1>3, QueuedIs, QueuedNext
<1>5. /\ old \in Seq(Messages) /\ Len(old) = Len(s) - 1
      /\ \A i \in 1 .. Len(s) - 1 : old[i] = data[s[i + 1]]
  BY <1>3, <1>4, MessagedIs, ZenonT(60)
<1>6. /\ later \in Seq(Messages) /\ Len(later) = Len(r) - 1
      /\ \A i \in 1 .. Len(r) - 1 : later[i] = data[r[i + 1]]
  BY <1>3, <1>4, MessagedIs, ZenonT(60)
<1> HIDE DEF old, later
<1>7. Len(old) = Len(later) + 1
  BY <1>3, <1>5, <1>6
<1>8. \A i \in 1 .. Len(later) : later[i] = old[i + 1]
  <2> SUFFICES ASSUME NEW i \in 1 .. Len(later) PROVE later[i] = old[i + 1]
    OBVIOUS
  <2>1. i \in 1 .. Len(r) - 1 /\ i + 1 \in 1 .. Len(s) - 1 /\ i + 1 \in 1 .. Len(r)
    BY <1>3, <1>5, <1>6
  <2>2. later[i] = data[r[i + 1]] /\ old[i + 1] = data[s[(i + 1) + 1]]
        /\ r[i + 1] = s[(i + 1) + 1]
    BY ONLY <1>3, <1>5, <1>6, <2>1, Zenon
  <2> QED BY ONLY <2>2
<1>9. old # <<>> /\ Head(old) = old[1] /\ later = Tail(old)
  BY <1>5, <1>6, <1>7, <1>8, Tailed
<1>10. old[1] = data[s[2]]
  BY <1>3, <1>5
<1>11. Abstract!Take(c)
  BY <1>3, <1>4, <1>9, <1>10 DEF Abstract!Take
<1> QED BY <1>3, <1>11

(* Each step keeps the invariant: linking a node is a Put, moving the      *)
(* head a Take, and all else leaves the queue as it was.                   *)
LEMMA NextFifo ==
    ASSUME FifoInv, [Next]_vars
    PROVE  FifoInv' /\ [reborn' \/ Abstract!Next]_<<Queued, got>>
<1> USE QueueConstants
<1> DEFINE Kept == FifoInv' /\ [reborn' \/ Abstract!Next]_<<Queued, got>>
<1>1. CASE reborn'
  BY <1>1 DEF FifoInv
<1>2. ASSUME reborn PROVE reborn'
  BY <1>2 DEF vars, Next, NewNode, Enqueue, TryDequeue, Crash, ReadTail, ReadNext, CheckTail,
       LinkFails, CountUp, StoreTail, HelpEnqueue, Link, Swing, ReadHead, ReadLast, CheckHead,
       HelpDequeue, Copy, MoveFails, Delete, CountDown, MoveHead
<1>3. CASE ~reborn'
  <2>1. ~reborn /\ TypeOK
    BY <1>2, <1>3 DEF FifoInv
  <2>2. PICK s \in Seq(Nodes), B \in SUBSET Nodes : FifoAt(s, B)
    BY <2>1 DEF FifoInv
  <2>3. TypeOK'
    BY <2>1, <2>2, NextType
  <2>4. ASSUME NEW C \in SUBSET Nodes, FifoAt(s, C)', got' = got,
               \A i \in 1 .. Len(s) : data'[s[i]] = data[s[i]]
        PROVE  Kept
    <3>1. Queued = Messaged(s, data) /\ Queued' = Messaged(s, data')
      BY <2>2, <2>4, QueuedIs, QueuedNext
    <3>2. \A i \in 1 .. Len(s) - 1 : i + 1 \in 1 .. Len(s)
      OBVIOUS
    <3>3. Messaged(s, data') = Messaged(s, data)
      BY <2>4, <3>2 DEF Messaged
    <3> QED BY <2>3, <2>4, <3>1, <3>3 DEF FifoInv
  <2>5. ASSUME UNCHANGED <<list, locals, pc, got>> PROVE Kept
    <3>1. UNCHANGED <<head, tail, data, next, live, ptr, nxt, new, msg, pc, got>>
      BY <2>5 DEF list, locals
    <3>2. ListAt(s, B)'
      BY <2>2, <3>1 DEF FifoAt, ListAt, Linked, On
    <3>3. /\ \A p \in Producers : ProducerAt(s, B, p)' /\ (Linking(p)' <=> Linking(p))
          /\ \A c \in Consumers : ConsumerAt(s, B, c)'
      BY <2>2, <3>1 DEF FifoAt, ProducerAt, ConsumerAt, Linking, On
    <3>4. FifoAt(s, B)'
      BY <2>2, <3>1, <3>2, <3>3 DEF FifoAt
    <3> QED BY <2>4, <3>1, <3>4
  <2>6. ASSUME NEW p \in Producers, NewNode(p) PROVE Kept
    <3>1. PICK n \in Nodes : FifoAt(s, B \ {n})'
      BY <1>3, <2>1, <2>2, <2>6, NewNodeStays
    <3>2. got' = got /\ \A i \in 1 .. Len(s) : data'[s[i]] = data[s[i]]
      BY <1>3, <2>1, <2>2, <2>6, NewNodeStays
    <3>3. B \ {n} \in SUBSET Nodes
      OBVIOUS
    <3> QED BY <2>4, <3>1, <3>2, <3>3
  <2>7. ASSUME NEW p \in Producers, Enqueue(p) PROVE Kept
    <3>1. CASE Link(p)
      BY <2>1, <2>2, <2>3, <3>1, LinkPuts DEF FifoInv, Abstract!Next
    <3>2. CASE ~Link(p)
      BY <2>1, <2>2, <2>4, <2>7, <3>2, EnqueueStays
    <3> QED BY <3>1, <3>2
  <2>8. ASSUME NEW c \in Consumers, TryDequeue(c) PROVE Kept
    <3>1. CASE MoveHead(c)
      BY <2>1, <2>2, <2>3, <3>1, MoveHeadTakes DEF FifoInv, Abstract!Next
    <3>2. CASE ~MoveHead(c)
      BY <2>1, <2>2, <2>4, <2>8, <3>2, DequeueStays
    <3> QED BY <3>1, <3>2
  <2>9. ASSUME NEW t \in Threads, Crash(t) PROVE Kept
    BY <2>5, <2>9 DEF Crash
  <2>10. ASSUME UNCHANGED vars PROVE Kept
    BY <2>5, <2>10 DEF vars
  <2>11. Kept
    <3> HIDE DEF Kept
    <3> QED BY <2>6, <2>7, <2>8, <2>9, <2>10 DEF Next
  <2> QED BY <2>11
<1> QED BY <1>1, <1>3

(* my_lockfreequeue.h: for any number of producers, consumers, nodes and   *)
(* messages, and with new returning any free address, what is enqueued     *)
(* comes out once and in order until a deleted node is touched or its      *)
(* address comes back while the queue, a node or a thread points there.    *)
THEOREM QueueIsFifo == Spec => ImplementsFifo
<1>1. FifoInv /\ [Next]_vars => FifoInv' /\ [reborn' \/ Abstract!Next]_<<Queued, got>>
  BY NextFifo
<1> QED BY InitFifo, <1>1, PTL DEF Spec, ImplementsFifo
=============================================================================
