---------------------------- MODULE LockFreeQueue ----------------------------
(***************************************************************************)
(* The queue between the epoll thread and the receive pool, and between    *)
(* the workers and the send threads                                        *)
(* (include/threadPool/my_lockfreequeue.h): a linked list with a dummy     *)
(* node in front, every load, store and compare-and-swap a step of its     *)
(* own, under sequential consistency.                                      *)
(*                                                                         *)
(* head_tag_ and tail_tag_ are left out: they are written and never        *)
(* compared.  Touching a node that has been deleted, or a null node, ends  *)
(* the behaviour with ub set: nothing is known of what comes after.        *)
(***************************************************************************)
EXTENDS Integers, Sequences, FiniteSets

CONSTANTS
    Producers, Consumers,
    Nodes,           \* addresses that new may return
    Null,
    MaxMessages      \* bound: messages of one producer

ASSUME QueueAssumption ==
    /\ Null \notin Nodes /\ Producers \cap Consumers = {}
    /\ IsFiniteSet(Nodes) /\ Nodes # {} /\ MaxMessages \in Nat

VARIABLES
    head, tail, size,   \* head_ptr_, tail_ptr_, size
    data, next,         \* the nodes
    live,               \* nodes allocated now
    pc,                 \* program counter of each thread
    ptr, nxt, other,    \* old_tail_ptr or old_head_ptr, next, old_tail_ptr of a consumer
    new, msg,           \* new_node of a producer, msg of a consumer
    sent, got,          \* messages put by a producer, taken by a consumer
    ub,                 \* ghost: a null or deleted node has been touched
    reborn              \* ghost: an address came back while it was still referred to

list == <<head, tail, size, data, next, live>>
locals == <<ptr, nxt, other, new, msg>>
vars == <<list, pc, locals, sent, got, ub, reborn>>

Threads == Producers \cup Consumers
Messages == Producers \X (1 .. MaxMessages)
NoMessage == <<>>

Init ==
    \E dummy \in Nodes :
        /\ head = dummy /\ tail = dummy /\ size = 0
        /\ data = [n \in Nodes |-> NoMessage] /\ next = [n \in Nodes |-> Null]
        /\ live = {dummy}
        /\ pc = [t \in Threads |-> "idle"]
        /\ ptr = [t \in Threads |-> Null] /\ nxt = [t \in Threads |-> Null]
        /\ other = [c \in Consumers |-> Null]
        /\ new = [p \in Producers |-> Null]
        /\ msg = [c \in Consumers |-> NoMessage]
        /\ sent = [p \in Producers |-> 0] /\ got = [c \in Consumers |-> <<>>]
        /\ ub = FALSE /\ reborn = FALSE

Goto(t, l) == pc' = [pc EXCEPT ![t] = l]

(* A thread at `from' touches node n: that is defined for a live node.     *)
Touches(t, from, n) == pc[t] = from /\ n \in live

Crash(t) ==
    /\ \/ pc[t] \in {"next", "link"} /\ ptr[t] \notin live
       \/ pc[t] = "copy" /\ nxt[t] \notin live
       \/ pc[t] = "delete" /\ ptr[t] \notin live
    /\ ub' = TRUE
    /\ UNCHANGED <<list, pc, locals, sent, got, reborn>>

-----------------------------------------------------------------------------
(* What thread t will still touch, compare or store.                       *)
InHand(t) ==
    {n \in Nodes :
        \/ n = ptr[t] /\ pc[t] \in {"last", "next", "check", "link", "help", "copy", "move",
                                     "delete"}
        \/ n = nxt[t] /\ pc[t] \in {"check", "help", "copy", "move"}
        \/ t \in Producers /\ n = new[t] /\ pc[t] \in {"size", "store"}}

(* A deleted node to which the queue, a node or a thread still points: the *)
(* next one that new places there will be taken for it.                    *)
ReferredTo(n) ==
    \/ n = tail
    \/ \E m \in live : next[m] = n
    \/ \E t \in Threads : n \in InHand(t)

(* Enqueue.  new returns any address that is free.                         *)
NewNode(p) ==
    /\ pc[p] = "idle" /\ sent[p] < MaxMessages
    /\ \E n \in Nodes \ live :
          /\ reborn' = (reborn \/ ReferredTo(n))
          /\ live' = live \cup {n}
          /\ data' = [data EXCEPT ![n] = <<p, sent[p] + 1>>]
          /\ next' = [next EXCEPT ![n] = Null]
          /\ new' = [new EXCEPT ![p] = n]
    /\ sent' = [sent EXCEPT ![p] = @ + 1]
    /\ Goto(p, "tail")
    /\ UNCHANGED <<head, tail, size, ptr, nxt, other, msg, got, ub>>

ReadTail(p) ==
    /\ p \in Producers /\ pc[p] = "tail"
    /\ ptr' = [ptr EXCEPT ![p] = tail]
    /\ Goto(p, "next")
    /\ UNCHANGED <<list, nxt, other, new, msg, sent, got, ub, reborn>>

ReadNext(t) ==
    /\ Touches(t, "next", ptr[t])
    /\ nxt' = [nxt EXCEPT ![t] = next[ptr[t]]]
    /\ Goto(t, "check")
    /\ UNCHANGED <<list, ptr, other, new, msg, sent, got, ub, reborn>>

CheckTail(p) ==
    /\ p \in Producers /\ pc[p] = "check"
    /\ Goto(p, IF ptr[p] # tail THEN "tail" ELSE IF nxt[p] = Null THEN "link" ELSE "help")
    /\ UNCHANGED <<list, locals, sent, got, ub, reborn>>

LinkBlindly(p) ==                                                   \* mutant
    /\ Touches(p, "link", ptr[p])
    /\ next' = [next EXCEPT ![ptr[p]] = new[p]]
    /\ Goto(p, "size")
    /\ UNCHANGED <<head, tail, size, data, live, locals, sent, got, ub, reborn>>
Link(p) ==
    /\ Touches(p, "link", ptr[p]) /\ next[ptr[p]] = Null
    /\ next' = [next EXCEPT ![ptr[p]] = new[p]]
    /\ Goto(p, "size")
    /\ UNCHANGED <<head, tail, size, data, live, locals, sent, got, ub, reborn>>

LinkGivesUp(p) ==                                                   \* mutant
    /\ Touches(p, "link", ptr[p])
    /\ Goto(p, "idle")
    /\ UNCHANGED <<list, locals, sent, got, ub, reborn>>
LinkFails(p) ==     \* someone was faster, or a weak compare-and-swap failed
    /\ Touches(p, "link", ptr[p])
    /\ Goto(p, "tail")
    /\ UNCHANGED <<list, locals, sent, got, ub, reborn>>

CountUp(p) ==
    /\ pc[p] = "size" /\ p \in Producers
    /\ size' = size + 1
    /\ Goto(p, "store")
    /\ UNCHANGED <<head, tail, data, next, live, locals, sent, got, ub, reborn>>

StoreTail(p) ==
    /\ pc[p] = "store"
    /\ tail' = new[p]
    /\ Goto(p, "idle")
    /\ UNCHANGED <<head, size, data, next, live, locals, sent, got, ub, reborn>>

(* The thread swings the tail for another; the swap may fail.              *)
Swing(t, expected) ==
    /\ pc[t] = "help"
    /\ \/ tail = expected /\ tail' = nxt[t]
       \/ UNCHANGED tail
    /\ UNCHANGED <<head, size, data, next, live, locals, sent, got, ub, reborn>>

HelpEnqueue(p) == p \in Producers /\ Swing(p, ptr[p]) /\ Goto(p, "tail")

-----------------------------------------------------------------------------
(* TryDequeue.                                                             *)
ReadHead(c) ==
    /\ c \in Consumers /\ pc[c] = "idle"
    /\ ptr' = [ptr EXCEPT ![c] = head]
    /\ Goto(c, "last")
    /\ UNCHANGED <<list, nxt, other, new, msg, sent, got, ub, reborn>>

ReadLast(c) ==
    /\ pc[c] = "last"
    /\ other' = [other EXCEPT ![c] = tail]
    /\ Goto(c, "next")
    /\ UNCHANGED <<list, ptr, nxt, new, msg, sent, got, ub, reborn>>

CheckHead(c) ==          \* "idle": another round, or nothing to take
    /\ c \in Consumers /\ pc[c] = "check"
    /\ Goto(c, IF ptr[c] # head THEN "idle"
               ELSE IF ptr[c] # other[c] THEN "copy"
               ELSE IF nxt[c] = Null THEN "idle" ELSE "help")
    /\ UNCHANGED <<list, locals, sent, got, ub, reborn>>

HelpDequeue(c) == c \in Consumers /\ Swing(c, other[c]) /\ Goto(c, "idle")

CopyDummy(c) ==                                                     \* mutant
    /\ Touches(c, "copy", nxt[c])
    /\ msg' = [msg EXCEPT ![c] = data[ptr[c]]]
    /\ Goto(c, "move")
    /\ UNCHANGED <<list, ptr, nxt, other, new, sent, got, ub, reborn>>
Copy(c) ==
    /\ Touches(c, "copy", nxt[c])
    /\ msg' = [msg EXCEPT ![c] = data[nxt[c]]]
    /\ Goto(c, "move")
    /\ UNCHANGED <<list, ptr, nxt, other, new, sent, got, ub, reborn>>

MoveHeadBlindly(c) ==                                               \* mutant
    /\ pc[c] = "move"
    /\ head' = nxt[c]
    /\ got' = [got EXCEPT ![c] = Append(@, msg[c])]
    /\ Goto(c, "delete")
    /\ UNCHANGED <<tail, size, data, next, live, locals, sent, ub, reborn>>
MoveHead(c) ==
    /\ pc[c] = "move" /\ head = ptr[c]
    /\ head' = nxt[c]
    /\ got' = [got EXCEPT ![c] = Append(@, msg[c])]
    /\ Goto(c, "delete")
    /\ UNCHANGED <<tail, size, data, next, live, locals, sent, ub, reborn>>

MoveFails(c) ==
    /\ pc[c] = "move"
    /\ Goto(c, "idle")
    /\ UNCHANGED <<list, locals, sent, got, ub, reborn>>

Delete(c) ==
    /\ Touches(c, "delete", ptr[c])
    /\ live' = live \ {ptr[c]}
    /\ Goto(c, "size")
    /\ UNCHANGED <<head, tail, size, data, next, locals, sent, got, ub, reborn>>

CountDown(c) ==
    /\ pc[c] = "size" /\ c \in Consumers
    /\ size' = size - 1
    /\ Goto(c, "idle")
    /\ UNCHANGED <<head, tail, data, next, live, locals, sent, got, ub, reborn>>

Enqueue(p) ==
    \/ ReadTail(p) \/ ReadNext(p) \/ CheckTail(p) \/ LinkFails(p)
    \/ CountUp(p) \/ StoreTail(p) \/ HelpEnqueue(p) \/ Link(p)

TryDequeue(c) ==
    \/ ReadHead(c) \/ ReadLast(c) \/ ReadNext(c) \/ CheckHead(c) \/ HelpDequeue(c)
    \/ Copy(c) \/ MoveFails(c) \/ Delete(c) \/ CountDown(c) \/ MoveHead(c)

Next ==
    /\ ~ub
    /\ \/ \E p \in Producers : NewNode(p) \/ Enqueue(p)
       \/ \E c \in Consumers : TryDequeue(c)
       \/ \E t \in Threads : Crash(t)

Spec == Init /\ [][Next]_vars

-----------------------------------------------------------------------------
Length == Cardinality(Nodes)

(* The nodes after the dummy, in order.                                    *)
Chain ==
    LET at[i \in 0 .. Length] ==
            IF i = 0 THEN head ELSE IF at[i - 1] = Null THEN Null ELSE next[at[i - 1]]
        last == Cardinality({i \in 1 .. Length : at[i] # Null})
    IN  [i \in 1 .. last |-> at[i]]

Queued == [i \in DOMAIN Chain |-> data[Chain[i]]]

TypeOK ==
    /\ {head, tail} \subseteq Nodes /\ size \in Int
    /\ data \in [Nodes -> Messages \cup {NoMessage}] /\ next \in [Nodes -> Nodes \cup {Null}]
    /\ live \subseteq Nodes
    /\ pc \in [Threads -> {"idle", "tail", "last", "next", "check", "link", "help",
                           "copy", "move", "delete", "size", "store"}]
    /\ ptr \in [Threads -> Nodes \cup {Null}] /\ nxt \in [Threads -> Nodes \cup {Null}]
    /\ other \in [Consumers -> Nodes \cup {Null}] /\ new \in [Producers -> Nodes \cup {Null}]
    /\ msg \in [Consumers -> Messages \cup {NoMessage}]
    /\ sent \in [Producers -> 0 .. MaxMessages] /\ got \in [Consumers -> Seq(Messages)]
    /\ ub \in BOOLEAN /\ reborn \in BOOLEAN

(* The list is the queue of Fifo, whatever the number of threads: nothing  *)
(* is lost, taken twice or out of order, until a deleted node is touched   *)
(* or its address comes back while something still points there.           *)
Abstract == INSTANCE Fifo WITH queue <- Queued
ImplementsFifo == Abstract!Init /\ [][reborn' \/ Abstract!Next]_<<Queued, got>>

(* Every message that has been handed to Enqueue is received, where one    *)
(* consumer polls.                                                         *)
EventuallyReceived ==
    \A p \in Producers : \A n \in 1 .. MaxMessages :
        sent[p] = n ~> \E c \in Consumers : \E i \in DOMAIN got[c] : got[c][i] = <<p, n>>
=============================================================================
