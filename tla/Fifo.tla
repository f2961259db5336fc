--------------------------------- MODULE Fifo ---------------------------------
(***************************************************************************)
(* What the two message queues promise: messages come out in the order in  *)
(* which they went in, each of them once and to one consumer.              *)
(***************************************************************************)
EXTENDS Sequences

CONSTANTS Messages, Consumers

VARIABLES
    queue,      \* the messages in the queue
    got         \* what each consumer has been given

Init == queue = <<>> /\ got = [c \in Consumers |-> <<>>]

Put(m) == queue' = Append(queue, m) /\ UNCHANGED got

Take(c) ==
    /\ queue # <<>>
    /\ queue' = Tail(queue)
    /\ got' = [got EXCEPT ![c] = Append(@, Head(queue))]

Next == (\E m \in Messages : Put(m)) \/ (\E c \in Consumers : Take(c))

Spec == Init /\ [][Next]_<<queue, got>>
=============================================================================
