------------------------------- MODULE ConnLife -------------------------------
(***************************************************************************)
(* What the connection pool promises about one object: it is free, then    *)
(* used by one client, then cooling, then free again, in this order; and   *)
(* it becomes free only when no thread refers to it any more.              *)
(***************************************************************************)
CONSTANT Conns
VARIABLES
    status,      \* of each object: not yet created, free, used or cooling
    busy         \* the objects some thread, response or pending event refers to

Init ==
    /\ status \in [Conns -> {"none", "free", "used"}]
    /\ busy = {}

(* A client gets one of the free objects; S are objects created for it.    *)
Open(S, c) ==
    /\ \A d \in S : status[d] = "none"
    /\ status[c] = "free" \/ c \in S
    /\ status' = [d \in Conns |-> IF d = c THEN "used"
                                  ELSE IF d \in S THEN "free" ELSE status[d]]
    /\ UNCHANGED busy

Create(S) ==
    /\ \A d \in S : status[d] = "none"
    /\ status' = [d \in Conns |-> IF d \in S THEN "free" ELSE status[d]]
    /\ UNCHANGED busy

(* Threads begin to refer to objects that are not free.                    *)
Begin(S) ==
    /\ \A c \in S : status[c] \in {"used", "cooling"}
    /\ busy' = busy \cup S
    /\ UNCHANGED status

End(c) == busy' = busy \ {c} /\ UNCHANGED status

(* A thread closes the connection, and may let go of it in the same step.  *)
Retire(c) ==
    /\ status[c] = "used" /\ c \in busy
    /\ status' = [status EXCEPT ![c] = "cooling"]
    /\ busy' \in {busy, busy \ {c}}

Recycle(c) ==
    /\ status[c] = "cooling" /\ c \notin busy
    /\ status' = [status EXCEPT ![c] = "free"]
    /\ UNCHANGED busy

Next ==
    \/ \E S \in SUBSET Conns : Create(S) \/ Begin(S) \/ \E c \in Conns : Open(S, c)
    \/ \E c \in Conns : End(c) \/ Retire(c) \/ Recycle(c)

Spec == Init /\ [][Next]_<<status, busy>>
=============================================================================
