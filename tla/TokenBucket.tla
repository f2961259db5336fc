----------------------------- MODULE TokenBucket ------------------------------
(***************************************************************************)
(* The rate limiter in front of every handler                              *)
(* (src/middleware/Rate_Limiting_Algorithm): RateLimiterMiddleware::before *)
(* calls TokenBucket::try_consume, which refills and takes a token under   *)
(* one lock; the request goes on or is answered with 429.                  *)
(*                                                                         *)
(* The code counts tokens in a double.  Here a token is Unit parts, and    *)
(* Rate parts arrive in each step of the clock, so a fraction of a token   *)
(* is a fraction here too.                                                 *)
(***************************************************************************)
EXTENDS Integers, FiniteSetsExt

CONSTANTS
    Capacity,    \* capacity_, in tokens
    Unit,        \* parts of a token
    Rate,        \* fill_rate_, in parts per step of the clock
    MaxClock     \* bound: time

BucketAssumption ==
    /\ Capacity \in Nat \ {0} /\ Unit \in Nat \ {0} /\ Rate \in Nat
    /\ MaxClock \in Nat

VARIABLES
    tokens,      \* tokens_, in parts
    last_time,   \* last_time_
    now,         \* the steady clock
    admitted     \* ghost: requests let through until each time, and at it

vars == <<tokens, last_time, now, admitted>>

Full == Capacity * Unit
Times == 0 .. MaxClock

Init ==
    /\ tokens = Full /\ last_time = 0
    /\ now = 0 /\ admitted = [t \in Times |-> 0]

-----------------------------------------------------------------------------
NotAbove(n) == Min({Full, n})

RefilledWithoutLimit == tokens + Rate * (now - last_time)           \* mutant
(* refill_tokens.                                                          *)
Refilled == NotAbove(tokens + Rate * (now - last_time))

(* try_consume(1): refilled in either case.                                *)
Admit ==
    /\ Refilled >= Unit
    /\ tokens' = Refilled - Unit /\ last_time' = now
    /\ admitted' = [admitted EXCEPT ![now] = @ + 1]
    /\ UNCHANGED now

Refuse ==
    /\ Refilled < Unit
    /\ tokens' = Refilled /\ last_time' = now
    /\ UNCHANGED <<now, admitted>>

Tick ==
    /\ now < MaxClock
    /\ now' = now + 1
    /\ admitted' = [admitted EXCEPT ![now + 1] = admitted[now]]
    /\ UNCHANGED <<tokens, last_time>>

Next == Admit \/ Refuse \/ Tick

Spec == Init /\ [][Next]_vars

-----------------------------------------------------------------------------
TypeOK ==
    /\ tokens \in 0 .. Full /\ now \in Times /\ last_time \in 0 .. now
    /\ admitted \in [Times -> Nat]

Before(t) == IF t = 0 THEN 0 ELSE admitted[t - 1]
Admitted(from, to) == admitted[to] - Before(from)

(* In no period, wherever it begins and ends, are more requests let        *)
(* through than the burst and the rate allow.                              *)
NeverOverRate ==
    \A from \in 0 .. now : \A to \in from .. now :
        Unit * Admitted(from, to) <= Full + Rate * (to - from)
=============================================================================
