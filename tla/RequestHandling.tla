---------------------------- MODULE RequestHandling ----------------------------
(***************************************************************************)
(* What becomes of a parsed request (src/logic/my_slogic.cpp, onRequest    *)
(* and handleRequest): the middlewares' before in order, the router        *)
(* (src/route), the handler, the middlewares' after in reverse order, and  *)
(* the response that is sent whatever any of them threw.                   *)
(*                                                                         *)
(* Routes and middlewares are registered before the workers are forked and *)
(* never changed afterwards, and a request is handled by one thread with   *)
(* objects of its own: handling one at a time is all there is.  A pattern  *)
(* is the set of paths its regular expression matches.  Handlers and       *)
(* middlewares are the application's: each may throw at every call.        *)
(***************************************************************************)
EXTENDS Integers, Sequences, SequencesExt, FiniteSetsExt

CONSTANTS
    Methods,     \* HttpRequest::Method
    Paths,       \* paths of requests
    Patterns,    \* sets of paths: what registered patterns match
    ChainLength, \* number of middlewares
    MaxRoutes    \* bound: registrations

HandlingAssumption ==
    /\ Patterns \subseteq SUBSET Paths
    /\ ChainLength \in Nat /\ MaxRoutes \in Nat

VARIABLES
    handlers, callbacks,            \* exact: method and path to route
    regexHandlers, regexCallbacks,  \* patterns, in the order of registration
    registered,  \* ghost: all registrations, in order; a route is its place here
    stage,       \* what the thread does next
    method, path,                   \* the request
    begun,       \* ghost: middlewares whose before has passed
    ended,       \* ghost: middlewares whose after has been called
    status,      \* statusCode_ of the response
    served,      \* ghost: the route whose handler was called, 0 if none
    thrown       \* ghost: what before or the handler threw

tables == <<handlers, callbacks, regexHandlers, regexCallbacks, registered>>
request == <<method, path>>
vars == <<tables, stage, request, begun, ended, status, served, thrown>>

NoRoute == 0
Keys == Methods \X Paths
Key == <<method, path>>

Init ==
    /\ handlers = [k \in Keys |-> NoRoute] /\ callbacks = [k \in Keys |-> NoRoute]
    /\ regexHandlers = <<>> /\ regexCallbacks = <<>> /\ registered = <<>>
    /\ stage = "setup"
    /\ method \in Methods /\ path \in Paths
    /\ begun = <<>> /\ ended = <<>>
    /\ status = "unknown" /\ served = NoRoute /\ thrown = "nothing"

-----------------------------------------------------------------------------
(* Registration.                                                           *)
Route == Len(registered) + 1

Log(kind, m, matches) ==
    /\ stage = "setup" /\ Len(registered) < MaxRoutes
    /\ registered' = Append(registered, [kind |-> kind, method |-> m, matches |-> matches])
    /\ UNCHANGED <<stage, request, begun, ended, status, served, thrown>>

registerHandler(m, p) ==
    /\ Log("handler", m, {p})
    /\ handlers' = [handlers EXCEPT ![<<m, p>>] = Route]
    /\ UNCHANGED <<callbacks, regexHandlers, regexCallbacks>>

registerCallback(m, p) ==
    /\ Log("callback", m, {p})
    /\ callbacks' = [callbacks EXCEPT ![<<m, p>>] = Route]
    /\ UNCHANGED <<handlers, regexHandlers, regexCallbacks>>

Entry(m, matches) == [method |-> m, matches |-> matches, route |-> Route]

addRegexHandler(m, matches) ==
    /\ Log("regexHandler", m, matches)
    /\ regexHandlers' = Append(regexHandlers, Entry(m, matches))
    /\ UNCHANGED <<handlers, callbacks, regexCallbacks>>

addRegexCallback(m, matches) ==
    /\ Log("regexCallback", m, matches)
    /\ regexCallbacks' = Append(regexCallbacks, Entry(m, matches))
    /\ UNCHANGED <<handlers, callbacks, regexHandlers>>

-----------------------------------------------------------------------------
(* Router::route: the tables one after the other.                          *)
Matches(e) == e.method = method /\ path \in e.matches

LastMatch(list) ==                                                  \* mutant
    Max({list[i].route : i \in {j \in DOMAIN list : Matches(list[j])}} \cup {NoRoute})
FirstMatch(list) ==
    LET matching == {i \in DOMAIN list : Matches(list[i])}
    IN  IF matching = {} THEN NoRoute ELSE list[Min(matching)].route

Found ==
    IF handlers[Key] # NoRoute THEN handlers[Key]
    ELSE IF callbacks[Key] # NoRoute THEN callbacks[Key]
    ELSE IF FirstMatch(regexHandlers) # NoRoute THEN FirstMatch(regexHandlers)
    ELSE FirstMatch(regexCallbacks)

-----------------------------------------------------------------------------
(* A request comes: onRequest makes a response without a status.           *)
OnRequest(m, p) ==
    /\ stage \in {"setup", "sent"}
    /\ stage' = "before" /\ method' = m /\ path' = p
    /\ begun' = <<>> /\ ended' = <<>>
    /\ status' = "unknown" /\ served' = NoRoute /\ thrown' = "nothing"
    /\ UNCHANGED tables

(* The two catch clauses of handleRequest: a middleware's or a handler's   *)
(* HttpException carries the status, any other exception is a 500.  after  *)
(* is called for nobody.                                                   *)
Caught(e) == thrown' = e /\ status' = e /\ stage' = "send"
Throws == \E e \in {"refused", "internal"} : Caught(e)

(* processBefore, one middleware.                                          *)
Before ==
    /\ stage = "before" /\ Len(begun) < ChainLength
    /\ \/ begun' = Append(begun, Len(begun) + 1) /\ UNCHANGED <<stage, status, thrown>>
       \/ Throws /\ UNCHANGED begun
    /\ UNCHANGED <<tables, request, ended, served>>

(* The handler sets the status, or throws.                                 *)
Handle ==
    /\ stage = "before" /\ Len(begun) = ChainLength /\ Found # NoRoute
    /\ served' = Found
    /\ \/ status' = "handled" /\ stage' = "after" /\ UNCHANGED thrown
       \/ Throws
    /\ UNCHANGED <<tables, request, begun, ended>>

NotFound ==
    /\ stage = "before" /\ Len(begun) = ChainLength /\ Found = NoRoute
    /\ status' = "notFound" /\ stage' = "after"
    /\ UNCHANGED <<tables, request, begun, ended, served, thrown>>

(* processAfter, one middleware; what it throws is caught there, and ends  *)
(* the loop.                                                               *)
NextInOrder == Len(ended) + 1                                       \* mutant
NextAfter == ChainLength - Len(ended)

After ==
    /\ stage = "after" /\ Len(ended) < ChainLength
    /\ ended' = Append(ended, NextAfter)
    /\ stage' \in {"after", "send"}
    /\ UNCHANGED <<tables, request, begun, status, served, thrown>>

AfterDone ==
    /\ stage = "after" /\ Len(ended) = ChainLength
    /\ stage' = "send"
    /\ UNCHANGED <<tables, request, begun, ended, status, served, thrown>>

(* appendToBuffer and msgSend, outside the try.                            *)
Send ==
    /\ stage = "send"
    /\ stage' = "sent"
    /\ UNCHANGED <<tables, request, begun, ended, status, served, thrown>>

Setup ==
    \E m \in Methods :
        \/ \E p \in Paths : registerHandler(m, p) \/ registerCallback(m, p)
        \/ \E s \in Patterns : addRegexHandler(m, s) \/ addRegexCallback(m, s)

Next ==
    \/ Setup
    \/ \E m \in Methods, p \in Paths : OnRequest(m, p)
    \/ Before \/ Handle \/ NotFound \/ After \/ AfterDone \/ Send

Spec == Init /\ [][Next]_vars

-----------------------------------------------------------------------------
Routes == NoRoute .. MaxRoutes

TypeOK ==
    /\ handlers \in [Keys -> Routes] /\ callbacks \in [Keys -> Routes]
    /\ regexHandlers \in Seq([method : Methods, matches : Patterns, route : Routes])
    /\ regexCallbacks \in Seq([method : Methods, matches : Patterns, route : Routes])
    /\ stage \in {"setup", "before", "after", "send", "sent"}
    /\ method \in Methods /\ path \in Paths
    /\ begun \in Seq(1 .. ChainLength) /\ ended \in Seq(1 .. ChainLength)
    /\ status \in {"unknown", "refused", "internal", "handled", "notFound"}
    /\ served \in Routes /\ thrown \in {"nothing", "refused", "internal"}

(* The registrations that fit the request, by kind.                        *)
Fitting(kind) ==
    {i \in DOMAIN registered : registered[i].kind = kind /\ Matches(registered[i])}

(* README_router.md, and whatever the order of registration: exact before  *)
(* patterns, handlers before callbacks; of exact routes the last one, of   *)
(* patterns the first.                                                     *)
Expected ==
    IF Fitting("handler") # {} THEN Max(Fitting("handler"))
    ELSE IF Fitting("callback") # {} THEN Max(Fitting("callback"))
    ELSE IF Fitting("regexHandler") # {} THEN Min(Fitting("regexHandler"))
    ELSE IF Fitting("regexCallback") # {} THEN Min(Fitting("regexCallback"))
    ELSE NoRoute

(* A request is served by the route expected, and by none only if nothing  *)
(* fits it; a request that a middleware refused reaches no handler.        *)
ServedByPriority ==
    /\ served # NoRoute => served = Expected /\ Len(begun) = ChainLength
    /\ status = "notFound" => Expected = NoRoute

(* after is called for middlewares whose before has passed, in reverse     *)
(* order, and for none when before or the handler threw; the client is     *)
(* told what was thrown.                                                   *)
AfterMirrorsBefore ==
    /\ IsPrefix(ended, Reverse(begun))
    /\ thrown # "nothing" => ended = <<>> /\ status = thrown
    /\ stage \in {"send", "sent"} => status # "unknown"
=============================================================================
