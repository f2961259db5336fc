-------------------------- MODULE RequestPartsProofs ---------------------------
(***************************************************************************)
(* Proofs about the parts of ServerParts a request passes through, for all *)
(* values of their constants: the HTTP parser, the router, the middleware  *)
(* chain, the rate limiter and the sessions.  A step of another part       *)
(* changes none of their variables.                                        *)
(***************************************************************************)
EXTENDS ServerPartsProofs

-----------------------------------------------------------------------------
(* The middleware chain.                                                   *)
LEMMA HandlingConstants ==
    ChainLength \in Nat /\ Requests!HandlingAssumption
BY PartsAssumption DEF PartsAssumption, Requests!HandlingAssumption

ChainTypes ==
    /\ begun \in Seq(Nat) /\ ended \in Seq(Int)
    /\ Len(begun) <= ChainLength /\ Len(ended) <= ChainLength
    /\ stage \in {"setup", "before", "after", "send", "sent"}
    /\ thrown \in {"nothing", "refused", "internal"}

(* The chain is walked down by before and up by after, and after begins    *)
(* only when before has come to the end.                                   *)
Walked ==
    /\ \A i \in 1 .. Len(begun) : begun[i] = i
    /\ \A i \in 1 .. Len(ended) : ended[i] = ChainLength + 1 - i
    /\ Len(ended) > 0 => Len(begun) = ChainLength

(* What each stage knows.                                                  *)
Stages ==
    /\ stage \in {"setup", "before"} => Len(ended) = 0 /\ thrown = "nothing"
    /\ stage = "after" => Len(begun) = ChainLength /\ thrown = "nothing" /\ answer # "unknown"
    /\ stage \in {"send", "sent"} => answer # "unknown"
    /\ thrown # "nothing" => Len(ended) = 0 /\ answer = thrown

ChainInv == ChainTypes /\ Walked /\ Stages

LEMMA ChainMeans == ASSUME ChainInv PROVE AfterMirrorsBefore
<1> USE HandlingConstants
<1>1. Len(begun) \in Nat /\ Len(ended) \in Nat /\ begun \in Seq(Nat) /\ ended \in Seq(Int)
  BY DEF ChainInv, ChainTypes
<1> DEFINE R == Requests!Reverse(begun)
<1>2. R = [i \in 1 .. Len(begun) |-> begun[(Len(begun) - i) + 1]]
  BY DEF Requests!Reverse
<1>3. R \in Seq(Nat) /\ Len(R) = Len(begun)
      /\ \A i \in 1 .. Len(begun) : R[i] = Len(begun) + 1 - i
  BY <1>1, <1>2, SMTT(30) DEF ChainInv, Walked
<1>4. Len(ended) <= Len(R)
  BY <1>1, <1>3 DEF ChainInv, ChainTypes, Walked
<1>5. SubSeq(ended, 1, Len(ended)) = SubSeq(R, 1, Len(ended))
  <2> HIDE DEF R
  <2>1. \A i \in 1 .. Len(ended) : ended[i] = R[i]
    <3> TAKE i \in 1 .. Len(ended)
    <3>1. Len(begun) = ChainLength /\ ended[i] = ChainLength + 1 - i
      BY <1>1 DEF ChainInv, Walked
    <3>2. i \in 1 .. Len(begun)
      BY <1>1, <1>3, <1>4
    <3>3. R[i] = Len(begun) + 1 - i
      BY <1>3, <3>2
    <3> QED BY <3>1, <3>3
  <2> QED BY <1>1, <1>3, <1>4, <2>1
<1>6. Requests!IsPrefix(ended, R)
  BY <1>4, <1>5 DEF Requests!IsPrefix
<1>7. thrown # "nothing" => ended = <<>>
  BY <1>1 DEF ChainInv, Stages
<1> QED
  BY <1>6, <1>7 DEF AfterMirrorsBefore, Requests!AfterMirrorsBefore, ChainInv, Stages

LEMMA ChainInit == Init => ChainInv
<1> SUFFICES ASSUME Init PROVE ChainInv
  OBVIOUS
<1>1. begun = <<>> /\ ended = <<>> /\ stage = "setup" /\ answer = "unknown" /\ thrown = "nothing"
  BY DEF Init, Requests!Init
<1> QED
  BY <1>1, HandlingConstants DEF ChainInv, ChainTypes, Walked, Stages

LEMMA ChainNext == ASSUME ChainInv, [Next]_vars PROVE ChainInv'
<1> USE HandlingConstants
<1>0. CASE UNCHANGED requestVars
  BY <1>0 DEF requestVars, ChainInv, ChainTypes, Walked, Stages
<1>1. CASE Requests!Setup
  <2>1. UNCHANGED <<stage, begun, ended, answer, thrown>>
    BY <1>1 DEF Requests!Setup, Requests!registerHandler, Requests!registerCallback,
                Requests!addRegexHandler, Requests!addRegexCallback, Requests!Log
  <2> QED BY <2>1 DEF ChainInv, ChainTypes, Walked, Stages
<1>2. CASE \E m \in Methods, x \in Paths : Requests!OnRequest(m, x)
  <2>1. /\ stage' = "before" /\ begun' = <<>> /\ ended' = <<>>
        /\ answer' = "unknown" /\ thrown' = "nothing"
    BY <1>2 DEF Requests!OnRequest
  <2> QED BY <2>1 DEF ChainInv, ChainTypes, Walked, Stages
<1>3. CASE Requests!Before
  <2>1. stage = "before" /\ Len(begun) < ChainLength /\ UNCHANGED ended
    BY <1>3 DEF Requests!Before
  <2>2. CASE begun' = Append(begun, Len(begun) + 1) /\ UNCHANGED <<stage, answer, thrown>>
    <3>1. /\ begun' \in Seq(Nat) /\ Len(begun') = Len(begun) + 1
          /\ \A i \in 1 .. Len(begun') : begun'[i] = i
      BY <2>2 DEF ChainInv, ChainTypes, Walked
    <3> QED BY <2>1, <2>2, <3>1 DEF ChainInv, ChainTypes, Walked, Stages
  <2>3. CASE Requests!Throws /\ UNCHANGED begun
    BY <2>1, <2>3 DEF Requests!Throws, Requests!Caught, ChainInv, ChainTypes, Walked, Stages
  <2> QED BY <1>3, <2>2, <2>3 DEF Requests!Before
<1>4. CASE Requests!Handle
  <2>1. stage = "before" /\ Len(begun) = ChainLength /\ UNCHANGED <<begun, ended>>
    BY <1>4 DEF Requests!Handle
  <2>2. CASE answer' = "handled" /\ stage' = "after" /\ UNCHANGED thrown
    BY <2>1, <2>2 DEF ChainInv, ChainTypes, Walked, Stages
  <2>3. CASE Requests!Throws
    BY <2>1, <2>3 DEF Requests!Throws, Requests!Caught, ChainInv, ChainTypes, Walked, Stages
  <2> QED BY <1>4, <2>2, <2>3 DEF Requests!Handle
<1>5. CASE Requests!NotFound
  BY <1>5 DEF Requests!NotFound, ChainInv, ChainTypes, Walked, Stages
<1>6. CASE Requests!After
  <2>1. /\ stage = "after" /\ Len(ended) < ChainLength
        /\ ended' = Append(ended, ChainLength - Len(ended)) /\ stage' \in {"after", "send"}
        /\ UNCHANGED <<begun, answer, thrown>>
    BY <1>6 DEF Requests!After, Requests!NextAfter
  <2>2. /\ ended' \in Seq(Int) /\ Len(ended') = Len(ended) + 1
        /\ \A i \in 1 .. Len(ended') : ended'[i] = ChainLength + 1 - i
    BY <2>1 DEF ChainInv, ChainTypes, Walked
  <2> QED BY <2>1, <2>2 DEF ChainInv, ChainTypes, Walked, Stages
<1>7. CASE Requests!AfterDone \/ Requests!Send
  BY <1>7 DEF Requests!AfterDone, Requests!Send, ChainInv, ChainTypes, Walked, Stages
<1> QED
  BY PartSteps, <1>0, <1>1, <1>2, <1>3, <1>4, <1>5, <1>6, <1>7 DEF Requests!Next

(* middlewareChain.cpp: after is called in the reverse order of before,    *)
(* only when every before has passed and the handler has not thrown; the   *)
(* client is told what was thrown; a response always has a status.         *)
THEOREM MiddlewareMirrored == Spec => []AfterMirrorsBefore
<1>1. Spec => []ChainInv
  BY ChainInit, ChainNext, PTL DEF Spec
<1> QED BY <1>1, ChainMeans, PTL

-----------------------------------------------------------------------------
(* The router: what its tables hold is what was registered.                *)
RouteKinds == {"handler", "callback", "regexHandler", "regexCallback"}
Registrations == [kind : RouteKinds, method : Methods, matches : SUBSET Paths]
Entries == [method : Methods, matches : SUBSET Paths, route : Nat]

Fits(r, knd, m, x) == r.kind = knd /\ r.method = m /\ x \in r.matches

(* An exact table holds the last registration of each method and path.     *)
HoldsLast(table, regs, knd) ==
    /\ table \in [Requests!Keys -> Nat]
    /\ \A m \in Methods, x \in Paths :
          /\ table[<<m, x>>] # 0 =>
                table[<<m, x>>] \in 1 .. Len(regs) /\ Fits(regs[table[<<m, x>>]], knd, m, x)
          /\ \A r \in 1 .. Len(regs) : Fits(regs[r], knd, m, x) => r <= table[<<m, x>>]

(* A list of patterns holds every registration of its kind, in order.      *)
HoldsAll(list, regs, knd) ==
    /\ list \in Seq(Entries)
    /\ \A i \in 1 .. Len(list) :
          /\ list[i].route \in 1 .. Len(regs)
          /\ regs[list[i].route] =
                [kind |-> knd, method |-> list[i].method, matches |-> list[i].matches]
    /\ \A i, j \in 1 .. Len(list) : i < j => list[i].route < list[j].route
    /\ \A r \in 1 .. Len(regs) :
          regs[r].kind = knd => \E i \in 1 .. Len(list) : list[i].route = r

LEMMA TableAnotherKind ==
    ASSUME NEW table, NEW regs \in Seq(Registrations), NEW knd, HoldsLast(table, regs, knd),
           NEW e \in Registrations, e.kind # knd
    PROVE  HoldsLast(table, Append(regs, e), knd)
<1>1. /\ Len(Append(regs, e)) = Len(regs) + 1 /\ Len(regs) \in Nat
      /\ \A r \in 1 .. Len(regs) : Append(regs, e)[r] = regs[r]
      /\ Append(regs, e)[Len(regs) + 1] = e
  OBVIOUS
<1>2. ASSUME NEW m \in Methods, NEW x \in Paths
      PROVE  /\ table[<<m, x>>] # 0 =>
                   /\ table[<<m, x>>] \in 1 .. Len(Append(regs, e))
                   /\ Fits(Append(regs, e)[table[<<m, x>>]], knd, m, x)
             /\ \A r \in 1 .. Len(Append(regs, e)) :
                   Fits(Append(regs, e)[r], knd, m, x) => r <= table[<<m, x>>]
  <2>1. ~Fits(e, knd, m, x)
    BY DEF Fits
  <2>2. \A r \in 1 .. Len(Append(regs, e)) : r \in 1 .. Len(regs) \/ r = Len(regs) + 1
    BY <1>1
  <2>3. table[<<m, x>>] # 0 =>
           table[<<m, x>>] \in 1 .. Len(regs) /\ Fits(regs[table[<<m, x>>]], knd, m, x)
    BY DEF HoldsLast
  <2>4. \A r \in 1 .. Len(regs) : Fits(regs[r], knd, m, x) => r <= table[<<m, x>>]
    BY DEF HoldsLast
  <2> QED BY <1>1, <2>1, <2>2, <2>3, <2>4
<1>3. table \in [Requests!Keys -> Nat]
  BY DEF HoldsLast
<1> QED
  BY <1>2, <1>3 DEF HoldsLast

LEMMA TableRegisters ==
    ASSUME NEW table, NEW regs \in Seq(Registrations), NEW knd, HoldsLast(table, regs, knd),
           NEW m \in Methods, NEW x \in Paths, NEW e \in Registrations,
           e.kind = knd, e.method = m, e.matches = {x}
    PROVE  HoldsLast([table EXCEPT ![<<m, x>>] = Len(regs) + 1], Append(regs, e), knd)
<1> DEFINE new_ == [table EXCEPT ![<<m, x>>] = Len(regs) + 1]
<1>1. /\ Len(Append(regs, e)) = Len(regs) + 1 /\ Len(regs) \in Nat
      /\ \A r \in 1 .. Len(regs) : Append(regs, e)[r] = regs[r]
      /\ Append(regs, e)[Len(regs) + 1] = e
  OBVIOUS
<1>2. new_ \in [Requests!Keys -> Nat]
  <2>1. table \in [Requests!Keys -> Nat] /\ Len(regs) + 1 \in Nat
    BY <1>1 DEF HoldsLast
  <2> QED BY <2>1
<1>3. \A n \in Methods, y \in Paths :
         /\ new_[<<n, y>>] = IF n = m /\ y = x THEN Len(regs) + 1 ELSE table[<<n, y>>]
         /\ <<n, y>> \in Requests!Keys /\ table[<<n, y>>] \in Nat
  BY <1>1 DEF HoldsLast, Requests!Keys
<1>4. ASSUME NEW n \in Methods, NEW y \in Paths
      PROVE  /\ new_[<<n, y>>] # 0 =>
                   /\ new_[<<n, y>>] \in 1 .. Len(Append(regs, e))
                   /\ Fits(Append(regs, e)[new_[<<n, y>>]], knd, n, y)
             /\ \A r \in 1 .. Len(Append(regs, e)) :
                   Fits(Append(regs, e)[r], knd, n, y) => r <= new_[<<n, y>>]
  <2> HIDE DEF new_
  <2>1. CASE n = m /\ y = x
    BY <1>1, <1>3, <2>1 DEF Fits
  <2>2. CASE ~(n = m /\ y = x)
    <3>1. new_[<<n, y>>] = table[<<n, y>>] /\ table[<<n, y>>] \in Nat
      BY <1>3, <2>2
    <3>2. ~Fits(e, knd, n, y)
      BY <2>2 DEF Fits
    <3> QED BY <1>1, <3>1, <3>2 DEF HoldsLast
  <2> QED BY <2>1, <2>2
<1> QED
  BY <1>2, <1>4 DEF HoldsLast

LEMMA ListAnotherKind ==
    ASSUME NEW list, NEW regs \in Seq(Registrations), NEW knd, HoldsAll(list, regs, knd),
           NEW e \in Registrations, e.kind # knd
    PROVE  HoldsAll(list, Append(regs, e), knd)
<1>1. /\ Len(Append(regs, e)) = Len(regs) + 1 /\ Len(regs) \in Nat
      /\ \A r \in 1 .. Len(regs) : Append(regs, e)[r] = regs[r]
      /\ Append(regs, e)[Len(regs) + 1] = e
  OBVIOUS
<1> QED
  BY <1>1 DEF HoldsAll

LEMMA ListRegisters ==
    ASSUME NEW list, NEW regs \in Seq(Registrations), NEW knd, HoldsAll(list, regs, knd),
           NEW m \in Methods, NEW fit \in SUBSET Paths, NEW e \in Registrations,
           e = [kind |-> knd, method |-> m, matches |-> fit]
    PROVE  HoldsAll(Append(list, [method |-> m, matches |-> fit, route |-> Len(regs) + 1]),
                    Append(regs, e), knd)
<1> DEFINE entry == [method |-> m, matches |-> fit, route |-> Len(regs) + 1]
           longer == Append(list, entry)
<1>1. /\ Len(Append(regs, e)) = Len(regs) + 1 /\ Len(regs) \in Nat
      /\ \A r \in 1 .. Len(regs) : Append(regs, e)[r] = regs[r]
      /\ Append(regs, e)[Len(regs) + 1] = e
  OBVIOUS
<1>2. list \in Seq(Entries) /\ entry \in Entries
  BY <1>1 DEF HoldsAll, Entries
<1>3. /\ longer \in Seq(Entries) /\ Len(longer) = Len(list) + 1 /\ Len(list) \in Nat
      /\ \A i \in 1 .. Len(list) : longer[i] = list[i]
      /\ longer[Len(list) + 1] = entry
  BY <1>2
<1>4. entry.route = Len(regs) + 1 /\ entry.method = m /\ entry.matches = fit
  OBVIOUS
<1> HIDE DEF entry, longer
<1>5. \A i \in 1 .. Len(longer) : i \in 1 .. Len(list) \/ i = Len(list) + 1
  BY <1>3
<1>6. ASSUME NEW i \in 1 .. Len(longer)
      PROVE  /\ longer[i].route \in 1 .. Len(Append(regs, e))
             /\ Append(regs, e)[longer[i].route] =
                   [kind |-> knd, method |-> longer[i].method, matches |-> longer[i].matches]
  <2>1. CASE i \in 1 .. Len(list)
    <3>1. longer[i] = list[i] /\ list[i].route \in 1 .. Len(regs)
          /\ regs[list[i].route]
                = [kind |-> knd, method |-> list[i].method, matches |-> list[i].matches]
      BY <1>3, <2>1 DEF HoldsAll
    <3> QED BY <1>1, <3>1
  <2>2. CASE i = Len(list) + 1
    BY <1>1, <1>3, <1>4, <2>2
  <2> QED BY <1>5, <2>1, <2>2
<1>7. ASSUME NEW i \in 1 .. Len(longer), NEW j \in 1 .. Len(longer), i < j
      PROVE  longer[i].route < longer[j].route
  <2>1. i \in 1 .. Len(list) /\ longer[i] = list[i] /\ list[i].route \in 1 .. Len(regs)
    <3>1. i \in 1 .. Len(list)
      BY <1>3, <1>7
    <3> QED BY <1>3, <3>1 DEF HoldsAll
  <2>2. CASE j \in 1 .. Len(list)
    BY <1>3, <1>7, <2>1, <2>2 DEF HoldsAll
  <2>3. CASE j = Len(list) + 1
    BY <1>1, <1>3, <1>4, <2>1, <2>3
  <2> QED BY <1>5, <2>2, <2>3
<1>8. ASSUME NEW r \in 1 .. Len(Append(regs, e)), Append(regs, e)[r].kind = knd
      PROVE  \E i \in 1 .. Len(longer) : longer[i].route = r
  <2>1. CASE r \in 1 .. Len(regs)
    <3>1. PICK i \in 1 .. Len(list) : list[i].route = r
      BY <1>1, <1>8, <2>1 DEF HoldsAll
    <3> QED BY <1>3, <3>1
  <2>2. CASE r = Len(regs) + 1
    BY <1>3, <1>4, <2>2
  <2> QED BY <1>1, <2>1, <2>2
<1>9. HoldsAll(longer, Append(regs, e), knd)
  BY <1>3, <1>6, <1>7, <1>8 DEF HoldsAll
<1> QED BY <1>9 DEF longer, entry

(* Of the exact registrations that fit the last one is found, ...          *)
LEMMA LatestFound ==
    ASSUME NEW table, NEW knd, HoldsLast(table, registered, knd),
           registered \in Seq(Registrations), method \in Methods, path \in Paths
    PROVE  /\ Requests!Fitting(knd) # {} =>
                 table[Requests!Key] # 0 /\ table[Requests!Key] = Requests!Max(Requests!Fitting(knd))
           /\ Requests!Fitting(knd) = {} => table[Requests!Key] = 0
<1> DEFINE F == Requests!Fitting(knd)
           t == table[<<method, path>>]
<1>1. F = {i \in 1 .. Len(registered) : Fits(registered[i], knd, method, path)}
  BY DEF Requests!Fitting, Requests!Matches, Fits
<1>2. t \in Nat /\ Requests!Key = <<method, path>>
  BY DEF HoldsLast, Requests!Keys, Requests!Key
<1>3. t # 0 => t \in F
  BY <1>1 DEF HoldsLast
<1>4. \A r \in F : r \in 1 .. Len(registered) /\ r <= t
  BY <1>1 DEF HoldsLast
<1>5. Len(registered) \in Nat
  OBVIOUS
<1> HIDE DEF F, t
<1>6. F = {} => t = 0
  BY <1>3
<1>7. ASSUME F # {}
      PROVE  t # 0 /\ t = Requests!Max(F)
  <2>1. t # 0
    BY <1>2, <1>4, <1>5, <1>7
  <2>2. t \in F /\ \A y \in F : t >= y
    BY <1>2, <1>3, <1>4, <1>5, <2>1
  <2>3. Requests!Max(F) \in F /\ \A y \in F : Requests!Max(F) >= y
    BY <2>2 DEF Requests!Max
  <2> DEFINE f == Requests!Max(F)
  <2>4. f \in F /\ t >= f /\ f >= t
    BY <2>2, <2>3
  <2> HIDE DEF f
  <2>5. f \in 1 .. Len(registered)
    BY <1>4, <2>4
  <2>6. t = f
    BY <1>2, <1>5, <2>4, <2>5
  <2> QED BY <2>1, <2>6 DEF f
<1> QED BY <1>2, <1>6, <1>7 DEF F, t

(* ... of the patterns that fit the first one.                             *)
LEMMA FirstFound ==
    ASSUME NEW list, NEW knd, HoldsAll(list, registered, knd),
           registered \in Seq(Registrations)
    PROVE  /\ Requests!Fitting(knd) # {} =>
                 /\ Requests!FirstMatch(list) # 0
                 /\ Requests!FirstMatch(list) = Requests!Min(Requests!Fitting(knd))
           /\ Requests!Fitting(knd) = {} => Requests!FirstMatch(list) = 0
<1> DEFINE F == Requests!Fitting(knd)
           G == {i \in 1 .. Len(list) : Requests!Matches(list[i])}
<1>1. F = {r \in 1 .. Len(registered) :
              registered[r].kind = knd /\ Requests!Matches(registered[r])}
  BY DEF Requests!Fitting
<1>2. Len(list) \in Nat /\ DOMAIN list = 1 .. Len(list) /\ Len(registered) \in Nat
  BY DEF HoldsAll
<1>3. Requests!FirstMatch(list) = IF G = {} THEN 0 ELSE list[Requests!Min(G)].route
  BY <1>2 DEF Requests!FirstMatch, Requests!NoRoute
<1>4. \A i \in 1 .. Len(list) : list[i].route \in F <=> i \in G
  <2> TAKE i \in 1 .. Len(list)
  <2>1. list[i].route \in 1 .. Len(registered)
        /\ registered[list[i].route]
              = [kind |-> knd, method |-> list[i].method, matches |-> list[i].matches]
    BY DEF HoldsAll
  <2>2. /\ registered[list[i].route].kind = knd
        /\ registered[list[i].route].method = list[i].method
        /\ registered[list[i].route].matches = list[i].matches
    BY <2>1
  <2> QED BY <1>1, <2>1, <2>2 DEF Requests!Matches
<1>5. \A r \in F : \E i \in G : list[i].route = r
  BY <1>1, <1>4 DEF HoldsAll
<1>6. \A i \in G, j \in G : i <= j => list[i].route <= list[j].route
  <2> TAKE i \in G, j \in G
  <2>1. i \in 1 .. Len(list) /\ j \in 1 .. Len(list)
        /\ list[i].route \in 1 .. Len(registered) /\ list[j].route \in 1 .. Len(registered)
    BY DEF HoldsAll
  <2>2. i < j => list[i].route < list[j].route
    BY <2>1 DEF HoldsAll
  <2> QED BY <1>2, <2>1, <2>2
<1>7. G \subseteq 1 .. Len(list) /\ F \subseteq 1 .. Len(registered)
  BY <1>1
<1> HIDE DEF F, G
<1>8. F = {} => G = {}
  BY <1>4, <1>7
<1>9. ASSUME F # {}
      PROVE  Requests!FirstMatch(list) # 0 /\ Requests!FirstMatch(list) = Requests!Min(F)
  <2>1. G # {} /\ G \subseteq Nat
    <3>1. PICK r \in F : TRUE
      BY <1>9
    <3>2. \E i \in G : list[i].route = r
      BY <1>5
    <3>3. 1 .. Len(list) \subseteq Nat
      BY <1>2
    <3> QED BY <1>7, <3>2, <3>3
  <2> DEFINE g == Requests!Min(G)
             r == list[g].route
  <2>2. g \in G /\ \A j \in G : g <= j
    BY <2>1, SmallestExists DEF Requests!Min
  <2> HIDE DEF g
  <2>3. r \in F
    BY <1>4, <1>7, <2>2
  <2>4. \A y \in F : r <= y
    BY <1>5, <1>6, <2>2
  <2>5. Requests!FirstMatch(list) = r
    BY <1>3, <2>1, Zenon DEF g
  <2> HIDE DEF r
  <2>6. Requests!Min(F) \in F /\ \A y \in F : Requests!Min(F) <= y
    BY <2>3, <2>4 DEF Requests!Min
  <2>7. r = Requests!Min(F) /\ r # 0
    <3> DEFINE f == Requests!Min(F)
    <3>1. \A y \in F : y \in Nat /\ y # 0
      BY <1>2, <1>7
    <3>2. r <= f /\ f <= r /\ r \in Nat /\ r # 0 /\ f \in Nat
      BY <2>3, <2>4, <2>6, <3>1
    <3> HIDE DEF f
    <3>3. r = f
      BY <3>2
    <3> QED BY <3>2, <3>3 DEF f
  <2> QED BY <2>5, <2>7
<1> QED BY <1>3, <1>8, <1>9 DEF F

RouteTypes ==
    /\ registered \in Seq(Registrations)
    /\ method \in Methods /\ path \in Paths
    /\ stage \in {"setup", "before", "after", "send", "sent"}

(* The tables hold what was registered, and what became of the request     *)
(* was decided by what they lead to.                                       *)
Tables ==
    /\ HoldsLast(handlers, registered, "handler")
    /\ HoldsLast(callbacks, registered, "callback")
    /\ HoldsAll(regexHandlers, registered, "regexHandler")
    /\ HoldsAll(regexCallbacks, registered, "regexCallback")
Decided ==
    /\ served # 0 => served = Requests!Found /\ Len(begun) = ChainLength
    /\ answer = "notFound" => Requests!Found = 0
    /\ stage \in {"setup", "before"} => served = 0 /\ answer = "unknown"

RouteInv == RouteTypes /\ Tables /\ Decided

LEMMA FoundIsExpected ==
    ASSUME RouteTypes, Tables
    PROVE  Requests!Found = Requests!Expected
<1>1. /\ Requests!Fitting("handler") # {} =>
            /\ handlers[Requests!Key] # 0
            /\ handlers[Requests!Key] = Requests!Max(Requests!Fitting("handler"))
      /\ Requests!Fitting("handler") = {} => handlers[Requests!Key] = 0
  BY LatestFound DEF RouteTypes, Tables
<1>2. /\ Requests!Fitting("callback") # {} =>
            /\ callbacks[Requests!Key] # 0
            /\ callbacks[Requests!Key] = Requests!Max(Requests!Fitting("callback"))
      /\ Requests!Fitting("callback") = {} => callbacks[Requests!Key] = 0
  BY LatestFound DEF RouteTypes, Tables
<1>3. /\ Requests!Fitting("regexHandler") # {} =>
            /\ Requests!FirstMatch(regexHandlers) # 0
            /\ Requests!FirstMatch(regexHandlers) = Requests!Min(Requests!Fitting("regexHandler"))
      /\ Requests!Fitting("regexHandler") = {} => Requests!FirstMatch(regexHandlers) = 0
  BY FirstFound DEF RouteTypes, Tables
<1>4. /\ Requests!Fitting("regexCallback") # {} =>
            /\ Requests!FirstMatch(regexCallbacks) # 0
            /\ Requests!FirstMatch(regexCallbacks) = Requests!Min(Requests!Fitting("regexCallback"))
      /\ Requests!Fitting("regexCallback") = {} => Requests!FirstMatch(regexCallbacks) = 0
  BY FirstFound DEF RouteTypes, Tables
<1> QED
  BY <1>1, <1>2, <1>3, <1>4 DEF Requests!Found, Requests!Expected, Requests!NoRoute

LEMMA RouteInit == Init => RouteInv
<1> SUFFICES ASSUME Init PROVE RouteInv
  OBVIOUS
<1>1. /\ registered = <<>> /\ regexHandlers = <<>> /\ regexCallbacks = <<>>
      /\ handlers = [k \in Requests!Keys |-> 0] /\ callbacks = [k \in Requests!Keys |-> 0]
      /\ method \in Methods /\ path \in Paths /\ stage = "setup"
      /\ served = 0 /\ answer = "unknown"
  BY DEF Init, Requests!Init, Requests!NoRoute
<1>2. \A m \in Methods, x \in Paths : <<m, x>> \in Requests!Keys
  BY DEF Requests!Keys
<1>3. HoldsLast(handlers, registered, "handler") /\ HoldsLast(callbacks, registered, "callback")
  BY <1>1, <1>2 DEF HoldsLast
<1>4. /\ HoldsAll(regexHandlers, registered, "regexHandler")
      /\ HoldsAll(regexCallbacks, registered, "regexCallback")
  BY <1>1 DEF HoldsAll
<1> QED
  BY <1>1, <1>3, <1>4 DEF RouteInv, RouteTypes, Tables, Decided

(* Routes are only registered while no request has been handled.           *)
LEMMA RegisterStep ==
    ASSUME RouteInv, Requests!Setup
    PROVE  RouteInv'
<1>1. /\ stage = "setup" /\ registered \in Seq(Registrations)
      /\ UNCHANGED <<stage, method, path, begun, answer, served>>
  BY DEF Requests!Setup, Requests!registerHandler, Requests!registerCallback,
         Requests!addRegexHandler, Requests!addRegexCallback, Requests!Log, Requests!request,
         RouteInv, RouteTypes
<1>2. Decided'
  BY <1>1 DEF RouteInv, Decided
<1>3. PICK m \in Methods :
         \/ \E x \in Paths : Requests!registerHandler(m, x) \/ Requests!registerCallback(m, x)
         \/ \E fit \in Patterns : \/ Requests!addRegexHandler(m, fit)
                                  \/ Requests!addRegexCallback(m, fit)
  BY DEF Requests!Setup
<1>4. ASSUME NEW x \in Paths, Requests!registerHandler(m, x)
      PROVE  registered' \in Seq(Registrations) /\ Tables'
  <2> DEFINE e == [kind |-> "handler", method |-> m, matches |-> {x}]
  <2>1. /\ registered' = Append(registered, e)
        /\ handlers' = [handlers EXCEPT ![<<m, x>>] = Len(registered) + 1]
        /\ UNCHANGED <<callbacks, regexHandlers, regexCallbacks>>
    BY <1>4 DEF Requests!registerHandler, Requests!Log, Requests!Route
  <2>2. e \in Registrations /\ e.kind = "handler" /\ e.method = m /\ e.matches = {x}
    BY DEF Registrations, RouteKinds
  <2> HIDE DEF e
  <2>3. HoldsLast(handlers', registered', "handler")
    BY <1>1, <2>1, <2>2, TableRegisters DEF RouteInv, Tables
  <2>4. HoldsLast(callbacks', registered', "callback")
    BY <1>1, <2>1, <2>2, TableAnotherKind DEF RouteInv, Tables
  <2>5. /\ HoldsAll(regexHandlers', registered', "regexHandler")
        /\ HoldsAll(regexCallbacks', registered', "regexCallback")
    BY <1>1, <2>1, <2>2, ListAnotherKind DEF RouteInv, Tables
  <2> QED BY <1>1, <2>1, <2>2, <2>3, <2>4, <2>5 DEF Tables
<1>5. ASSUME NEW x \in Paths, Requests!registerCallback(m, x)
      PROVE  registered' \in Seq(Registrations) /\ Tables'
  <2> DEFINE e == [kind |-> "callback", method |-> m, matches |-> {x}]
  <2>1. /\ registered' = Append(registered, e)
        /\ callbacks' = [callbacks EXCEPT ![<<m, x>>] = Len(registered) + 1]
        /\ UNCHANGED <<handlers, regexHandlers, regexCallbacks>>
    BY <1>5 DEF Requests!registerCallback, Requests!Log, Requests!Route
  <2>2. e \in Registrations /\ e.kind = "callback" /\ e.method = m /\ e.matches = {x}
    BY DEF Registrations, RouteKinds
  <2> HIDE DEF e
  <2>3. HoldsLast(handlers', registered', "handler")
    BY <1>1, <2>1, <2>2, TableAnotherKind DEF RouteInv, Tables
  <2>4. HoldsLast(callbacks', registered', "callback")
    BY <1>1, <2>1, <2>2, TableRegisters DEF RouteInv, Tables
  <2>5. /\ HoldsAll(regexHandlers', registered', "regexHandler")
        /\ HoldsAll(regexCallbacks', registered', "regexCallback")
    BY <1>1, <2>1, <2>2, ListAnotherKind DEF RouteInv, Tables
  <2> QED BY <1>1, <2>1, <2>2, <2>3, <2>4, <2>5 DEF Tables
<1>6. ASSUME NEW fit \in Patterns, Requests!addRegexHandler(m, fit)
      PROVE  registered' \in Seq(Registrations) /\ Tables'
  <2> DEFINE e == [kind |-> "regexHandler", method |-> m, matches |-> fit]
  <2>1. /\ registered' = Append(registered, e)
        /\ regexHandlers' = Append(regexHandlers,
              [method |-> m, matches |-> fit, route |-> Len(registered) + 1])
        /\ UNCHANGED <<handlers, callbacks, regexCallbacks>>
    BY <1>6 DEF Requests!addRegexHandler, Requests!Log, Requests!Route, Requests!Entry
  <2>2. fit \in SUBSET Paths
    BY HandlingConstants DEF Requests!HandlingAssumption
  <2>3. e \in Registrations /\ e.kind = "regexHandler"
    BY <2>2 DEF Registrations, RouteKinds
  <2>4. HoldsAll(regexHandlers', registered', "regexHandler")
    BY <1>1, <2>1, <2>2, <2>3, ListRegisters DEF RouteInv, Tables
  <2> HIDE DEF e
  <2>5. /\ HoldsLast(handlers', registered', "handler")
        /\ HoldsLast(callbacks', registered', "callback")
    BY <1>1, <2>1, <2>3, TableAnotherKind DEF RouteInv, Tables
  <2>6. HoldsAll(regexCallbacks', registered', "regexCallback")
    BY <1>1, <2>1, <2>3, ListAnotherKind DEF RouteInv, Tables
  <2> QED BY <1>1, <2>1, <2>3, <2>4, <2>5, <2>6 DEF Tables
<1>7. ASSUME NEW fit \in Patterns, Requests!addRegexCallback(m, fit)
      PROVE  registered' \in Seq(Registrations) /\ Tables'
  <2> DEFINE e == [kind |-> "regexCallback", method |-> m, matches |-> fit]
  <2>1. /\ registered' = Append(registered, e)
        /\ regexCallbacks' = Append(regexCallbacks,
              [method |-> m, matches |-> fit, route |-> Len(registered) + 1])
        /\ UNCHANGED <<handlers, callbacks, regexHandlers>>
    BY <1>7 DEF Requests!addRegexCallback, Requests!Log, Requests!Route, Requests!Entry
  <2>2. fit \in SUBSET Paths
    BY HandlingConstants DEF Requests!HandlingAssumption
  <2>3. e \in Registrations /\ e.kind = "regexCallback"
    BY <2>2 DEF Registrations, RouteKinds
  <2>4. HoldsAll(regexCallbacks', registered', "regexCallback")
    BY <1>1, <2>1, <2>2, <2>3, ListRegisters DEF RouteInv, Tables
  <2> HIDE DEF e
  <2>5. /\ HoldsLast(handlers', registered', "handler")
        /\ HoldsLast(callbacks', registered', "callback")
    BY <1>1, <2>1, <2>3, TableAnotherKind DEF RouteInv, Tables
  <2>6. HoldsAll(regexHandlers', registered', "regexHandler")
    BY <1>1, <2>1, <2>3, ListAnotherKind DEF RouteInv, Tables
  <2> QED BY <1>1, <2>1, <2>3, <2>4, <2>5, <2>6 DEF Tables
<1> QED
  BY <1>1, <1>2, <1>3, <1>4, <1>5, <1>6, <1>7 DEF RouteInv, RouteTypes

(* What the tables lead to stays while they and the request do.            *)
LEMMA FoundStays ==
    ASSUME UNCHANGED <<handlers, callbacks, regexHandlers, regexCallbacks, method, path>>
    PROVE  Requests!Found' = Requests!Found
BY DEF Requests!Found, Requests!Key, Requests!FirstMatch, Requests!Matches

LEMMA HandleSteps ==
    ASSUME RouteInv, UNCHANGED <<handlers, callbacks, regexHandlers, regexCallbacks, registered,
                                 method, path>>,
           Requests!Before \/ Requests!Handle \/ Requests!NotFound \/ Requests!After
              \/ Requests!AfterDone \/ Requests!Send \/ UNCHANGED requestVars
    PROVE  RouteInv'
<1>1. Requests!Found' = Requests!Found /\ Tables'
  BY FoundStays DEF RouteInv, Tables
<1>2. RouteTypes' /\ Decided'
  <2>1. CASE Requests!Before
    BY <1>1, <2>1 DEF Requests!Before, Requests!Throws, Requests!Caught, RouteInv, RouteTypes, Decided
  <2>2. CASE Requests!Handle
    BY <1>1, <2>2 DEF Requests!Handle, Requests!Throws, Requests!Caught, RouteInv, RouteTypes, Decided
  <2>3. CASE Requests!NotFound
    BY <1>1, <2>3 DEF Requests!NotFound, Requests!NoRoute, RouteInv, RouteTypes, Decided
  <2>4. CASE Requests!After \/ Requests!AfterDone \/ Requests!Send
    BY <1>1, <2>4 DEF Requests!After, Requests!AfterDone, Requests!Send, RouteInv, RouteTypes, Decided
  <2>5. CASE UNCHANGED requestVars
    BY <1>1, <2>5 DEF requestVars, RouteInv, RouteTypes, Decided
  <2> QED BY <2>1, <2>2, <2>3, <2>4, <2>5
<1> QED BY <1>1, <1>2 DEF RouteInv

LEMMA RouteNext == ASSUME RouteInv, [Next]_vars PROVE RouteInv'
<1>1. CASE Requests!Setup
  BY <1>1, RegisterStep
<1>2. ASSUME NEW m \in Methods, NEW x \in Paths, Requests!OnRequest(m, x)
      PROVE  RouteInv'
  BY <1>2 DEF Requests!OnRequest, Requests!tables, Requests!NoRoute, RouteInv, RouteTypes, Tables,
              Decided
<1>3. CASE Requests!Before \/ Requests!Handle \/ Requests!NotFound \/ Requests!After
              \/ Requests!AfterDone \/ Requests!Send \/ UNCHANGED requestVars
  <2>1. UNCHANGED <<handlers, callbacks, regexHandlers, regexCallbacks, registered, method, path>>
    BY <1>3 DEF Requests!Before, Requests!Handle, Requests!NotFound, Requests!After,
                Requests!AfterDone, Requests!Send, Requests!tables, Requests!request, requestVars
  <2> QED BY <1>3, <2>1, HandleSteps
<1> QED
  BY PartSteps, <1>1, <1>2, <1>3 DEF Requests!Next

LEMMA RouteMeans == ASSUME RouteInv PROVE ServedByPriority
<1>1. Requests!Found = Requests!Expected
  BY FoundIsExpected DEF RouteInv
<1> QED
  BY <1>1 DEF RouteInv, Decided, ServedByPriority, Requests!ServedByPriority, Requests!NoRoute

(* router.cpp: for every set of registrations, in every order: exact       *)
(* routes before patterns, handlers before callbacks, the last exact one,  *)
(* the first pattern; notFound only when nothing fits; no handler before   *)
(* every middleware has let the request pass.                              *)
THEOREM RouterPriority == Spec => []ServedByPriority
<1>1. Spec => []RouteInv
  BY RouteInit, RouteNext, PTL DEF Spec
<1> QED BY <1>1, RouteMeans, PTL

-----------------------------------------------------------------------------
(* The parser: the layout of a request, as numbers.                        *)
LEMMA ParserConstants ==
    /\ Kinds \subseteq Parser!AllKinds
    /\ LineLen \in Nat \ {0} /\ FieldLen \in Nat \ {0} /\ DelimLen \in Nat \ {0}
    /\ PartHeadLen \in Nat \ {0} /\ BodyLen \in Nat \ {0} /\ MaxLine \in Nat
BY PartsAssumption DEF PartsAssumption, Parser!ParserAssumption

LEMMA Layout ==
    /\ Parser!FieldAt \in Nat /\ Parser!LengthAt \in Nat
    /\ Parser!BlankAt \in Nat /\ Parser!BodyAt \in Nat
    /\ Parser!FieldAt = LineLen + 2
    /\ Parser!LengthAt = Parser!FieldAt + FieldLen + 2
    /\ Parser!BlankAt = Parser!LengthAt + FieldLen + 2
    /\ Parser!BodyAt = Parser!BlankAt + 2
BY ParserConstants
   DEF Parser!FieldAt, Parser!LengthAt, Parser!BlankAt, Parser!BodyAt, Parser!Crlf

LEMMA BodyLayout ==
    ASSUME kind \in Kinds
    PROVE  /\ Parser!DataAt \in Nat /\ Parser!EndAt \in Nat /\ Parser!Size \in Nat
           /\ Parser!EndAt = Parser!DataAt + BodyLen + 2
           /\ kind = "form" =>
                 /\ Parser!DataAt = Parser!BodyAt + DelimLen + PartHeadLen + 6
                 /\ Parser!Size = Parser!EndAt + DelimLen + 4
                 /\ Parser!ContentLength = Parser!Size - Parser!BodyAt
           /\ kind # "form" => Parser!DataAt = Parser!BodyAt /\ Parser!ContentLength = BodyLen
           /\ kind \in Parser!Bodiless => Parser!Size = Parser!BodyAt
           /\ kind \in Parser!Plain => Parser!Size = Parser!BodyAt + BodyLen
<1> USE ParserConstants, Layout
<1>1. CASE kind = "form"
  BY <1>1 DEF Parser!DataAt, Parser!EndAt, Parser!DataEnd, Parser!Size, Parser!EndLen,
              Parser!ContentLength, Parser!PartAt, Parser!Crlf, Parser!Bodiless, Parser!Plain
<1>2. CASE kind \in Parser!Bodiless
  BY <1>2 DEF Parser!DataAt, Parser!EndAt, Parser!DataEnd, Parser!Size, Parser!ContentLength,
              Parser!Crlf, Parser!Bodiless, Parser!Plain
<1>3. CASE kind # "form" /\ kind \notin Parser!Bodiless
  BY <1>3 DEF Parser!DataAt, Parser!EndAt, Parser!DataEnd, Parser!Size, Parser!ContentLength,
              Parser!Crlf, Parser!Bodiless
<1> QED BY <1>1, <1>2, <1>3

(* The line ends in sight: the first one is that of the line pos is at.    *)
LEMMA FirstLineEnd ==
    ASSUME kind \in Kinds, pos \in Nat, arrived \in Nat, Parser!Found # {}
    PROVE  /\ pos = 0 => Parser!Min(Parser!Found) = LineLen /\ LineLen + 2 <= arrived
           /\ pos = Parser!FieldAt =>
                 /\ Parser!Min(Parser!Found) = Parser!FieldAt + FieldLen
                 /\ Parser!LengthAt <= arrived
           /\ pos = Parser!LengthAt =>
                 /\ Parser!Min(Parser!Found) = Parser!LengthAt + FieldLen
                 /\ Parser!BlankAt <= arrived
           /\ pos = Parser!BlankAt =>
                 Parser!Min(Parser!Found) = Parser!BlankAt /\ Parser!BodyAt <= arrived
           /\ pos = Parser!BodyAt => kind = "form"
<1> USE ParserConstants, Layout
<1> DEFINE ends == Parser!Found
           first == Parser!Min(ends)
<1> DEFINE heads == {LineLen, Parser!FieldAt + FieldLen, Parser!LengthAt + FieldLen,
                     Parser!BlankAt}
<1>1. \A e \in ends : /\ \/ e \in heads
                         \/ (kind = "form" /\ e > Parser!BodyAt)
                      /\ e \in Nat /\ pos <= e /\ e + 2 <= arrived
  <2>1. Parser!EndAt \in Nat /\ Parser!EndLen \in Nat
        /\ (kind = "form" => Parser!EndAt > Parser!BodyAt)
    BY BodyLayout DEF Parser!EndLen
  <2> QED BY <2>1 DEF Parser!Found, Parser!LineEnds, Parser!InSight, Parser!Crlf
<1>2. \A e \in heads : pos <= e /\ e + 2 <= arrived => e \in ends
  BY DEF Parser!Found, Parser!LineEnds, Parser!InSight, Parser!Crlf
<1> HIDE DEF ends
<1>3. ends \subseteq Nat /\ ends # {}
  BY <1>1 DEF ends
<1>4. first \in ends /\ \A e \in ends : first <= e
  BY <1>3, SmallestExists DEF Parser!Min
<1> HIDE DEF first
<1>5. pos = 0 => first = LineLen /\ LineLen + 2 <= arrived
  BY <1>1, <1>2, <1>4
<1>6. pos = Parser!FieldAt => first = Parser!FieldAt + FieldLen /\ Parser!LengthAt <= arrived
  BY <1>1, <1>2, <1>4
<1>9. pos = Parser!LengthAt => first = Parser!LengthAt + FieldLen /\ Parser!BlankAt <= arrived
  BY <1>1, <1>2, <1>4
<1>7. pos = Parser!BlankAt => first = Parser!BlankAt /\ Parser!BodyAt <= arrived
  BY <1>1, <1>2, <1>4
<1>8. pos = Parser!BodyAt => kind = "form"
  BY <1>1, <1>4
<1> QED BY <1>5, <1>6, <1>7, <1>8, <1>9 DEF first, ends

ParserNumbers ==
    /\ kind \in Kinds /\ arrived \in Nat /\ arrived <= Parser!Size
    /\ pos \in Nat /\ pos <= arrived
    /\ received \in Nat /\ savedTo \in Nat
ParserFlags ==
    /\ parsing \in BOOLEAN /\ partHead \in BOOLEAN /\ ok \in BOOLEAN /\ isErr \in BOOLEAN
    /\ state \in {"line", "headers", "body", "all"} /\ verdict \in {"more", "ok", "bad"}

(* What the parser knows in each of its states.  A pass over an incomplete *)
(* or a second request line never ends, so that it is never reported.      *)
InLine ==
    state = "line" =>
        /\ parsing => pos < arrived
        /\ verdict = "more" =>
              /\ pos = 0 /\ received = 0 /\ ~partHead /\ savedTo = Parser!DataAt /\ ~ok
              /\ parsing /\ isErr => ~(LineLen + 2 <= arrived /\ LineLen <= MaxLine)
InHeaders ==
    state = "headers" =>
        /\ received = 0 /\ ~partHead /\ savedTo = Parser!DataAt /\ ~ok /\ kind # "badline"
        /\ \/ pos = Parser!FieldAt /\ ~isErr
           \/ pos \in {Parser!LengthAt, Parser!BlankAt}
           \/ pos = Parser!BodyAt /\ kind \in {"nolength", "badlength"} /\ parsing /\ isErr
InBody ==
    state = "body" =>
        /\ ~ok
        /\ \/ /\ kind \in Parser!Plain /\ ~partHead
              /\ pos = Parser!BodyAt + received /\ savedTo = pos /\ received < BodyLen
           \/ /\ kind = "form" /\ ~partHead
              /\ pos = Parser!BodyAt /\ received = 0 /\ savedTo = Parser!DataAt
           \/ /\ kind = "form" /\ partHead
              /\ pos = savedTo /\ received = pos - Parser!BodyAt + 2
              /\ Parser!DataAt <= pos /\ pos <= Parser!EndAt
SavedAll ==
    /\ kind \in Parser!Bodiless \cup Parser!Plain \cup {"form"}
    /\ savedTo = IF kind = "form" THEN Parser!EndAt ELSE Parser!Size
InAll == state = "all" => parsing /\ ok /\ SavedAll /\ pos > 0
(* An error is one of the request; once begun, that of the request line is *)
(* never told.                                                             *)
ErrsRightly == isErr /\ state # "line" => kind \in Parser!Erroneous
Told ==
    /\ verdict = "ok" => state = "line" /\ SavedAll /\ pos > 0
    /\ verdict = "bad" =>
          /\ state = "line" /\ kind \in Parser!Erroneous /\ ~parsing
          /\ savedTo <= Parser!Size

ParserTypes == ParserNumbers /\ ParserFlags

ParserInv ==
    /\ ParserTypes /\ InLine /\ InHeaders /\ InBody /\ InAll
    /\ ErrsRightly /\ Told

LEMMA ParserMeans == ASSUME ParserInv PROVE SavesBodyOnly /\ VerdictRight
<1> USE ParserConstants, Layout
<1>1. kind \in Kinds
  BY DEF ParserInv, ParserTypes, ParserNumbers, ParserFlags
<1>2. \/ SavedAll \/ savedTo = Parser!DataAt \/ (state = "body" /\ savedTo = pos)
      \/ kind \in Parser!Erroneous /\ savedTo <= Parser!Size
  BY DEF ParserInv, ParserTypes, ParserNumbers, ParserFlags, InLine, InHeaders, InBody, InAll, Told
<1>5. /\ Parser!DataAt \in Nat /\ Parser!EndAt \in Nat /\ Parser!Size \in Nat
      /\ Parser!DataAt <= (IF kind = "form" THEN Parser!EndAt ELSE Parser!Size)
  <2>1. kind = "form" \/ kind \in Parser!Bodiless \/ kind \notin Parser!Bodiless \cup {"form"}
    OBVIOUS
  <2>2. kind \notin Parser!Bodiless \cup {"form"} =>
           Parser!Size = Parser!BodyAt + BodyLen /\ Parser!DataAt = Parser!BodyAt
    BY <1>1, BodyLayout DEF Parser!Size, Parser!DataEnd
  <2> QED BY <1>1, <2>1, <2>2, BodyLayout
<1>3. SavesBodyOnly
  <2>1. CASE state = "body" /\ savedTo = pos
    BY <1>1, <1>5, <2>1
       DEF SavesBodyOnly, Parser!SavesBodyOnly, ParserInv, ParserTypes, ParserNumbers, InBody,
           Parser!Plain
  <2>2. CASE kind \in Parser!Erroneous /\ savedTo <= Parser!Size
    BY <2>2 DEF SavesBodyOnly, Parser!SavesBodyOnly, Parser!Erroneous
  <2>3. CASE SavedAll \/ savedTo = Parser!DataAt
    BY <1>5, <2>3 DEF SavesBodyOnly, Parser!SavesBodyOnly, SavedAll
  <2> QED BY <1>2, <2>1, <2>2, <2>3
<1>4. VerdictRight
  BY DEF VerdictRight, Parser!VerdictRight, ParserInv, Told, SavedAll, Parser!Bodiless,
         Parser!Plain
<1> QED BY <1>3, <1>4

LEMMA ParserInit == Init => ParserInv
<1> SUFFICES ASSUME Init PROVE ParserInv
  OBVIOUS
<1>1. /\ kind \in Kinds /\ arrived = 0 /\ parsing = FALSE /\ pos = 0 /\ state = "line"
      /\ received = 0 /\ partHead = FALSE /\ savedTo = Parser!DataAt
      /\ ok = FALSE /\ isErr = FALSE /\ verdict = "more"
  BY DEF Init, Parser!Init
<1>2. Parser!DataAt \in Nat /\ Parser!Size \in Nat
  BY <1>1, BodyLayout
<1>3. ParserTypes
  <2>1. ParserNumbers
    BY <1>1, <1>2 DEF ParserNumbers
  <2>2. ParserFlags
    BY <1>1 DEF ParserFlags
  <2> QED BY <2>1, <2>2 DEF ParserTypes
<1>4. InLine
  BY <1>1 DEF InLine
<1> QED
  BY <1>1, <1>3, <1>4 DEF ParserInv, InHeaders, InBody, InAll, ErrsRightly, Told

(* The layout belongs to the request, which stays.                         *)
LEMMA LayoutStays ==
    ASSUME UNCHANGED kind
    PROVE  UNCHANGED <<Parser!DataAt, Parser!EndAt, Parser!Size, Parser!ContentLength>>
BY DEF Parser!DataAt, Parser!EndAt, Parser!DataEnd, Parser!Size, Parser!ContentLength

LEMMA ChunkStep == ASSUME ParserInv, Parser!Chunk PROVE ParserInv'
<1> USE ParserConstants, Layout
<1>1. kind \in Kinds /\ arrived \in Nat /\ Parser!Size \in Nat
  BY BodyLayout DEF ParserInv, ParserTypes, ParserNumbers, ParserFlags
<1>2. /\ ~parsing /\ verdict # "bad" /\ arrived' \in arrived + 1 .. Parser!Size
      /\ parsing' = TRUE /\ ok' = FALSE /\ isErr' = FALSE
      /\ UNCHANGED <<kind, pos, state, received, partHead, savedTo, verdict>>
  BY DEF Parser!Chunk, Parser!context
<1>3. UNCHANGED <<Parser!DataAt, Parser!EndAt, Parser!Size>>
  BY <1>2, LayoutStays
<1>4. arrived' \in Nat /\ arrived < arrived' /\ arrived' <= Parser!Size
  BY <1>1, <1>2
<1>5. ParserTypes'
  <2>1. ParserNumbers'
    BY <1>2, <1>3, <1>4 DEF ParserInv, ParserTypes, ParserNumbers
  <2>2. ParserFlags'
    BY <1>2 DEF ParserInv, ParserTypes, ParserFlags
  <2> QED BY <2>1, <2>2 DEF ParserTypes
<1>6. InLine' /\ InHeaders' /\ InBody' /\ InAll' /\ ErrsRightly' /\ Told'
  <2>1. InLine'
    BY <1>1, <1>2, <1>3, <1>4 DEF ParserInv, ParserTypes, ParserNumbers, ParserFlags, InLine
  <2>2. InHeaders'
    BY <1>2, <1>3 DEF ParserInv, InHeaders
  <2>3. InBody'
    BY <1>2, <1>3 DEF ParserInv, InBody
  <2>4. InAll' /\ Told'
    BY <1>2, <1>3 DEF ParserInv, InAll, SavedAll, Told
  <2>5. ErrsRightly'
    BY <1>2 DEF ErrsRightly
  <2> QED BY <2>1, <2>2, <2>3, <2>4, <2>5
<1> QED BY <1>5, <1>6 DEF ParserInv

LEMMA RequestLineStep == ASSUME ParserInv, Parser!RequestLine PROVE ParserInv'
<1> USE ParserConstants, Layout
<1> DEFINE first == Parser!Min(Parser!Found)
<1>1. /\ parsing /\ state = "line" /\ pos = 0 /\ kind # "badline" /\ LineLen <= MaxLine
      /\ pos' = first + 2 /\ state' = "headers" /\ Parser!Found # {}
      /\ UNCHANGED <<kind, arrived, parsing, received, partHead, savedTo, ok, isErr, verdict>>
  BY DEF Parser!RequestLine, Parser!Looping, Parser!Crlf, Parser!input, Parser!result
<1>2. kind \in Kinds /\ pos \in Nat /\ arrived \in Nat
  BY DEF ParserInv, ParserTypes, ParserNumbers, ParserFlags
<1>3. first = LineLen /\ LineLen + 2 <= arrived
  BY <1>1, <1>2, FirstLineEnd
<1> HIDE DEF first
<1>4. pos' = Parser!FieldAt /\ Parser!FieldAt <= arrived
  BY <1>1, <1>2, <1>3
<1>5. UNCHANGED <<Parser!DataAt, Parser!EndAt, Parser!Size>>
  BY <1>1, LayoutStays
<1>6. verdict = "more"
  BY <1>1 DEF ParserInv, Told, ParserTypes, ParserFlags, InLine
<1>7. ParserTypes'
  <2>1. pos' \in Nat /\ pos' <= arrived
    BY <1>4
  <2>2. ParserNumbers'
    BY <1>1, <1>5, <2>1 DEF ParserInv, ParserTypes, ParserNumbers
  <2>3. ParserFlags'
    BY <1>1 DEF ParserInv, ParserTypes, ParserFlags
  <2> QED BY <2>2, <2>3 DEF ParserTypes
<1>8. InHeaders'
  BY <1>1, <1>3, <1>4, <1>5, <1>6 DEF ParserInv, ParserTypes, ParserNumbers, ParserFlags, InLine, InHeaders
<1>9. ~isErr'
  BY <1>1, <1>3, <1>6, SMTT(30) DEF ParserInv, InLine
<1> QED
  BY <1>1, <1>6, <1>7, <1>8, <1>9 DEF ParserInv, InLine, InBody, InAll, ErrsRightly, Told

LEMMA TooLongStep == ASSUME ParserInv, Parser!TooLong PROVE ParserInv'
<1> USE ParserConstants, Layout
<1> DEFINE first == Parser!Min(Parser!Found)
<1>1. /\ parsing /\ state = "line" /\ isErr' = TRUE
      /\ IF Parser!Found = {} THEN arrived - pos > MaxLine ELSE first - pos > MaxLine
      /\ UNCHANGED <<kind, arrived, parsing, pos, state, received, partHead, savedTo, ok, verdict>>
  BY DEF Parser!TooLong, Parser!Looping, Parser!input, Parser!context
<1>2. kind \in Kinds /\ pos \in Nat /\ arrived \in Nat
  BY DEF ParserInv, ParserTypes, ParserNumbers, ParserFlags
<1>3. pos = 0 => ~(LineLen + 2 <= arrived /\ LineLen <= MaxLine)
  <2>1. CASE Parser!Found = {}
    <3>1. ~(pos <= LineLen /\ LineLen + 2 <= arrived)
      BY <2>1 DEF Parser!Found, Parser!LineEnds, Parser!InSight, Parser!Crlf
    <3> QED BY <3>1
  <2>2. CASE Parser!Found # {}
    <3>1. pos = 0 => first = LineLen
      BY <1>2, <2>2, FirstLineEnd
    <3> HIDE DEF first
    <3> QED BY <1>1, <2>2, <3>1
  <2> QED BY <2>1, <2>2
<1>4. UNCHANGED <<Parser!DataAt, Parser!EndAt, Parser!Size>>
  BY <1>1, LayoutStays
<1>5. ParserTypes'
  BY <1>1, <1>4 DEF ParserInv, ParserTypes, ParserNumbers, ParserFlags
<1>6. InLine'
  BY <1>1, <1>3, <1>4 DEF ParserInv, InLine
<1> QED
  BY <1>1, <1>4, <1>5, <1>6 DEF ParserInv, InHeaders, InBody, InAll, SavedAll, ErrsRightly, Told

LEMMA HeaderLineStep == ASSUME ParserInv, Parser!HeaderLine PROVE ParserInv'
<1> USE ParserConstants, Layout
<1> DEFINE first == Parser!Min(Parser!Found)
<1>1. /\ parsing /\ state = "headers" /\ Parser!Found # {} /\ first # pos /\ pos' = first + 2
      /\ isErr' = \/ isErr
                  \/ kind \in {"badheader", "badheaderpost"} /\ pos = Parser!FieldAt
                  \/ kind = "noboundary" /\ pos' = arrived
      /\ UNCHANGED <<kind, arrived, parsing, state, received, partHead, savedTo, ok, verdict>>
  BY DEF Parser!HeaderLine, Parser!Looping, Parser!Crlf, Parser!input
<1>2. kind \in Kinds /\ pos \in Nat /\ arrived \in Nat /\ isErr \in BOOLEAN
  BY DEF ParserInv, ParserTypes, ParserNumbers, ParserFlags
<1>3. pos \in {Parser!FieldAt, Parser!LengthAt}
  <2>1. pos # Parser!BlankAt
    BY <1>1, <1>2, FirstLineEnd
  <2>2. pos = Parser!BodyAt => kind = "form"
    BY <1>1, <1>2, FirstLineEnd
  <2> QED BY <1>1, <2>1, <2>2 DEF ParserInv, InHeaders
<1>4. /\ pos = Parser!FieldAt => first = Parser!FieldAt + FieldLen /\ Parser!LengthAt <= arrived
      /\ pos = Parser!LengthAt => first = Parser!LengthAt + FieldLen /\ Parser!BlankAt <= arrived
  BY <1>1, <1>2, FirstLineEnd
<1> HIDE DEF first
<1>5. pos' \in {Parser!LengthAt, Parser!BlankAt} /\ pos' <= arrived
  BY <1>1, <1>3, <1>4
<1>6. UNCHANGED <<Parser!DataAt, Parser!EndAt, Parser!Size>>
  BY <1>1, LayoutStays
<1>7. isErr' \in BOOLEAN /\ (isErr' => kind' \in Parser!Erroneous)
  <2>1. isErr' \in BOOLEAN
    BY <1>1, Zenon
  <2>2. isErr /\ state # "line" => kind \in Parser!Erroneous
    BY DEF ParserInv, ErrsRightly
  <2>3. {"badheader", "badheaderpost", "noboundary"} \subseteq Parser!Erroneous
    BY DEF Parser!Erroneous
  <2> QED BY <1>1, <2>1, <2>2, <2>3
<1>8. ParserTypes'
  <2>1. ParserNumbers'
    BY <1>1, <1>5, <1>6 DEF ParserInv, ParserTypes, ParserNumbers
  <2>2. ParserFlags'
    BY <1>1, <1>7 DEF ParserInv, ParserTypes, ParserFlags
  <2> QED BY <2>1, <2>2 DEF ParserTypes
<1>9. InHeaders'
  BY <1>1, <1>5, <1>6 DEF ParserInv, InHeaders
<1> QED
  BY <1>1, <1>7, <1>8, <1>9
     DEF ParserInv, InLine, InBody, InAll, SavedAll, ErrsRightly, Told

LEMMA HeadersEndStep == ASSUME ParserInv, Parser!HeadersEnd PROVE ParserInv'
<1> USE ParserConstants, Layout
<1> DEFINE first == Parser!Min(Parser!Found)
<1>1. /\ parsing /\ state = "headers" /\ Parser!Found # {} /\ first = pos /\ pos' = pos + 2
      /\ ok' = (kind \in Parser!Bodiless)
      /\ isErr' = (isErr \/ kind \in {"nolength", "badlength", "noboundary"})
      /\ state' = CASE kind \in Parser!Bodiless -> "all"
                    [] kind \in {"nolength", "badlength"} -> state
                    [] OTHER -> "body"
      /\ UNCHANGED <<kind, arrived, parsing, received, partHead, savedTo, verdict>>
  BY DEF Parser!HeadersEnd, Parser!Looping, Parser!Crlf, Parser!input
<1>2. kind \in Kinds /\ pos \in Nat /\ arrived \in Nat /\ kind # "badline"
      /\ isErr \in BOOLEAN
  BY <1>1 DEF ParserInv, ParserTypes, ParserNumbers, ParserFlags, InHeaders
<1>3. pos = Parser!BlankAt /\ Parser!BodyAt <= arrived
  <2>1. pos = Parser!FieldAt => first = Parser!FieldAt + FieldLen
    BY <1>1, <1>2, FirstLineEnd
  <2>5. pos = Parser!LengthAt => first = Parser!LengthAt + FieldLen
    BY <1>1, <1>2, FirstLineEnd
  <2>2. pos = Parser!BodyAt => kind = "form"
    BY <1>1, <1>2, FirstLineEnd
  <2>3. pos = Parser!BlankAt => Parser!BodyAt <= arrived
    BY <1>1, <1>2, FirstLineEnd
  <2> HIDE DEF first
  <2>4. pos # Parser!FieldAt /\ pos # Parser!LengthAt
    BY <1>1, <2>1, <2>5
  <2> QED BY <1>1, <2>2, <2>3, <2>4 DEF ParserInv, InHeaders
<1> HIDE DEF first
<1>4. pos' = Parser!BodyAt
  BY <1>1, <1>3
<1>5. UNCHANGED <<Parser!DataAt, Parser!EndAt, Parser!Size>>
  BY <1>1, LayoutStays
<1>6. received = 0 /\ ~partHead /\ savedTo = Parser!DataAt /\ verdict = "more"
  BY <1>1 DEF ParserInv, ParserTypes, ParserNumbers, ParserFlags, InHeaders, Told
<1>7. /\ kind \in Parser!Bodiless \cup {"nolength", "badlength"} \cup Parser!Plain \cup {"form"}
      /\ Parser!Bodiless \cap ({"nolength", "badlength"} \cup Parser!Plain \cup {"form"}) = {}
      /\ {"nolength", "badlength"} \cap (Parser!Plain \cup {"form"}) = {}
  BY <1>2 DEF Parser!AllKinds, Parser!Erroneous, Parser!Bodiless, Parser!Plain
<1>8. /\ state' \in {"all", "headers", "body"}
      /\ state' = "all" <=> kind \in Parser!Bodiless
      /\ state' = "headers" <=> kind \in {"nolength", "badlength"}
  <2>1. CASE kind \in Parser!Bodiless
    BY <1>1, <1>7, <2>1, Zenon
  <2>2. CASE kind \in {"nolength", "badlength"}
    <3>1. kind \notin Parser!Bodiless
      BY <1>7, <2>2
    <3> QED BY <1>1, <2>2, <3>1
  <2>3. CASE kind \notin Parser!Bodiless \cup {"nolength", "badlength"}
    BY <1>1, <2>3
  <2> QED BY <2>1, <2>2, <2>3
<1>13. isErr' \in BOOLEAN /\ ok' \in BOOLEAN /\ (isErr' => kind' \in Parser!Erroneous)
  <2>1. isErr' \in BOOLEAN /\ ok' \in BOOLEAN
    <3>1. isErr' \in BOOLEAN
      <4>1. CASE isErr \/ kind \in {"nolength", "badlength", "noboundary"}
        BY <1>1, <4>1
      <4>2. CASE ~(isErr \/ kind \in {"nolength", "badlength", "noboundary"})
        BY <1>1, <4>2, SMTT(30)
      <4> QED BY <4>1, <4>2
    <3>2. ok' \in BOOLEAN
      <4>1. CASE kind \in Parser!Bodiless
        BY <1>1, <4>1
      <4>2. CASE kind \notin Parser!Bodiless
        BY <1>1, <4>2
      <4> QED BY <4>1, <4>2
    <3> QED BY <3>1, <3>2
  <2>2. isErr /\ state # "line" => kind \in Parser!Erroneous
    BY DEF ParserInv, ErrsRightly
  <2>3. {"nolength", "badlength", "noboundary"} \subseteq Parser!Erroneous
    BY DEF Parser!Erroneous
  <2>4. isErr' => isErr \/ kind \in {"nolength", "badlength", "noboundary"}
    BY <1>1, Zenon
  <2> QED BY <1>1, <2>1, <2>2, <2>3, <2>4
<1>9. ParserTypes'
  <2>1. ParserNumbers'
    BY <1>1, <1>3, <1>4, <1>5 DEF ParserInv, ParserTypes, ParserNumbers
  <2>2. ParserFlags'
    BY <1>1, <1>8, <1>13 DEF ParserInv, ParserTypes, ParserFlags
  <2> QED BY <2>1, <2>2 DEF ParserTypes
<1>10. InHeaders' /\ InAll'
  <2>1. InHeaders'
    <3>1. kind \in {"nolength", "badlength"} => isErr' /\ ~ok' /\ parsing'
      <4>1. kind \in {"nolength", "badlength"} => kind \notin Parser!Bodiless
        BY <1>7
      <4> QED BY <1>1, <4>1, Zenon
    <3> QED BY <1>1, <1>2, <1>4, <1>5, <1>6, <1>8, <3>1 DEF InHeaders
  <2>2. kind \in Parser!Bodiless =>
           /\ pos' > 0 /\ ok' /\ parsing'
           /\ savedTo' = IF kind' = "form" THEN Parser!EndAt' ELSE Parser!Size'
    <3>1. pos' > 0 /\ savedTo' = Parser!DataAt
      BY <1>1, <1>4, <1>6
    <3>2. kind \in Parser!Bodiless => ok' /\ parsing'
      BY <1>1, Zenon
    <3>3. kind \in Parser!Bodiless => kind # "form" /\ Parser!Size = Parser!DataAt
      BY <1>2, BodyLayout DEF Parser!Bodiless
    <3> QED BY <1>1, <1>5, <3>1, <3>2, <3>3
  <2>3. InAll'
    BY <1>1, <1>8, <2>2, Zenon DEF InAll, SavedAll
  <2> QED BY <2>1, <2>3
<1>11. InBody'
  <2>1. kind # "form" => Parser!DataAt = Parser!BodyAt
    BY <1>2, BodyLayout
  <2>5. kind \notin Parser!Bodiless => ~ok'
    BY <1>1, Zenon
  <2>2. CASE kind \in Parser!Plain
    <3>1. ~ok' /\ ~partHead' /\ kind' \in Parser!Plain
      BY <1>1, <1>6, <1>7, <2>2, <2>5
    <3>2. pos' = Parser!BodyAt + received' /\ savedTo' = pos' /\ received' < BodyLen
      BY <1>1, <1>4, <1>6, <2>1, <2>2 DEF Parser!Plain
    <3> QED BY <3>1, <3>2, Zenon DEF InBody
  <2>3. CASE kind = "form"
    <3>1. /\ ~ok' /\ ~partHead' /\ kind' = "form"
          /\ pos' = Parser!BodyAt /\ received' = 0 /\ savedTo' = Parser!DataAt'
      BY <1>1, <1>4, <1>5, <1>6, <1>7, <2>3, <2>5
    <3> QED BY <3>1, Zenon DEF InBody
  <2>4. CASE kind \in Parser!Bodiless \cup {"nolength", "badlength"}
    <3>1. state' # "body"
      BY <1>8, <2>4
    <3> QED BY <3>1 DEF InBody
  <2> QED BY <1>7, <2>2, <2>3, <2>4
<1>12. InLine' /\ ErrsRightly' /\ Told'
  BY <1>1, <1>6, <1>8, <1>13 DEF InLine, ErrsRightly, Told
<1> QED BY <1>9, <1>10, <1>11, <1>12 DEF ParserInv

LEMMA PlainBodyStep == ASSUME ParserInv, Parser!PlainBody PROVE ParserInv'
<1> USE ParserConstants, Layout
<1> DEFINE n == Parser!Min({arrived - pos, Parser!ContentLength - received})
<1>1. /\ parsing /\ state = "body" /\ pos < arrived /\ kind \in Parser!Plain
      /\ pos' = pos + n /\ savedTo' = pos + n /\ received' = received + n
      /\ state' = IF Parser!Enough(received + n) THEN "all" ELSE "body"
      /\ ok' = Parser!Enough(received + n)
      /\ UNCHANGED <<kind, arrived, parsing, partHead, isErr, verdict>>
  BY DEF Parser!PlainBody, Parser!Looping, Parser!input
<1>2. kind \in Kinds /\ pos \in Nat /\ arrived \in Nat /\ received \in Nat
  BY DEF ParserInv, ParserTypes, ParserNumbers
<1>3. /\ Parser!ContentLength = BodyLen /\ Parser!Size = Parser!BodyAt + BodyLen
      /\ pos = Parser!BodyAt + received /\ received < BodyLen /\ ~partHead
      /\ verdict = "more" /\ kind # "form"
  BY <1>1, <1>2, BodyLayout DEF ParserInv, InBody, ParserTypes, ParserFlags, Told, Parser!Plain
<1>4. n \in Nat /\ n > 0 /\ n <= arrived - pos /\ n <= BodyLen - received
  <2>1. /\ arrived - pos \in Nat /\ arrived - pos > 0
        /\ BodyLen - received \in Nat /\ BodyLen - received > 0
    BY <1>1, <1>2, <1>3
  <2> DEFINE S == {arrived - pos, BodyLen - received}
  <2>2. S \subseteq Nat /\ S # {}
    BY <2>1
  <2>3. Parser!Min(S) \in S /\ \A y \in S : Parser!Min(S) <= y
    BY <2>2, SmallestExists DEF Parser!Min
  <2> QED BY <1>3, <2>1, <2>3
<1> HIDE DEF n
<1>5. UNCHANGED <<Parser!DataAt, Parser!EndAt, Parser!Size>>
  BY <1>1, LayoutStays
<1>6. /\ pos' \in Nat /\ pos' <= arrived /\ pos' > 0 /\ savedTo' = pos'
      /\ received' \in Nat /\ pos' = Parser!BodyAt + received'
      /\ Parser!Enough(received + n) <=> received' >= BodyLen
      /\ received' <= BodyLen
  BY <1>1, <1>2, <1>3, <1>4 DEF Parser!Enough
<1>7. ParserNumbers'
  BY <1>1, <1>5, <1>6 DEF ParserInv, ParserTypes, ParserNumbers
<1>8. CASE Parser!Enough(received + n)
  <2>1. state' = "all" /\ ok' = TRUE
    BY <1>1, <1>8, Zenon
  <2>2. received' = BodyLen
    BY <1>2, <1>6, <1>8
  <2>3. savedTo' = Parser!Size'
    BY <1>3, <1>5, <1>6, <2>2
  <2>4. SavedAll'
    BY <1>1, <1>3, <2>3 DEF SavedAll
  <2>5. ParserFlags'
    BY <1>1, <2>1 DEF ParserInv, ParserTypes, ParserFlags
  <2>6. InAll'
    BY <1>1, <1>6, <2>1, <2>4, Zenon DEF InAll
  <2> QED
    BY <1>1, <1>3, <1>7, <2>1, <2>5, <2>6
       DEF ParserInv, ParserTypes, InLine, InHeaders, InBody, ErrsRightly, Told
<1>9. CASE ~Parser!Enough(received + n)
  <2>1. state' = "body" /\ ~ok' /\ ok' \in BOOLEAN
    <3>1. state' = "body" /\ ~ok'
      BY <1>1, <1>9, Zenon
    <3>2. ok' \in BOOLEAN
      BY <1>1 DEF Parser!Enough
    <3> QED BY <3>1, <3>2
  <2>2. received' < BodyLen
    BY <1>2, <1>6, <1>9
  <2>3. ParserFlags'
    BY <1>1, <2>1 DEF ParserInv, ParserTypes, ParserFlags
  <2>4. InBody'
    <3>1. kind' \in Parser!Plain /\ ~partHead'
      BY <1>1, <1>3
    <3> QED BY <1>6, <2>1, <2>2, <3>1, Zenon DEF InBody
  <2> QED
    BY <1>1, <1>3, <1>7, <2>1, <2>3, <2>4
       DEF ParserInv, ParserTypes, InLine, InHeaders, InAll, ErrsRightly, Told
<1> QED BY <1>8, <1>9

LEMMA PartHeadStep == ASSUME ParserInv, Parser!PartHead PROVE ParserInv'
<1> USE ParserConstants, Layout
<1>1. /\ parsing /\ state = "body" /\ kind = "form" /\ ~partHead /\ Parser!DataAt <= arrived
      /\ pos' = Parser!DataAt /\ received' = received + DelimLen + 4 + PartHeadLen + 4
      /\ partHead' = TRUE
      /\ UNCHANGED <<kind, arrived, parsing, state, savedTo, ok, isErr, verdict>>
  BY DEF Parser!PartHead, Parser!Looping, Parser!Counted, Parser!input, Parser!result, ParserInv,
         ParserTypes, ParserNumbers
<1>2. /\ kind \in Kinds /\ received = 0 /\ savedTo = Parser!DataAt /\ ~ok
      /\ verdict = "more"
  BY <1>1 DEF ParserInv, ParserTypes, ParserNumbers, ParserFlags, InBody, Told, Parser!Plain, Parser!Plain
<1>3. /\ Parser!DataAt \in Nat /\ Parser!EndAt = Parser!DataAt + BodyLen + 2
      /\ Parser!DataAt = Parser!BodyAt + DelimLen + PartHeadLen + 6
  BY <1>1, <1>2, BodyLayout
<1>4. UNCHANGED <<Parser!DataAt, Parser!EndAt, Parser!Size>>
  BY <1>1, LayoutStays
<1>5. /\ received' \in Nat /\ received' = pos' - Parser!BodyAt + 2 /\ pos' = savedTo'
      /\ Parser!DataAt' <= pos' /\ pos' <= Parser!EndAt'
  BY <1>1, <1>2, <1>3, <1>4
<1>6. ParserNumbers'
  BY <1>1, <1>3, <1>4, <1>5 DEF ParserInv, ParserTypes, ParserNumbers
<1>7. ParserFlags'
  BY <1>1 DEF ParserInv, ParserTypes, ParserFlags
<1>8. InBody'
  <2>1. ~ok' /\ kind' = "form" /\ partHead'
    BY <1>1, <1>2
  <2> QED BY <1>5, <2>1, Zenon DEF InBody
<1> QED
  BY <1>1, <1>2, <1>6, <1>7, <1>8 DEF ParserInv, ParserTypes, InLine, InHeaders, InAll, ErrsRightly, Told

LEMMA PartDataStep == ASSUME ParserInv, Parser!PartData PROVE ParserInv'
<1> USE ParserConstants, Layout
<1> DEFINE n == Parser!Min({Parser!ContentLength - Parser!EndLen - received, arrived - pos})
<1>1. /\ parsing /\ state = "body" /\ pos < arrived /\ partHead /\ n > 0
      /\ pos' = pos + n /\ savedTo' = pos + n /\ received' = received + n
      /\ ok' = FALSE
      /\ UNCHANGED <<kind, arrived, parsing, state, partHead, isErr, verdict>>
  BY DEF Parser!PartData, Parser!Looping, Parser!input
<1>2. kind \in Kinds /\ pos \in Nat /\ arrived \in Nat /\ received \in Nat
  BY DEF ParserInv, ParserTypes, ParserNumbers
<1>3. /\ kind = "form" /\ pos = savedTo /\ received = pos - Parser!BodyAt + 2
      /\ Parser!DataAt <= pos /\ pos <= Parser!EndAt /\ ~ok
      /\ verdict = "more"
  BY <1>1 DEF ParserInv, InBody, ParserTypes, ParserFlags, Told, Parser!Plain
<1>4. /\ Parser!DataAt \in Nat /\ Parser!EndAt = Parser!DataAt + BodyLen + 2
      /\ Parser!Size = Parser!EndAt + DelimLen + 4
      /\ Parser!ContentLength = Parser!Size - Parser!BodyAt /\ Parser!EndLen = DelimLen + 2
  BY <1>2, <1>3, BodyLayout DEF Parser!EndLen
<1>5. Parser!ContentLength - Parser!EndLen - received = Parser!EndAt - pos
  BY <1>2, <1>3, <1>4
<1>6. n \in Nat /\ n <= Parser!EndAt - pos /\ n <= arrived - pos
  <2>1. arrived - pos \in Nat /\ Parser!EndAt - pos \in Nat
    BY <1>1, <1>2, <1>3, <1>4
  <2> DEFINE S == {Parser!EndAt - pos, arrived - pos}
  <2>2. S \subseteq Nat /\ S # {}
    BY <2>1
  <2>3. Parser!Min(S) \in S /\ \A y \in S : Parser!Min(S) <= y
    BY <2>2, SmallestExists DEF Parser!Min
  <2> QED BY <1>5, <2>2, <2>3
<1> HIDE DEF n
<1>7. UNCHANGED <<Parser!DataAt, Parser!EndAt, Parser!Size>>
  BY <1>1, LayoutStays
<1>8. /\ pos' \in Nat /\ received' \in Nat /\ pos' <= arrived /\ savedTo' = pos'
      /\ received' = pos' - Parser!BodyAt + 2
      /\ Parser!DataAt' <= pos' /\ pos' <= Parser!EndAt'
  BY <1>1, <1>2, <1>3, <1>4, <1>6, <1>7
<1>9. ParserNumbers'
  BY <1>1, <1>7, <1>8 DEF ParserInv, ParserTypes, ParserNumbers
<1>10. ParserFlags'
  BY <1>1 DEF ParserInv, ParserTypes, ParserFlags
<1>11. InBody'
  <2>1. ~ok' /\ kind' = "form" /\ partHead'
    BY <1>1, <1>3
  <2> QED BY <1>8, <2>1, Zenon DEF InBody
<1> QED
  BY <1>1, <1>3, <1>9, <1>10, <1>11
     DEF ParserInv, ParserTypes, InLine, InHeaders, InAll, ErrsRightly, Told

LEMMA PartEndStep == ASSUME ParserInv, Parser!PartEnd PROVE ParserInv'
<1> USE ParserConstants, Layout
<1>1. /\ parsing /\ state = "body" /\ partHead
      /\ Parser!EndAt + Parser!EndLen <= arrived
      /\ savedTo' = Parser!EndAt /\ pos' = Parser!EndAt + Parser!EndLen
      /\ state' = "all" /\ ok' = TRUE
      /\ UNCHANGED <<kind, arrived, parsing, received, partHead, isErr, verdict>>
  BY DEF Parser!PartEnd, Parser!Looping, Parser!EndInSight, Parser!InSight, Parser!input
<1>2. kind \in Kinds /\ kind = "form" /\ verdict = "more"
  BY <1>1 DEF ParserInv, InBody, ParserTypes, ParserNumbers, ParserFlags, Told, Parser!Plain
<1>3. Parser!EndAt \in Nat /\ Parser!EndLen \in Nat /\ Parser!EndLen > 0
  BY <1>2, BodyLayout DEF Parser!EndLen
<1>4. UNCHANGED <<Parser!DataAt, Parser!EndAt, Parser!Size>>
  BY <1>1, LayoutStays
<1>5. pos' \in Nat /\ pos' <= arrived /\ pos' > 0 /\ savedTo' \in Nat
  BY <1>1, <1>3
<1>6. ParserNumbers'
  BY <1>1, <1>4, <1>5 DEF ParserInv, ParserTypes, ParserNumbers
<1>7. ParserFlags'
  BY <1>1 DEF ParserInv, ParserTypes, ParserFlags
<1>8. SavedAll'
  BY <1>1, <1>2, <1>4 DEF SavedAll
<1>9. InAll'
  BY <1>1, <1>5, <1>8, Zenon DEF InAll
<1> QED
  BY <1>1, <1>2, <1>6, <1>7, <1>9
     DEF ParserInv, ParserTypes, InLine, InHeaders, InBody, ErrsRightly, Told

LEMMA ReturnStep == ASSUME ParserInv, Parser!Return PROVE ParserInv'
<1> USE ParserConstants, Layout
<1>1. /\ pos >= arrived \/ state = "all"
      /\ parsing' = FALSE
      /\ verdict' = CASE ok \/ (state = "all" /\ pos < arrived) -> "ok"
                      [] isErr /\ ~ok -> "bad"
                      [] OTHER -> "more"
      /\ UNCHANGED <<kind, arrived, savedTo, ok, isErr>>
  BY DEF Parser!Return, Parser!input
<1>2. parsing
  BY DEF Parser!Return
<1>3. \/ /\ verdict' # "more" /\ pos' = arrived /\ state' = "line"
         /\ received' = 0 /\ partHead' = FALSE
      \/ verdict' = "more" /\ UNCHANGED <<pos, state, received, partHead>>
  BY DEF Parser!Return
<1>4. kind \in Kinds /\ pos \in Nat /\ arrived \in Nat /\ pos <= arrived
  BY DEF ParserInv, ParserTypes, ParserNumbers
<1>5. UNCHANGED <<Parser!DataAt, Parser!EndAt, Parser!Size>>
  BY <1>1, LayoutStays
<1>6. state # "line"
  BY <1>1, <1>2, <1>4 DEF ParserInv, InLine
<1>7. ParserNumbers'
  BY <1>1, <1>3, <1>4, <1>5 DEF ParserInv, ParserTypes, ParserNumbers
<1>8. verdict' \in {"ok", "bad", "more"}
  BY <1>1, Zenon
<1>9. ParserFlags'
  BY <1>1, <1>3, <1>8 DEF ParserInv, ParserTypes, ParserFlags
<1>10. CASE state = "all"
  <2>1. ok /\ SavedAll /\ pos > 0
    BY <1>10 DEF ParserInv, InAll
  <2>2. verdict' = "ok"
    BY <1>1, <2>1, Zenon
  <2>3. SavedAll' /\ pos' > 0 /\ state' = "line"
    BY <1>1, <1>3, <1>4, <1>5, <2>1, <2>2 DEF SavedAll
  <2> QED
    BY <1>1, <1>7, <1>9, <2>2, <2>3
       DEF ParserInv, ParserTypes, InLine, InHeaders, InBody, InAll, ErrsRightly, Told
<1>11. CASE state = "headers" \/ state = "body"
  <2>1. ~ok
    BY <1>11 DEF ParserInv, InHeaders, InBody
  <2>2. CASE isErr
    <3>1. kind \in Parser!Erroneous
      BY <1>11, <2>2 DEF ParserInv, ErrsRightly
    <3>2. verdict' = "bad"
      BY <1>1, <1>11, <2>1, <2>2, Zenon
    <3>3. savedTo <= Parser!Size
      <4>1. Parser!DataAt <= Parser!Size
        <5>1. kind # "form"
          BY <3>1 DEF Parser!Erroneous
        <5>2. kind \notin Parser!Bodiless => Parser!Size = Parser!BodyAt + BodyLen
          BY <5>1 DEF Parser!Size, Parser!DataEnd, Parser!DataAt
        <5> QED BY <1>4, <5>1, <5>2, BodyLayout
      <4>2. arrived <= Parser!Size
        BY DEF ParserInv, ParserTypes, ParserNumbers
      <4>3. kind # "form"
        BY <3>1 DEF Parser!Erroneous
      <4>4. savedTo = Parser!DataAt \/ savedTo = pos
        BY <1>11, <4>3 DEF ParserInv, InHeaders, InBody
      <4> QED BY <1>4, <4>1, <4>2, <4>4, BodyLayout
    <3>4. state' = "line" /\ savedTo' <= Parser!Size' /\ kind' \in Parser!Erroneous
      BY <1>1, <1>3, <1>5, <3>1, <3>2, <3>3
    <3> QED
      BY <1>1, <1>7, <1>9, <3>2, <3>4
         DEF ParserInv, ParserTypes, InLine, InHeaders, InBody, InAll, ErrsRightly, Told
  <2>3. CASE ~isErr
    <3>1. state # "all"
      BY <1>11
    <3>2. verdict' = "more"
      BY <1>1, <2>1, <2>3, <3>1, Zenon
    <3>3. UNCHANGED <<pos, state, received, partHead>>
      BY <1>3, <3>2
    <3> QED
      BY <1>1, <1>5, <1>6, <1>7, <1>9, <1>11, <2>3, <3>2, <3>3
         DEF ParserInv, ParserTypes, InLine, InHeaders, InBody, InAll, ErrsRightly, Told
  <2> QED BY <2>2, <2>3
<1> QED BY <1>6, <1>10, <1>11 DEF ParserInv, ParserTypes, ParserFlags

LEMMA ParserNext == ASSUME ParserInv, [Next]_vars PROVE ParserInv'
<1>1. CASE UNCHANGED parserVars
  <2>1. UNCHANGED <<kind, arrived, parsing, pos, state, received, partHead, ok, isErr, savedTo,
                    verdict>>
    BY <1>1 DEF parserVars
  <2>2. UNCHANGED <<Parser!DataAt, Parser!EndAt, Parser!Size>>
    BY <2>1, LayoutStays
  <2> QED
    BY <2>1, <2>2
       DEF ParserInv, ParserTypes, ParserNumbers, ParserFlags, InLine, InHeaders, InBody, InAll,
           SavedAll, ErrsRightly, Told
<1> QED
  BY PartSteps, ChunkStep, RequestLineStep, TooLongStep, HeaderLineStep, HeadersEndStep,
     PlainBodyStep, PartHeadStep, PartDataStep, PartEndStep, ReturnStep, <1>1
     DEF Parser!Next, Parser!Parse

(* my_http_context.cpp: for all lengths of line, headers and body, and     *)
(* however the bytes are cut, nothing behind the body is ever saved: of a  *)
(* form never a byte of the end boundary.                                  *)
THEOREM ParserSavesBody == Spec => []SavesBodyOnly
<1>1. Spec => []ParserInv
  BY ParserInit, ParserNext, PTL DEF Spec
<1> QED BY <1>1, ParserMeans, PTL

(* my_http_context.cpp: a request is reported complete only when its whole *)
(* body has been saved and its length was understood, and in error only if *)
(* the parser has an error exit for it.                                    *)
THEOREM ParserVerdict == Spec => []VerdictRight
<1>1. Spec => []ParserInv
  BY ParserInit, ParserNext, PTL DEF Spec
<1> QED BY <1>1, ParserMeans, PTL

-----------------------------------------------------------------------------
(* The rate limiter.                                                       *)
LEMMA LimiterConstants ==
    /\ Unit \in Nat \ {0} /\ Rate \in Nat /\ LimiterMaxClock \in Nat
    /\ Limiter!Full \in Nat
<1>1. Capacity \in Nat /\ Unit \in Nat \ {0} /\ Rate \in Nat /\ LimiterMaxClock \in Nat
  BY PartsAssumption DEF PartsAssumption, Limiter!BucketAssumption
<1> QED BY <1>1 DEF Limiter!Full

LimiterTypes ==
    /\ tokens \in Nat /\ tokens <= Limiter!Full
    /\ now \in 0 .. LimiterMaxClock /\ last_time \in 0 .. now
    /\ admitted \in [0 .. LimiterMaxClock -> Nat]

(* From any time to the last refill, what was let through and what is left *)
(* is not more than the burst and the rate allow; since then nothing was.  *)
Budget ==
    \A from \in 0 .. now :
        /\ from <= last_time =>
              Unit * Limiter!Admitted(from, now) + tokens
                  <= Limiter!Full + Rate * (last_time - from)
        /\ last_time < from => Limiter!Admitted(from, now) = 0

LimiterInv == LimiterTypes /\ Budget /\ NeverOverRate

LEMMA LimitOf ==
    ASSUME NEW n \in Nat
    PROVE  /\ Limiter!NotAbove(n) \in Nat
           /\ Limiter!NotAbove(n) <= n /\ Limiter!NotAbove(n) <= Limiter!Full
<1>1. \E x \in {Limiter!Full, n} : \A y \in {Limiter!Full, n} : x <= y
  BY LimiterConstants
<1>2. /\ Limiter!NotAbove(n) \in {Limiter!Full, n}
      /\ \A y \in {Limiter!Full, n} : Limiter!NotAbove(n) <= y
  BY <1>1 DEF Limiter!NotAbove, Limiter!Min
<1> QED BY <1>2, LimiterConstants

LEMMA RefilledBounds ==
    ASSUME LimiterTypes
    PROVE  /\ Rate * (now - last_time) \in Nat
           /\ Limiter!Refilled \in Nat /\ Limiter!Refilled <= Limiter!Full
           /\ Limiter!Refilled <= tokens + Rate * (now - last_time)
<1>1. Rate * (now - last_time) \in Nat /\ tokens \in Nat
  BY LimiterConstants DEF LimiterTypes
<1>2. tokens + Rate * (now - last_time) \in Nat
  BY <1>1
<1> QED BY <1>1, <1>2, LimitOf DEF Limiter!Refilled

(* The times before now are not written any more.                          *)
LEMMA Past ==
    ASSUME LimiterTypes, NEW from \in 0 .. now, NEW to \in from .. now
    PROVE  /\ Limiter!Before(from) \in Nat /\ admitted[to] \in Nat
           /\ Limiter!Admitted(from, to) \in Int
<1>1. LimiterMaxClock \in Nat /\ now \in Nat /\ to \in 0 .. LimiterMaxClock
  BY LimiterConstants DEF LimiterTypes
<1>2. from # 0 => from - 1 \in 0 .. LimiterMaxClock
  BY <1>1
<1>3. Limiter!Before(from) \in Nat /\ admitted[to] \in Nat
  BY <1>1, <1>2 DEF LimiterTypes, Limiter!Before
<1> QED BY <1>3 DEF Limiter!Admitted

LEMMA LimiterInit == Init => LimiterInv
<1> SUFFICES ASSUME Init PROVE LimiterInv
  OBVIOUS
<1> USE LimiterConstants DEF Init, Limiter!Init, Limiter!Times
<1>1. LimiterTypes
  BY DEF LimiterTypes
<1>2. Limiter!Admitted(0, 0) = 0 /\ now = 0 /\ last_time = 0
  BY DEF Limiter!Admitted, Limiter!Before
<1>3. Rate * (0 - 0) = 0 /\ Unit * 0 = 0
  OBVIOUS
<1> QED BY <1>1, <1>2, <1>3 DEF LimiterInv, Budget, NeverOverRate, Limiter!NeverOverRate

LEMMA LimiterTick == ASSUME LimiterInv, Limiter!Tick PROVE LimiterInv'
<1>0. /\ now' = now + 1 /\ now < LimiterMaxClock
      /\ admitted' = [admitted EXCEPT ![now + 1] = admitted[now]]
      /\ tokens' = tokens /\ last_time' = last_time
  BY DEF Limiter!Tick
<1>1. /\ LimiterTypes /\ LimiterMaxClock \in Nat /\ now \in Nat /\ last_time \in 0 .. now
      /\ admitted \in [0 .. LimiterMaxClock -> Nat]
  BY LimiterConstants DEF LimiterInv, LimiterTypes
<1>2. LimiterTypes'
  BY <1>0, <1>1 DEF LimiterTypes, Limiter!Full
<1>3. \A t \in 0 .. now : admitted'[t] = admitted[t]
  BY <1>0, <1>1
<1>4. admitted'[now + 1] = admitted[now]
  BY <1>0, <1>1
<1>5. ASSUME NEW from \in 0 .. now + 1
      PROVE  Limiter!Before(from)' = Limiter!Before(from)
  <2>1. from # 0 => from - 1 \in 0 .. now
    BY <1>1
  <2> QED BY <1>3, <2>1 DEF Limiter!Before
<1>6. ASSUME NEW from \in 0 .. now, NEW to \in from .. now
      PROVE  Limiter!Admitted(from, to)' = Limiter!Admitted(from, to)
  <2>1. from \in 0 .. now + 1 /\ to \in 0 .. now
    BY <1>1
  <2> QED BY <1>3, <1>5, <2>1 DEF Limiter!Admitted
<1>7. ASSUME NEW from \in 0 .. now
      PROVE  admitted'[now + 1] - Limiter!Before(from)' = Limiter!Admitted(from, now)
  <2>1. from \in 0 .. now + 1
    BY <1>1
  <2> QED BY <1>4, <1>5, <2>1 DEF Limiter!Admitted
<1>8. ASSUME NEW from, from = now + 1
      PROVE  admitted'[now + 1] - Limiter!Before(from)' = 0
  <2>1. from # 0 /\ from - 1 = now /\ now \in 0 .. now /\ now \in 0 .. LimiterMaxClock
    BY <1>0, <1>1, <1>8
  <2>2. Limiter!Before(from)' = admitted[now] /\ admitted[now] \in Nat
    BY <1>1, <1>3, <2>1 DEF Limiter!Before
  <2> QED BY <1>4, <2>2
<1>10. \A from \in 0 .. now + 1 : from \in 0 .. now \/ from = now + 1
  BY <1>1
<1>11. Budget'
  <2> SUFFICES ASSUME NEW from \in 0 .. now + 1
               PROVE  /\ from <= last_time =>
                            Unit * (admitted'[now + 1] - Limiter!Before(from)') + tokens
                                <= Limiter!Full + Rate * (last_time - from)
                      /\ last_time < from =>
                            admitted'[now + 1] - Limiter!Before(from)' = 0
    BY <1>0 DEF Budget, Limiter!Admitted, Limiter!Full
  <2>1. CASE from \in 0 .. now
    <3>1. /\ from <= last_time =>
                Unit * Limiter!Admitted(from, now) + tokens
                    <= Limiter!Full + Rate * (last_time - from)
          /\ last_time < from => Limiter!Admitted(from, now) = 0
      BY <2>1 DEF LimiterInv, Budget
    <3>2. admitted'[now + 1] - Limiter!Before(from)' = Limiter!Admitted(from, now)
      BY <1>7, <2>1
    <3> QED BY ONLY <3>1, <3>2, Zenon
  <2>2. CASE from = now + 1
    <3>1. ~(from <= last_time)
      BY <1>1, <2>2
    <3> QED BY <1>8, <2>2, <3>1
  <2> QED BY <1>10, <2>1, <2>2
<1>12. NeverOverRate'
  <2> SUFFICES ASSUME NEW from \in 0 .. now + 1, NEW to \in from .. now + 1
               PROVE  Unit * Limiter!Admitted(from, to)' <= Limiter!Full + Rate * (to - from)
    BY <1>0 DEF NeverOverRate, Limiter!NeverOverRate, Limiter!Full
  <2>1. CASE to \in from .. now /\ from \in 0 .. now
    BY <1>6, <2>1 DEF LimiterInv, NeverOverRate, Limiter!NeverOverRate
  <2>2. CASE to = now + 1 /\ from \in 0 .. now
    <3> DEFINE a == Limiter!Admitted(from, now)
    <3>1. Limiter!Admitted(from, to)' = a
      BY <1>7, <2>2 DEF Limiter!Admitted
    <3>2. now \in from .. now
      BY <1>1, <2>2
    <3>3. Unit * a <= Limiter!Full + Rate * (now - from) /\ a \in Int
      BY <1>1, <2>2, <3>2, Past DEF LimiterInv, NeverOverRate, Limiter!NeverOverRate
    <3> HIDE DEF a
    <3>4. Rate * (to - from) = Rate * (now - from) + Rate /\ Rate * (now - from) \in Int
      BY <1>1, <2>2, LimiterConstants
    <3>5. Unit * a \in Int
      BY <3>3, LimiterConstants
    <3> QED BY <3>1, <3>3, <3>4, <3>5, LimiterConstants
  <2>3. CASE from = now + 1
    <3>1. to = now + 1
      BY <1>1, <2>3
    <3>2. Limiter!Admitted(from, to)' = 0 /\ to - from = 0
      BY <1>1, <1>8, <2>3, <3>1 DEF Limiter!Admitted
    <3>3. Unit * 0 = 0 /\ Rate * 0 = 0
      BY LimiterConstants
    <3> QED BY <3>2, <3>3, LimiterConstants
  <2>4. to \in from .. now \/ to = now + 1
    BY <1>1
  <2> QED BY <1>10, <2>1, <2>2, <2>3, <2>4
<1> QED BY <1>2, <1>11, <1>12 DEF LimiterInv

LEMMA LimiterConsume ==
    ASSUME LimiterInv, Limiter!Admit \/ Limiter!Refuse PROVE LimiterInv'
<1>1. /\ LimiterTypes /\ LimiterMaxClock \in Nat /\ now \in Nat /\ last_time \in 0 .. now
      /\ admitted \in [0 .. LimiterMaxClock -> Nat] /\ now \in 0 .. LimiterMaxClock
  BY LimiterConstants DEF LimiterInv, LimiterTypes
<1>2. PICK n \in {0, 1} : /\ tokens' = Limiter!Refilled - Unit * n /\ Unit * n <= Limiter!Refilled
                         /\ admitted' = [admitted EXCEPT ![now] = admitted[now] + n]
                         /\ now' = now /\ last_time' = now
  <2>1. Unit * 1 = Unit /\ Unit * 0 = 0 /\ Limiter!Refilled \in Nat
    BY <1>1, LimiterConstants, RefilledBounds
  <2>2. CASE Limiter!Admit
    <3>1. /\ tokens' = Limiter!Refilled - Unit * 1 /\ Unit * 1 <= Limiter!Refilled
          /\ admitted' = [admitted EXCEPT ![now] = admitted[now] + 1]
          /\ now' = now /\ last_time' = now
      BY <2>1, <2>2, LimiterConstants DEF Limiter!Admit
    <3> QED BY <3>1
  <2>3. CASE Limiter!Refuse
    <3>1. [admitted EXCEPT ![now] = admitted[now] + 0] = admitted
      BY <1>1
    <3>2. /\ tokens' = Limiter!Refilled - Unit * 0 /\ Unit * 0 <= Limiter!Refilled
          /\ admitted' = [admitted EXCEPT ![now] = admitted[now] + 0]
          /\ now' = now /\ last_time' = now
      BY <2>1, <2>3, <3>1 DEF Limiter!Refuse
    <3> QED BY <3>2
  <2> QED BY <2>2, <2>3
<1>3. Unit * n \in Nat /\ tokens' \in Nat /\ tokens' <= Limiter!Full
  <2>1. Unit * n \in Nat /\ Limiter!Refilled \in Nat /\ Limiter!Refilled <= Limiter!Full
    BY <1>1, LimiterConstants, RefilledBounds
  <2> QED BY ONLY <1>2, <2>1, LimiterConstants
<1>4. LimiterTypes'
  BY <1>1, <1>2, <1>3 DEF LimiterTypes, Limiter!Full
<1>5. (\A t \in 0 .. now : t # now => admitted'[t] = admitted[t])
      /\ admitted'[now] = admitted[now] + n
  BY <1>1, <1>2
<1>6. ASSUME NEW from \in 0 .. now PROVE Limiter!Before(from)' = Limiter!Before(from)
  <2>1. from # 0 => from - 1 \in 0 .. now /\ from - 1 # now
    BY <1>1
  <2> QED BY <1>5, <2>1 DEF Limiter!Before
<1>7. ASSUME NEW from \in 0 .. now
      PROVE  Limiter!Admitted(from, now)' = Limiter!Admitted(from, now) + n
  <2>1. Limiter!Before(from) \in Nat /\ admitted[now] \in Nat
    BY <1>1, Past
  <2>2. admitted'[now'] = admitted[now] + n
    BY <1>2, <1>5
  <2>3. Limiter!Before(from)' = Limiter!Before(from)
    BY <1>6
  <2> QED BY ONLY <1>2, <2>1, <2>2, <2>3 DEF Limiter!Admitted
<1>8. ASSUME NEW from \in 0 .. now
      PROVE  Unit * (Limiter!Admitted(from, now) + n) + tokens'
                 <= Limiter!Full + Rate * (now - from)
  <2> DEFINE a == Limiter!Admitted(from, now)
             r == Limiter!Refilled
             f == Limiter!Full
  <2>1. a \in Int /\ f \in Nat
    BY <1>1, Past, LimiterConstants
  <2>2. /\ r \in Nat /\ r <= f /\ r <= tokens + Rate * (now - last_time)
        /\ Rate * (now - last_time) \in Nat
    BY <1>1, RefilledBounds
  <2>3. tokens' = r - Unit * n
    BY <1>2
  <2>4. /\ from <= last_time => Unit * a + tokens <= f + Rate * (last_time - from)
        /\ last_time < from => a = 0
    BY DEF LimiterInv, Budget
  <2> HIDE DEF a, r, f
  <2>5. Unit * (a + n) = Unit * a + Unit * n /\ Unit * a \in Int
    BY <2>1, LimiterConstants
  <2>6. CASE from <= last_time
    <3>1. Rate * (now - from) = Rate * (now - last_time) + Rate * (last_time - from)
      BY <1>1, LimiterConstants
    <3>2. Rate * (last_time - from) \in Int /\ tokens \in Nat
      BY <1>1, LimiterConstants DEF LimiterTypes
    <3>3. Unit * a + tokens <= f + Rate * (last_time - from)
      BY <2>4, <2>6
    <3> DEFINE un == Unit * n
               ua == Unit * a
               uan == Unit * (a + n)
               x == Rate * (now - last_time)
               y == Rate * (last_time - from)
               z == Rate * (now - from)
    <3>4. /\ uan = ua + un /\ z = x + y /\ tokens' = r - un /\ ua + tokens <= f + y
          /\ r <= tokens + x
          /\ un \in Int /\ ua \in Int /\ x \in Int /\ y \in Int
      BY <1>3, <2>2, <2>3, <2>5, <3>1, <3>2, <3>3
    <3> HIDE DEF un, ua, uan, x, y, z
    <3>5. uan + tokens' <= f + z
      BY ONLY <2>1, <2>2, <3>2, <3>4
    <3> QED BY <3>5 DEF uan, z, a, f
  <2>7. CASE last_time < from
    <3>1. Unit * a = 0 /\ Rate * (now - from) \in Nat
      BY <1>1, <2>4, <2>7, LimiterConstants
    <3> DEFINE un == Unit * n
               uan == Unit * (a + n)
               z == Rate * (now - from)
    <3>2. uan = 0 + un /\ tokens' = r - un /\ z \in Nat /\ un \in Nat
      BY <1>3, <2>3, <2>5, <3>1
    <3> HIDE DEF un, uan, z
    <3>3. uan + tokens' <= f + z
      BY ONLY <2>1, <2>2, <3>2
    <3> QED BY <3>3 DEF uan, z, a, f
  <2>8. from <= last_time \/ last_time < from
    BY <1>1
  <2> QED BY <2>6, <2>7, <2>8 DEF a, f
<1>9. Budget'
  <2> SUFFICES ASSUME NEW from \in 0 .. now
               PROVE  Unit * Limiter!Admitted(from, now)' + tokens'
                          <= Limiter!Full + Rate * (now - from)
    BY <1>1, <1>2 DEF Budget, Limiter!Full
  <2> QED BY <1>7, <1>8
<1>10. NeverOverRate'
  <2> SUFFICES ASSUME NEW from \in 0 .. now, NEW to \in from .. now
               PROVE  Unit * Limiter!Admitted(from, to)' <= Limiter!Full + Rate * (to - from)
    BY <1>2 DEF NeverOverRate, Limiter!NeverOverRate, Limiter!Full
  <2>1. CASE to = now
    <3> DEFINE a == Limiter!Admitted(from, now)
    <3>1. a \in Int /\ Unit * (a + n) + tokens' <= Limiter!Full + Rate * (now - from)
      BY <1>1, <1>8, Past, SMTT(30)
    <3>2. Limiter!Admitted(from, to)' = a + n
      BY <1>2, <1>7, <2>1 DEF Limiter!Admitted
    <3> HIDE DEF a
    <3>3. Unit * (a + n) \in Int /\ Rate * (now - from) \in Int /\ Limiter!Full \in Nat
      BY <1>1, <3>1, LimiterConstants
    <3> QED BY ONLY <1>3, <2>1, <3>1, <3>2, <3>3
  <2>2. CASE to # now
    <3>1. to \in 0 .. now
      BY <1>1
    <3>2. Limiter!Admitted(from, to)' = Limiter!Admitted(from, to)
      BY <1>5, <1>6, <2>2, <3>1 DEF Limiter!Admitted
    <3> QED BY <3>2 DEF LimiterInv, NeverOverRate, Limiter!NeverOverRate
  <2> QED BY <2>1, <2>2
<1> QED BY <1>4, <1>9, <1>10 DEF LimiterInv

LEMMA LimiterNext == ASSUME LimiterInv, [Next]_vars PROVE LimiterInv'
<1>1. CASE UNCHANGED limiterVars
  BY <1>1 DEF limiterVars, LimiterInv, LimiterTypes, Budget, NeverOverRate,
     Limiter!NeverOverRate, Limiter!Admitted, Limiter!Before, Limiter!Full
<1> QED BY <1>1, PartSteps, LimiterTick, LimiterConsume DEF Limiter!Next

(* TokenBucket.cpp: for every capacity, rate and length of time, in no     *)
(* period are more requests let through than the burst and the rate allow. *)
THEOREM LimiterKeepsRate == Spec => []NeverOverRate
<1>1. Spec => []LimiterInv
  BY LimiterInit, LimiterNext, PTL DEF Spec
<1>2. LimiterInv => NeverOverRate
  BY DEF LimiterInv
<1> QED BY <1>1, <1>2, PTL

-----------------------------------------------------------------------------
(* The sessions, in one worker process: several draw the same identifiers. *)
OneServer == \A v, w \in Servers : v = w

Asked == 1 .. Len(asker)
VisitIds == 1 .. SessionRequests
Records == [data : SUBSET VisitIds, expiryTime : Int]
VisitPoints == {"load", "found", "create", "new", "handler", "logout", "reply", "done"}

StoreTypes ==
    /\ up \in BOOLEAN /\ sessionClock \in Nat /\ drawn \in [Servers -> Nat]
    /\ object \in [Servers -> [VisitIds -> Records]]
    /\ sessions_ \in [Servers -> SUBSET VisitIds] /\ redis \in [VisitIds -> Records]
    /\ cookie \in [Clients -> 0 .. SessionRequests]
    /\ seen \in [VisitIds -> {-1} \cup Nat] /\ kept \in [VisitIds -> SUBSET VisitIds]
    /\ shared \subseteq VisitIds /\ gone \subseteq VisitIds
RequestTypes ==
    /\ asker \in Seq(Clients) /\ Len(asker) <= SessionRequests
    /\ process \in Seq(Servers) /\ Len(process) = Len(asker)
    /\ sessionPc \in Seq(VisitPoints) /\ Len(sessionPc) = Len(asker)
    /\ sid \in Seq(0 .. SessionRequests) /\ Len(sid) = Len(asker)
    /\ copy \in Seq(Records) /\ Len(copy) = Len(asker)
VisitTypes == StoreTypes /\ RequestTypes

(* An identifier is drawn for a request that has come past the manager, so *)
(* there are enough; one that has not been drawn is nowhere.               *)
Answered == {r \in Asked : sessionPc[r] \in {"handler", "reply", "done"}}
Drawn ==
    \A w \in Servers :
        /\ drawn[w] <= Cardinality(Answered)
        /\ \A r \in Asked : sid[r] <= drawn[w]
        /\ \A c \in Clients : cookie[c] <= drawn[w]
        /\ \A i \in VisitIds : drawn[w] < i =>
              /\ seen[i] = -1 /\ kept[i] = {} /\ i \notin shared /\ i \notin gone
              /\ object[w][i] = Visits!Nothing /\ i \notin sessions_[w]
              /\ redis[i] = Visits!Nothing
HasId ==
    \A r \in Asked : sessionPc[r] \in {"load", "found", "handler", "logout"} => sid[r] > 0

(* Every identifier has an owner, who alone has it in a cookie or a        *)
(* request, and whose requests alone have stored what its session holds.   *)
StoredBy(d, c) == \A q \in d : q \in Asked /\ asker[q] = c
OwnedBy(owner) ==
    /\ \A r \in Asked : sid[r] > 0 => asker[r] = owner[sid[r]]
    /\ \A c \in Clients : cookie[c] > 0 => c = owner[cookie[c]]
    /\ \A i \in VisitIds : /\ \A w \in Servers : StoredBy(object[w][i].data, owner[i])
                           /\ StoredBy(redis[i].data, owner[i])
    /\ \A r \in Asked : StoredBy(copy[r].data, asker[r])

(* What a storage keeps of session i, while somebody may still want it.    *)
Working(r, i) == sid[r] = i /\ sessionPc[r] \in {"found", "handler"}

InMemory(i) ==
    /\ redis[i] = Visits!Nothing
    /\ seen[i] >= 0 => Servers # {}
    /\ \A w \in Servers :
          /\ kept[i] \subseteq object[w][i].data
          /\ seen[i] >= 0 => /\ seen[i] + MaxAge <= object[w][i].expiryTime
                             /\ i \in sessions_[w] \/ object[w][i].expiryTime < sessionClock

InServer(i) ==
    /\ \A w \in Servers : i \notin sessions_[w]
    /\ seen[i] <= sessionClock
    /\ ~up => redis[i] = Visits!Nothing /\ seen[i] < 0
    /\ seen[i] >= 0 /\ sessionClock < seen[i] + MaxAge =>
          seen[i] + MaxAge <= redis[i].expiryTime
    /\ up /\ i \notin shared =>
          /\ \A r, q \in Asked : Working(r, i) /\ Working(q, i) => r = q
          /\ \A r \in Asked : Working(r, i) => kept[i] \subseteq copy[r].data
          /\ redis[i] # Visits!Nothing => kept[i] \subseteq redis[i].data

Ended(i) ==
    /\ redis[i] = Visits!Nothing /\ \A w \in Servers : i \notin sessions_[w]
    /\ \A r \in Asked : ~Working(r, i)

SessionAt(i) ==
    /\ Visits!Memory => InMemory(i)
    /\ ~Visits!Memory => InServer(i)
    /\ i \in gone => Ended(i)

VisitInv ==
    /\ VisitTypes /\ (Visits!Memory => up) /\ Drawn /\ HasId
    /\ \E owner \in [VisitIds -> Clients \cup {0}] : OwnedBy(owner)
    /\ \A i \in VisitIds : SessionAt(i)

LEMMA VisitConstants ==
    /\ Visits!Ids = VisitIds /\ Visits!NoId = 0 /\ Visits!Never = -1
    /\ Visits!Requests = DOMAIN asker
    /\ MaxAge \in Nat \ {0} /\ SessionRequests \in Nat
    /\ Visits!Nothing \in Records /\ Visits!Nothing.data = {} /\ Visits!Nothing.expiryTime = -1
<1>1. MaxAge \in Nat \ {0} /\ SessionRequests \in Nat
  BY PartsAssumption DEF PartsAssumption, Visits!SessionAssumption
<1> QED BY <1>1 DEF Visits!Ids, VisitIds, Visits!NoId, Visits!Never, Visits!Requests,
                    Visits!Nothing, Records

LEMMA EntryChanges ==
    ASSUME NEW S, NEW s \in Seq(S), NEW i \in 1 .. Len(s), NEW x \in S
    PROVE  /\ [s EXCEPT ![i] = x] \in Seq(S) /\ Len([s EXCEPT ![i] = x]) = Len(s)
           /\ [s EXCEPT ![i] = x][i] = x
           /\ \A j \in 1 .. Len(s) : j # i => [s EXCEPT ![i] = x][j] = s[j]
OBVIOUS

LEMMA EntryStays ==
    ASSUME NEW S, NEW s \in Seq(S), NEW i \in 1 .. Len(s)
    PROVE  s[i] \in S /\ s = [s EXCEPT ![i] = s[i]]
OBVIOUS

LEMMA RequestHas ==
    ASSUME RequestTypes, NEW r \in Asked
    PROVE  /\ r \in VisitIds /\ asker[r] \in Clients /\ process[r] \in Servers
           /\ sid[r] \in 0 .. SessionRequests /\ sid = [sid EXCEPT ![r] = sid[r]]
           /\ copy[r] \in Records /\ copy = [copy EXCEPT ![r] = copy[r]]
           /\ sid[r] > 0 => sid[r] \in VisitIds
<1>1. r \in 1 .. Len(sid) /\ r \in 1 .. Len(copy) /\ r \in 1 .. Len(asker)
      /\ r \in 1 .. Len(process) /\ r \in VisitIds
  BY VisitConstants DEF RequestTypes, Asked, VisitIds
<1>2. asker[r] \in Clients /\ process[r] \in Servers
  BY <1>1 DEF RequestTypes
<1>3. sid[r] \in 0 .. SessionRequests /\ sid = [sid EXCEPT ![r] = sid[r]]
  <2>1. sid \in Seq(0 .. SessionRequests)
    BY DEF RequestTypes
  <2> DEFINE S == 0 .. SessionRequests
  <2> HIDE DEF S
  <2>2. r \in 1 .. Len(sid) /\ sid \in Seq(S)
    BY <1>1, <2>1 DEF S
  <2>3. sid[r] \in S /\ sid = [sid EXCEPT ![r] = sid[r]]
    BY <2>2, EntryStays
  <2> QED BY <2>3 DEF S
<1>4. copy[r] \in Records /\ copy = [copy EXCEPT ![r] = copy[r]]
  BY <1>1, EntryStays DEF RequestTypes
<1> QED BY <1>1, <1>2, <1>3, <1>4 DEF VisitIds

LEMMA VisitMeans == ASSUME VisitInv PROVE NoStrangerData /\ SessionSurvives /\ LogoutHolds
<1> USE VisitConstants
<1>1. VisitTypes /\ HasId /\ \A i \in VisitIds : SessionAt(i)
  BY DEF VisitInv
<1>2. PICK owner \in [VisitIds -> Clients \cup {0}] : OwnedBy(owner)
  BY DEF VisitInv
<1>3. Asked = DOMAIN asker /\ Asked \subseteq VisitIds
  BY <1>1 DEF VisitTypes, StoreTypes, RequestTypes, Asked, VisitIds
<1>4. NoStrangerData
  <2>1. SUFFICES ASSUME NEW r \in Asked, sessionPc[r] = "handler",
                        NEW q \in Visits!Session(r).data
                 PROVE  asker[q] = asker[r]
    BY <1>3 DEF NoStrangerData, Visits!NoStrangerData
  <2>2. sid[r] > 0 /\ sid[r] \in 0 .. SessionRequests /\ process[r] \in Servers
    BY <1>1, <2>1, RequestHas DEF HasId, VisitTypes
  <2>3. asker[r] = owner[sid[r]]
    BY <1>2, <2>2 DEF OwnedBy
  <2>4. sid[r] \in VisitIds
    BY <2>2 DEF VisitIds
  <2>5. CASE Visits!Memory
    BY <1>2, <2>1, <2>2, <2>3, <2>4, <2>5 DEF OwnedBy, StoredBy, Visits!Session
  <2>6. CASE ~Visits!Memory
    BY <1>2, <2>1, <2>6 DEF OwnedBy, StoredBy, Visits!Session
  <2> QED BY <2>5, <2>6
<1>5. SessionSurvives
  <2>1. SUFFICES ASSUME NEW i \in VisitIds \ shared, seen[i] # -1
                 PROVE  IF Visits!Memory
                        THEN sessionClock <= seen[i] + MaxAge =>
                                \E w \in Servers :
                                    /\ i \in sessions_[w] /\ ~Visits!IsExpired(object[w][i])
                                    /\ kept[i] \subseteq object[w][i].data
                        ELSE sessionClock < seen[i] + MaxAge =>
                                Visits!InRedis(i) /\ kept[i] \subseteq redis[i].data
    BY DEF SessionSurvives, Visits!SessionSurvives
  <2>2. seen[i] \in Nat /\ sessionClock \in Nat
    BY <1>1, <2>1 DEF VisitTypes, StoreTypes, RequestTypes
  <2>3. CASE Visits!Memory
    <3>1. InMemory(i)
      BY <1>1, <2>3 DEF SessionAt
    <3>2. PICK w \in Servers : TRUE
      BY <2>2, <3>1 DEF InMemory
    <3>3. object[w][i].expiryTime \in Int
      BY <1>1, <3>2 DEF VisitTypes, StoreTypes, RequestTypes, Records
    <3> QED BY <2>2, <2>3, <3>1, <3>2, <3>3 DEF InMemory, Visits!IsExpired
  <2>4. CASE ~Visits!Memory
    <3>1. InServer(i)
      BY <1>1, <2>4 DEF SessionAt
    <3>2. up
      BY <2>2, <3>1 DEF InServer
    <3> QED BY <2>1, <2>2, <2>4, <3>1, <3>2 DEF InServer, Visits!InRedis
  <2> QED BY <2>3, <2>4
<1>6. LogoutHolds
  <2>1. SUFFICES ASSUME NEW i \in gone
                 PROVE  /\ ~Visits!InRedis(i) /\ \A w \in Servers : i \notin sessions_[w]
                        /\ Visits!InHand(i) = {}
    BY DEF LogoutHolds, Visits!LogoutHolds
  <2>2. Ended(i)
    BY <1>1 DEF VisitTypes, StoreTypes, RequestTypes, SessionAt
  <2> QED BY <1>3, <2>2 DEF Ended, Working, Visits!InRedis, Visits!InHand
<1> QED BY <1>4, <1>5, <1>6

LEMMA VisitInit == Init => VisitInv
<1> SUFFICES ASSUME Init PROVE VisitInv
  OBVIOUS
<1> USE VisitConstants
<1>1. Visits!Init
  BY DEF Init
<1>2. /\ up = TRUE /\ sessionClock = 0 /\ drawn = [w \in Servers |-> 0]
      /\ object = [w \in Servers |-> [i \in VisitIds |-> Visits!Nothing]]
      /\ sessions_ = [w \in Servers |-> {}]
      /\ redis = [i \in VisitIds |-> Visits!Nothing]
      /\ cookie = [c \in Clients |-> 0]
      /\ asker = <<>> /\ process = <<>> /\ sessionPc = <<>> /\ sid = <<>> /\ copy = <<>>
      /\ seen = [i \in VisitIds |-> -1] /\ kept = [i \in VisitIds |-> {}]
      /\ shared = {} /\ gone = {}
  BY <1>1 DEF Visits!Init
<1>3. Asked = {} /\ Answered = {} /\ Cardinality(Answered) = 0
  BY <1>2, FS_EmptySet DEF Asked, Answered
<1>4. VisitTypes
  BY <1>2 DEF VisitTypes, StoreTypes, RequestTypes, VisitPoints
<1>5. Drawn /\ HasId
  BY <1>2, <1>3 DEF Drawn, HasId
<1>6. \E owner \in [VisitIds -> Clients \cup {0}] : OwnedBy(owner)
  <2>1. [i \in VisitIds |-> 0] \in [VisitIds -> Clients \cup {0}]
    OBVIOUS
  <2>2. OwnedBy([i \in VisitIds |-> 0])
    BY <1>2, <1>3 DEF OwnedBy, StoredBy
  <2> QED BY <2>1, <2>2
<1>7. \A i \in VisitIds : SessionAt(i)
  BY <1>2, <1>3 DEF SessionAt, InMemory, InServer, Working
<1> QED BY <1>2, <1>4, <1>5, <1>6, <1>7 DEF VisitInv

-----------------------------------------------------------------------------
(* What a step does to the requests in the server: r goes on to `to' with  *)
(* session n, of which it has copy x.                                      *)
Moves(r, to, n, x) ==
    /\ sessionPc' = [sessionPc EXCEPT ![r] = to]
    /\ sid' = [sid EXCEPT ![r] = n] /\ copy' = [copy EXCEPT ![r] = x]
    /\ UNCHANGED <<storage, up, sessionClock, asker, process>>

LEMMA RequestMoves ==
    ASSUME RequestTypes, NEW r \in Asked, NEW to \in VisitPoints,
           NEW n \in 0 .. SessionRequests, NEW x \in Records, Moves(r, to, n, x)
    PROVE  /\ RequestTypes' /\ Asked' = Asked
           /\ sessionPc'[r] = to /\ sid'[r] = n /\ copy'[r] = x
           /\ \A q \in Asked : q # r => /\ sessionPc'[q] = sessionPc[q]
                                        /\ sid'[q] = sid[q] /\ copy'[q] = copy[q]
<1>1. /\ r \in 1 .. Len(sid) /\ r \in 1 .. Len(copy) /\ r \in 1 .. Len(sessionPc)
      /\ Asked = 1 .. Len(sid) /\ Asked = 1 .. Len(copy) /\ Asked = 1 .. Len(sessionPc)
  BY DEF RequestTypes, Asked
<1>2. /\ sessionPc' \in Seq(VisitPoints) /\ Len(sessionPc') = Len(sessionPc)
      /\ sessionPc'[r] = to
      /\ \A q \in Asked : q # r => sessionPc'[q] = sessionPc[q]
  BY <1>1, EntryChanges DEF RequestTypes, Moves
<1>3. /\ sid' \in Seq(0 .. SessionRequests) /\ Len(sid') = Len(sid) /\ sid'[r] = n
      /\ \A q \in Asked : q # r => sid'[q] = sid[q]
  BY <1>1, EntryChanges DEF RequestTypes, Moves
<1>4. /\ copy' \in Seq(Records) /\ Len(copy') = Len(copy) /\ copy'[r] = x
      /\ \A q \in Asked : q # r => copy'[q] = copy[q]
  BY <1>1, EntryChanges DEF RequestTypes, Moves
<1>5. UNCHANGED <<asker, process>>
  BY DEF Moves
<1> QED BY <1>2, <1>3, <1>4, <1>5 DEF RequestTypes, Asked

(* A step that leaves session i alone.                                     *)
Untouched(i) ==
    /\ seen'[i] = seen[i] /\ kept'[i] = kept[i] /\ redis'[i] = redis[i]
    /\ (i \in shared' <=> i \in shared) /\ (i \in gone' <=> i \in gone)
    /\ \A w \in Servers : /\ object'[w][i] = object[w][i]
                          /\ i \in sessions_'[w] <=> i \in sessions_[w]

LEMMA AnotherSession ==
    ASSUME RequestTypes, NEW r \in Asked, NEW to \in VisitPoints,
           NEW n \in 0 .. SessionRequests, NEW x \in Records, Moves(r, to, n, x),
           NEW i \in VisitIds, SessionAt(i), Untouched(i),
           i = n /\ to \in {"found", "handler"} => Working(r, i) /\ x = copy[r]
    PROVE  SessionAt(i)'
<1>1. /\ Asked' = Asked /\ sid'[r] = n /\ sessionPc'[r] = to /\ copy'[r] = x
      /\ \A q \in Asked : q # r => /\ sessionPc'[q] = sessionPc[q]
                                   /\ sid'[q] = sid[q] /\ copy'[q] = copy[q]
  BY RequestMoves
<1>2. \A q \in Asked' : Working(q, i)' => Working(q, i) /\ q \in Asked /\ copy'[q] = copy[q]
  BY <1>1 DEF Working
<1>3. UNCHANGED <<storage, up, sessionClock>>
  BY DEF Moves
<1>4. Visits!Memory' = Visits!Memory
  BY <1>3 DEF Visits!Memory
<1>5. InMemory(i) => InMemory(i)'
  BY <1>3 DEF InMemory, Untouched
<1>6. InServer(i) => InServer(i)'
  BY <1>2, <1>3 DEF InServer, Untouched
<1>7. Ended(i) => Ended(i)'
  BY <1>2 DEF Ended, Untouched
<1> QED BY <1>4, <1>5, <1>6, <1>7 DEF SessionAt, Untouched

(* Requests come past the manager and stay there.                          *)
LEMMA AnsweredGrows ==
    ASSUME RequestTypes, RequestTypes', Answered \subseteq Answered'
    PROVE  /\ Cardinality(Answered) \in Nat /\ Cardinality(Answered') \in Nat
           /\ Cardinality(Answered) <= Cardinality(Answered')
<1>1. Len(asker) \in Nat /\ Len(asker)' \in Nat
  BY DEF RequestTypes
<1>2. IsFiniteSet(Asked) /\ IsFiniteSet(Asked')
  BY <1>1, FS_Interval DEF Asked
<1>3. IsFiniteSet(Answered) /\ IsFiniteSet(Answered')
  BY <1>2, FS_Subset DEF Answered
<1> QED BY <1>3, FS_Subset, FS_CardinalityType

(* A step of request r that changes the session it has, and no other.      *)
LEMMA UsesSession ==
    ASSUME VisitInv, NEW r \in Asked, NEW own, own = sid[r],
           NEW to \in VisitPoints,
           NEW n \in {own, 0}, NEW x \in Records, Moves(r, to, n, x),
           StoreTypes', drawn' = drawn,
           sessionPc[r] \in {"handler", "reply", "done"} => to \in {"handler", "reply", "done"},
           to \in {"load", "found", "handler", "logout"} => n > 0,
           \A c \in Clients : \/ cookie'[c] = cookie[c]
                              \/ cookie'[c] = own /\ c = asker[r],
           \A i \in VisitIds : i # own => Untouched(i),
           StoredBy(x.data, asker[r]),
           own > 0 => /\ StoredBy(redis'[own].data, asker[r])
                      /\ \A w \in Servers : StoredBy(object'[w][own].data, asker[r])
                      /\ SessionAt(own)'
    PROVE  VisitInv'
<1>1. /\ RequestTypes /\ StoreTypes /\ Drawn /\ HasId
      /\ \A i \in VisitIds : SessionAt(i)
      /\ Visits!Memory => up
  BY DEF VisitInv, VisitTypes
<1>2. /\ asker[r] \in Clients /\ own \in 0 .. SessionRequests /\ n \in 0 .. SessionRequests
      /\ own > 0 => own \in VisitIds
  BY <1>1, RequestHas, VisitConstants
<1>3. /\ RequestTypes' /\ Asked' = Asked
      /\ sessionPc'[r] = to /\ sid'[r] = n /\ copy'[r] = x
      /\ \A q \in Asked : q # r => /\ sessionPc'[q] = sessionPc[q]
                                   /\ sid'[q] = sid[q] /\ copy'[q] = copy[q]
  BY <1>1, <1>2, RequestMoves
<1>4. UNCHANGED <<storage, up, sessionClock, asker, process>>
  BY DEF Moves
<1>5. Visits!Memory' => up'
  BY <1>1, <1>4 DEF Visits!Memory
<1>6. HasId'
  BY <1>1, <1>3 DEF HasId
<1>7. Drawn'
  <2>1. Answered \subseteq Answered'
    BY <1>3 DEF Answered
  <2>2. SUFFICES ASSUME NEW w \in Servers
                 PROVE  /\ drawn'[w] <= Cardinality(Answered')
                        /\ \A q \in Asked' : sid'[q] <= drawn'[w]
                        /\ \A c \in Clients : cookie'[c] <= drawn'[w]
                        /\ \A i \in VisitIds : drawn'[w] < i =>
                              /\ seen'[i] = -1 /\ kept'[i] = {} /\ i \notin shared' /\ i \notin gone'
                              /\ object'[w][i] = Visits!Nothing /\ i \notin sessions_'[w]
                              /\ redis'[i] = Visits!Nothing
    BY DEF Drawn, Visits!Nothing
  <2>3. drawn[w] \in Nat /\ own <= drawn[w] /\ drawn'[w] = drawn[w]
    BY <1>1 DEF StoreTypes, Drawn
  <2>4. drawn'[w] <= Cardinality(Answered')
    <3>1. drawn[w] <= Cardinality(Answered)
      BY <1>1 DEF Drawn
    <3>2. /\ Cardinality(Answered) \in Nat /\ Cardinality(Answered') \in Nat
          /\ Cardinality(Answered) <= Cardinality(Answered')
      BY <1>1, <1>3, <2>1, AnsweredGrows
    <3> QED BY <2>3, <3>1, <3>2
  <2>5. n <= drawn[w]
    BY <2>3
  <2>6. \A q \in Asked' : sid'[q] <= drawn'[w]
    BY <1>1, <1>3, <2>3, <2>5 DEF Drawn
  <2>7. \A c \in Clients : cookie'[c] <= drawn'[w]
    BY <1>1, <2>3 DEF Drawn
  <2>8. ASSUME NEW i \in VisitIds, drawn[w] < i
        PROVE  /\ seen'[i] = -1 /\ kept'[i] = {} /\ i \notin shared' /\ i \notin gone'
               /\ object'[w][i] = Visits!Nothing /\ i \notin sessions_'[w]
               /\ redis'[i] = Visits!Nothing
    <3>1. Untouched(i)
      BY <1>2, <2>3, <2>8 DEF VisitIds
    <3> QED BY <1>1, <2>8, <3>1 DEF Drawn, Untouched
  <2> QED BY <2>3, <2>4, <2>6, <2>7, <2>8
<1>8. \E owner \in [VisitIds -> Clients \cup {0}] : OwnedBy(owner)'
  <2>1. PICK owner \in [VisitIds -> Clients \cup {0}] : OwnedBy(owner)
    BY DEF VisitInv
  <2>2. own > 0 => asker[r] = owner[own]
    BY <2>1 DEF OwnedBy
  <2>s. \A d, c : StoredBy(d, c) => StoredBy(d, c)'
    BY <1>3, <1>4 DEF StoredBy
  <2>3. \A q \in Asked' : sid'[q] > 0 => asker'[q] = owner[sid'[q]]
    BY <1>3, <1>4, <2>1, <2>2 DEF OwnedBy
  <2>4. \A c \in Clients : cookie'[c] > 0 => c = owner[cookie'[c]]
    BY <2>1, <2>2 DEF OwnedBy
  <2>5. ASSUME NEW i \in VisitIds
        PROVE  /\ \A w \in Servers : StoredBy(object'[w][i].data, owner[i])
               /\ StoredBy(redis'[i].data, owner[i])
    <3>1. CASE i = own
      BY <1>2, <2>2, <2>5, <3>1 DEF VisitIds
    <3>2. CASE i # own
      BY <2>1, <2>5, <3>2 DEF OwnedBy, Untouched
    <3> QED BY <3>1, <3>2
  <2>6. \A q \in Asked : StoredBy(copy'[q].data, asker[q])
    BY <1>3, <2>1 DEF OwnedBy
  <2> QED BY <1>3, <1>4, <2>s, <2>3, <2>4, <2>5, <2>6 DEF OwnedBy
<1>9. ASSUME NEW i \in VisitIds PROVE SessionAt(i)'
  <2>1. CASE i = own
    BY <1>2, <1>9, <2>1 DEF VisitIds
  <2>2. CASE i # own
    <3>1. i # n
      BY <1>9, <2>2, VisitConstants DEF VisitIds
    <3>2. SessionAt(i) /\ Untouched(i)
      BY <1>1, <1>9, <2>2
    <3>3. RequestTypes /\ n \in 0 .. SessionRequests
      BY <1>1, <1>2
    <3> QED BY <3>1, <3>2, <3>3, AnotherSession, Zenon
  <2> QED BY <2>1, <2>2
<1> QED BY <1>3, <1>5, <1>6, <1>7, <1>8, <1>9 DEF VisitInv, VisitTypes

LEMMA SessionHas ==
    ASSUME VisitInv, NEW r \in Asked
    PROVE  /\ StoreTypes /\ RequestTypes
           /\ sid[r] \in 0 .. SessionRequests /\ StoredBy(copy[r].data, asker[r])
           /\ sessionPc[r] \in {"load", "found", "handler", "logout"} => sid[r] > 0
           /\ sid[r] > 0 =>
                 /\ sid[r] \in VisitIds /\ SessionAt(sid[r])
                 /\ StoredBy(redis[sid[r]].data, asker[r])
                 /\ \A w \in Servers : StoredBy(object[w][sid[r]].data, asker[r])
<1>1. PICK owner \in [VisitIds -> Clients \cup {0}] : OwnedBy(owner)
  BY DEF VisitInv
<1>2. StoreTypes /\ RequestTypes /\ HasId /\ \A i \in VisitIds : SessionAt(i)
  BY DEF VisitInv, VisitTypes
<1>3. sid[r] \in 0 .. SessionRequests /\ (sid[r] > 0 => sid[r] \in VisitIds)
  BY <1>2, RequestHas
<1>4. sid[r] > 0 => asker[r] = owner[sid[r]]
  BY <1>1 DEF OwnedBy
<1>5. sid[r] > 0 => /\ StoredBy(redis[sid[r]].data, asker[r])
                    /\ \A w \in Servers : StoredBy(object[w][sid[r]].data, asker[r])
  BY <1>1, <1>3, <1>4 DEF OwnedBy
<1>6. StoredBy(copy[r].data, asker[r])
  BY <1>1 DEF OwnedBy
<1> QED BY <1>2, <1>3, <1>5, <1>6 DEF HasId

LEMMA WorkingMoves ==
    ASSUME RequestTypes, NEW r \in Asked, NEW to \in VisitPoints,
           NEW n \in 0 .. SessionRequests, NEW x \in Records, Moves(r, to, n, x), NEW i
    PROVE  /\ Asked' = Asked /\ copy'[r] = x
           /\ Working(r, i)' <=> n = i /\ to \in {"found", "handler"}
           /\ \A q \in Asked : q # r => /\ Working(q, i)' <=> Working(q, i)
                                        /\ copy'[q] = copy[q]
<1>1. /\ Asked' = Asked
      /\ sessionPc'[r] = to /\ sid'[r] = n /\ copy'[r] = x
      /\ \A q \in Asked : q # r => /\ sessionPc'[q] = sessionPc[q]
                                   /\ sid'[q] = sid[q] /\ copy'[q] = copy[q]
  BY RequestMoves
<1> QED BY <1>1 DEF Working

LEMMA RefreshedFields ==
    ASSUME NEW s \in Records, sessionClock \in Nat
    PROVE  /\ Visits!Refreshed(s) \in Records
           /\ Visits!Refreshed(s).data = s.data
           /\ Visits!Refreshed(s).expiryTime = sessionClock + MaxAge
           /\ Visits!Refreshed(s) # Visits!Nothing
<1>1. Visits!Refreshed(s) = [s EXCEPT !.expiryTime = sessionClock + MaxAge]
  BY DEF Visits!Refreshed
<1>2. /\ Visits!Refreshed(s) \in Records
      /\ Visits!Refreshed(s).data = s.data
      /\ Visits!Refreshed(s).expiryTime = sessionClock + MaxAge
  BY <1>1, VisitConstants, SMTT(30) DEF Records
<1> QED BY <1>2, VisitConstants

LEMMA LoadMemoryStep ==
    ASSUME OneServer, VisitInv, NEW r \in Asked, Visits!LoadMemory(r)
    PROVE  VisitInv'
<1> USE VisitConstants
<1>1. PICK own, w, mine, expired :
          own = sid[r] /\ w = process[r] /\ mine = sessions_[w]
          /\ expired = Visits!IsExpired(object[w][own])
  OBVIOUS
<1>2. /\ sessionPc[r] = "load" /\ Visits!Memory
      /\ sessions_' = [sessions_ EXCEPT ![w] = IF expired THEN mine \ {own} ELSE mine]
      /\ sessionPc' = [sessionPc EXCEPT ![r] =
                           IF own \in mine /\ ~expired THEN "found" ELSE "create"]
      /\ UNCHANGED <<storage, up, sessionClock, asker, process, sid, copy>>
      /\ UNCHANGED <<drawn, object, redis, cookie, seen, kept, shared, gone>>
  BY <1>1 DEF Visits!LoadMemory, Visits!Goto, Visits!server, Visits!draws, Visits!clients, Visits!ghosts
<1>3. /\ StoreTypes /\ RequestTypes /\ own > 0 /\ own \in VisitIds /\ SessionAt(own)
      /\ own \in 0 .. SessionRequests /\ StoredBy(copy[r].data, asker[r])
      /\ StoredBy(redis[own].data, asker[r])
      /\ \A v \in Servers : StoredBy(object[v][own].data, asker[r])
  BY <1>1, <1>2, SessionHas
<1>4. /\ w \in Servers /\ copy[r] \in Records
      /\ sid = [sid EXCEPT ![r] = own] /\ copy = [copy EXCEPT ![r] = copy[r]]
  BY <1>1, <1>3, RequestHas
<1>5. PICK to \in {"found", "create"} :
          to = IF own \in mine /\ ~expired THEN "found" ELSE "create"
  OBVIOUS
<1>6. PICK x \in Records : x = copy[r]
  BY <1>4
<1>7. Moves(r, to, own, x)
  BY <1>2, <1>4, <1>5, <1>6 DEF Moves
<1>8. StoreTypes'
  BY <1>1, <1>2, <1>3, <1>4 DEF StoreTypes
<1>9. /\ \A v \in Servers : v = w
      /\ sessions_'[w] = IF expired THEN mine \ {own} ELSE mine
  BY <1>2, <1>3, <1>4 DEF OneServer, StoreTypes
<1>10. \A i \in VisitIds : i # own => Untouched(i)
  BY <1>1, <1>2, <1>9 DEF Untouched
<1>11. InMemory(own)'
  <2>1. InMemory(own)
    BY <1>2, <1>3 DEF SessionAt
  <2>2. expired => object[w][own].expiryTime < sessionClock
    <3>1. object[w][own].expiryTime \in Int /\ sessionClock \in Nat
      BY <1>3, <1>4 DEF StoreTypes, Records
    <3> QED BY <1>1, <3>1 DEF Visits!IsExpired
  <2> QED BY <1>1, <1>2, <1>9, <2>1, <2>2 DEF InMemory
<1>12. own \in gone' => Ended(own)'
  <2>1. SUFFICES ASSUME own \in gone PROVE Ended(own)'
    BY <1>2
  <2>2. Ended(own) /\ to = "create"
    BY <1>1, <1>3, <1>4, <1>5, <2>1 DEF SessionAt, Ended
  <2>3. /\ Asked' = Asked /\ ~Working(r, own)'
        /\ \A q \in Asked : q # r => (Working(q, own)' <=> Working(q, own))
    BY <1>3, <1>7, <2>2, WorkingMoves, r \in Asked DEF VisitPoints
  <2> QED BY <1>1, <1>2, <1>9, <2>2, <2>3 DEF Ended
<1>13. SessionAt(own)'
  BY <1>2, <1>11, <1>12 DEF SessionAt, Visits!Memory
<1> QED
  BY <1>1, <1>2, <1>3, <1>5, <1>6, <1>7, <1>8, <1>10, <1>13, UsesSession DEF VisitPoints

LEMMA LoadRedisStep ==
    ASSUME VisitInv, NEW r \in Asked, Visits!LoadRedis(r)
    PROVE  VisitInv'
<1> USE VisitConstants
<1>1. PICK own : own = sid[r]
  OBVIOUS
<1>2. /\ sessionPc[r] = "load" /\ ~Visits!Memory
      /\ IF Visits!InRedis(own)
         THEN /\ copy' = [copy EXCEPT ![r] = Visits!Refreshed(redis[own])]
              /\ sessionPc' = [sessionPc EXCEPT ![r] = "found"]
              /\ shared' = IF Visits!InHand(own) = {} THEN shared ELSE shared \cup {own}
         ELSE sessionPc' = [sessionPc EXCEPT ![r] = "create"] /\ UNCHANGED <<copy, shared>>
      /\ UNCHANGED <<storage, up, sessionClock, asker, process, sid>>
      /\ UNCHANGED <<drawn, object, sessions_, redis, cookie, seen, kept, gone>>
  BY <1>1 DEF Visits!LoadRedis, Visits!Goto, Visits!server, Visits!draws, Visits!clients, Visits!stores
<1>3. /\ StoreTypes /\ RequestTypes /\ own > 0 /\ own \in VisitIds /\ SessionAt(own)
      /\ own \in 0 .. SessionRequests /\ StoredBy(copy[r].data, asker[r])
      /\ StoredBy(redis[own].data, asker[r])
      /\ \A v \in Servers : StoredBy(object[v][own].data, asker[r])
  BY <1>1, <1>2, SessionHas
<1>4. /\ copy[r] \in Records /\ redis[own] \in Records /\ sessionClock \in Nat
      /\ sid = [sid EXCEPT ![r] = own] /\ copy = [copy EXCEPT ![r] = copy[r]]
  BY <1>1, <1>3, RequestHas DEF StoreTypes
<1>5. StoreTypes' /\ \A i \in VisitIds : i # own => Untouched(i)
  <2>1. shared' = shared \/ shared' = shared \cup {own}
    BY <1>2
  <2>2. UNCHANGED <<up, sessionClock, drawn, object, sessions_, redis, cookie, seen, kept, gone>>
    BY ONLY <1>2
  <2>3. /\ shared' \subseteq VisitIds
        /\ \A i \in VisitIds : i # own => (i \in shared' <=> i \in shared)
    BY ONLY <1>3, <2>1 DEF StoreTypes
  <2>4. StoreTypes'
    BY ONLY <1>3, <2>2, <2>3 DEF StoreTypes
  <2> QED BY ONLY <2>2, <2>3, <2>4 DEF Untouched
<1>6. CASE ~Visits!InRedis(own)
  <2>1. PICK x \in Records : x = copy[r]
    BY <1>4
  <2>2. Moves(r, "create", own, x)
    BY <1>2, <1>4, <1>6, <2>1 DEF Moves
  <2>3. Untouched(own)
    BY <1>2, <1>6 DEF Untouched
  <2>4. SessionAt(own)'
    BY <1>3, <2>2, <2>3, AnotherSession DEF VisitPoints
  <2> QED BY <1>1, <1>2, <1>3, <1>5, <2>1, <2>2, <2>4, UsesSession DEF VisitPoints
<1>7. CASE Visits!InRedis(own)
  <2>1. PICK x \in Records : x = Visits!Refreshed(redis[own]) /\ x.data = redis[own].data
    BY <1>4, RefreshedFields
  <2>2. Moves(r, "found", own, x)
    BY <1>2, <1>4, <1>7, <2>1 DEF Moves
  <2>3. /\ Asked' = Asked /\ copy'[r] = x
        /\ \A q \in Asked : q # r => (Working(q, own)' <=> Working(q, own))
    <3>1. RequestTypes /\ "found" \in VisitPoints /\ own \in 0 .. SessionRequests
      BY <1>3 DEF VisitPoints
    <3> QED BY ONLY r \in Asked, x \in Records, <2>2, <3>1, WorkingMoves, ZenonT(60)
  <2>4. /\ InServer(own) /\ own \notin gone /\ redis[own] # Visits!Nothing
    BY <1>2, <1>3, <1>7 DEF SessionAt, Ended, Visits!InRedis
  <2>5. own \notin shared' => own \notin shared /\ \A q \in Asked : ~Working(q, own)
    <3>1. SUFFICES ASSUME own \notin shared' PROVE own \notin shared /\ Visits!InHand(own) = {}
      BY <1>3, VisitConstants, SMTT(30) DEF Visits!InHand, Working, Asked, RequestTypes
    <3> QED BY <1>2, <1>7, <3>1
  <2>6. InServer(own)'
    <3>1. \A q \in Asked : own \notin shared' /\ Working(q, own)' => q = r
      BY <2>3, <2>5
    <3>2. up /\ own \notin shared' => kept[own] \subseteq x.data
      BY <2>1, <2>4, <2>5 DEF InServer
    <3>3. /\ \A w \in Servers : own \notin sessions_[w]
          /\ seen[own] <= sessionClock
          /\ ~up => redis[own] = Visits!Nothing /\ seen[own] < 0
          /\ seen[own] >= 0 /\ sessionClock < seen[own] + MaxAge =>
                seen[own] + MaxAge <= redis[own].expiryTime
          /\ up /\ own \notin shared => kept[own] \subseteq redis[own].data
      BY <2>4 DEF InServer
    <3> QED BY <1>2, <2>3, <2>5, <3>1, <3>2, <3>3 DEF InServer, Visits!Nothing
  <2>7. SessionAt(own)'
    BY <1>2, <2>4, <2>6 DEF SessionAt, Visits!Memory
  <2>8. StoredBy(x.data, asker[r])
    BY <1>3, <2>1
  <2> QED BY <1>1, <1>2, <1>3, <1>5, <2>1, <2>2, <2>7, <2>8, UsesSession DEF VisitPoints
<1> QED BY <1>6, <1>7

(* A session is saved: the map has the object, redis a refreshed copy.     *)
SavedAs(r, i, s, x) ==
    /\ copy' = [copy EXCEPT ![r] = x] /\ x = IF Visits!Memory THEN copy[r] ELSE s
    /\ object' \in [Servers -> [VisitIds -> Records]]
    /\ sessions_' \in [Servers -> SUBSET VisitIds] /\ redis' \in [VisitIds -> Records]
    /\ \A w \in Servers : /\ object'[w][i] = IF Visits!Memory THEN s ELSE object[w][i]
                          /\ i \in sessions_'[w] <=> Visits!Memory \/ i \in sessions_[w]
    /\ redis'[i] = IF ~Visits!Memory /\ up THEN Visits!Refreshed(s) ELSE redis[i]
    /\ \A j \in VisitIds : j # i =>
          /\ redis'[j] = redis[j]
          /\ \A w \in Servers : /\ object'[w][j] = object[w][j]
                                /\ j \in sessions_'[w] <=> j \in sessions_[w]

LEMMA Saves ==
    ASSUME OneServer, StoreTypes, RequestTypes, NEW r \in Asked, NEW i \in VisitIds,
           NEW s \in Records, Visits!SaveSession(r, i, s)
    PROVE  \E x \in Records : SavedAs(r, i, s, x)
<1>1. PICK w \in Servers : w = process[r]
  BY RequestHas
<1>2. /\ object \in [Servers -> [VisitIds -> Records]]
      /\ sessions_ \in [Servers -> SUBSET VisitIds] /\ redis \in [VisitIds -> Records]
      /\ Servers = {w}
  BY DEF StoreTypes, OneServer
<1>3. CASE Visits!Memory
  <2>1. /\ object' = [object EXCEPT ![w][i] = s]
        /\ sessions_' = [sessions_ EXCEPT ![w] = @ \cup {i}]
        /\ UNCHANGED <<redis, copy>>
    BY <1>1, <1>3 DEF Visits!SaveSession, Visits!SaveInMemory
  <2>2. /\ object' \in [Servers -> [VisitIds -> Records]] /\ object'[w][i] = s
        /\ \A j \in VisitIds : j # i => object'[w][j] = object[w][j]
    BY <1>2, <2>1
  <2>3. /\ sessions_' \in [Servers -> SUBSET VisitIds] /\ sessions_'[w] = sessions_[w] \cup {i}
    BY <1>2, <2>1
  <2>4. copy[r] \in Records /\ copy = [copy EXCEPT ![r] = copy[r]]
    BY RequestHas
  <2>5. SavedAs(r, i, s, copy[r])
    BY <1>2, <1>3, <2>1, <2>2, <2>3, <2>4 DEF SavedAs
  <2> QED BY <2>4, <2>5
<1>4. CASE ~Visits!Memory
  <2>1. /\ copy' = [copy EXCEPT ![r] = s] /\ UNCHANGED <<object, sessions_>>
        /\ redis' = IF up THEN [redis EXCEPT ![i] = Visits!Refreshed(s)] ELSE redis
    BY <1>4 DEF Visits!SaveSession, Visits!SaveInRedis, Visits!Setex
  <2>2. Visits!Refreshed(s) \in Records
    BY RefreshedFields DEF StoreTypes
  <2>3. /\ redis' \in [VisitIds -> Records]
        /\ redis'[i] = IF up THEN Visits!Refreshed(s) ELSE redis[i]
        /\ \A j \in VisitIds : j # i => redis'[j] = redis[j]
    BY <1>2, <2>1, <2>2
  <2>4. SavedAs(r, i, s, s)
    BY <1>2, <1>4, <2>1, <2>3 DEF SavedAs
  <2> QED BY <2>4
<1> QED BY <1>3, <1>4

LEMMA SavedKeeps ==
    ASSUME StoreTypes, NEW r \in Asked, NEW i \in VisitIds, NEW s \in Records, NEW x \in Records,
           SavedAs(r, i, s, x), StoredBy(s.data, asker[r]), StoredBy(copy[r].data, asker[r]),
           StoredBy(redis[i].data, asker[r]),
           \A w \in Servers : StoredBy(object[w][i].data, asker[r])
    PROVE  /\ StoredBy(x.data, asker[r]) /\ StoredBy(redis'[i].data, asker[r])
           /\ \A w \in Servers : StoredBy(object'[w][i].data, asker[r])
<1>1. Visits!Refreshed(s).data = s.data
  BY RefreshedFields DEF StoreTypes
<1>2. x = copy[r] \/ x = s
  BY DEF SavedAs
<1>3. redis'[i] = Visits!Refreshed(s) \/ redis'[i] = redis[i]
  BY DEF SavedAs
<1>4. \A w \in Servers : object'[w][i] = s \/ object'[w][i] = object[w][i]
  BY DEF SavedAs
<1>5. StoredBy(redis'[i].data, asker[r])
  BY <1>1, <1>3
<1>6. \A w \in Servers : StoredBy(object'[w][i].data, asker[r])
  BY <1>4
<1> QED BY <1>2, <1>5, <1>6

(* The session a request has at hand.                                      *)
LEMMA SessionAtHand ==
    ASSUME VisitInv, NEW r \in Asked, Working(r, sid[r])
    PROVE  /\ Visits!Session(r) \in Records
           /\ StoredBy(Visits!Session(r).data, asker[r])
           /\ ~Visits!Memory => Visits!Session(r) = copy[r]
           /\ Visits!Memory => Visits!Session(r) = object[process[r]][sid[r]]
           /\ sid[r] \notin gone
<1>1. /\ StoreTypes /\ RequestTypes /\ sid[r] \in VisitIds
      /\ SessionAt(sid[r]) /\ StoredBy(copy[r].data, asker[r])
      /\ \A w \in Servers : StoredBy(object[w][sid[r]].data, asker[r])
  BY SessionHas DEF Working
<1>2. process[r] \in Servers /\ copy[r] \in Records
  BY <1>1, RequestHas
<1>3. sid[r] \notin gone
  BY <1>1 DEF SessionAt, Ended
<1>4. object[process[r]][sid[r]] \in Records
  BY <1>1, <1>2 DEF StoreTypes
<1> QED BY <1>1, <1>2, <1>3, <1>4 DEF Visits!Session

LEMMA AdoptStep ==
    ASSUME OneServer, VisitInv, NEW r \in Asked, Visits!Adopt(r)
    PROVE  VisitInv'
<1> USE VisitConstants
<1>1. PICK own, s, w : own = sid[r] /\ s = Visits!Session(r) /\ w = process[r]
  OBVIOUS
<1>2. /\ sessionPc[r] = "found" /\ ~Visits!IsExpired(s)
      /\ Visits!SaveSession(r, own, Visits!Refreshed(s))
      /\ seen' = IF up THEN [seen EXCEPT ![own] = sessionClock] ELSE seen
      /\ sessionPc' = [sessionPc EXCEPT ![r] = "handler"]
      /\ UNCHANGED <<storage, up, sessionClock, asker, process, sid>>
      /\ UNCHANGED <<drawn, cookie, kept, shared, gone>>
  BY <1>1 DEF Visits!Adopt, Visits!Used, Visits!Goto, Visits!server, Visits!draws, Visits!clients
<1>3. /\ StoreTypes /\ RequestTypes /\ own > 0 /\ own \in VisitIds /\ SessionAt(own)
      /\ own \in 0 .. SessionRequests /\ StoredBy(copy[r].data, asker[r])
      /\ StoredBy(redis[own].data, asker[r])
      /\ \A v \in Servers : StoredBy(object[v][own].data, asker[r])
  BY <1>1, <1>2, SessionHas
<1>4. Working(r, own)
  BY <1>1, <1>2 DEF Working
<1>5. /\ s \in Records /\ StoredBy(s.data, asker[r]) /\ own \notin gone
      /\ Visits!Memory => s = object[w][own]
      /\ ~Visits!Memory => s = copy[r]
      /\ w \in Servers /\ \A v \in Servers : v = w
      /\ sid = [sid EXCEPT ![r] = own] /\ sessionClock \in Nat
  BY <1>1, <1>3, <1>4, SessionAtHand, RequestHas DEF OneServer, StoreTypes
<1>6. PICK t \in Records : /\ t = Visits!Refreshed(s) /\ t.data = s.data
                           /\ t.expiryTime = sessionClock + MaxAge
  BY <1>5, RefreshedFields
<1>7. PICK x \in Records : SavedAs(r, own, t, x)
  BY <1>2, <1>3, <1>6, Saves
<1>8. Moves(r, "handler", own, x)
  BY <1>2, <1>5, <1>7 DEF Moves, SavedAs
<1>9. /\ StoredBy(x.data, asker[r]) /\ StoredBy(redis'[own].data, asker[r])
      /\ \A v \in Servers : StoredBy(object'[v][own].data, asker[r])
  BY <1>3, <1>5, <1>6, <1>7, SavedKeeps
<1>10. StoreTypes'
  BY <1>2, <1>3, <1>5, <1>7 DEF StoreTypes, SavedAs
<1>11. \A i \in VisitIds : i # own => Untouched(i)
  BY <1>2, <1>3, <1>7 DEF StoreTypes, SavedAs, Untouched
<1>12. /\ Asked' = Asked /\ copy'[r] = x
       /\ \A q \in Asked : q # r => (Working(q, own)' <=> Working(q, own)) /\ copy'[q] = copy[q]
  <2>1. RequestTypes /\ "handler" \in VisitPoints /\ own \in 0 .. SessionRequests
    BY <1>3 DEF VisitPoints
  <2> QED BY ONLY r \in Asked, x \in Records, <1>8, <2>1, WorkingMoves
<1>13. ASSUME Visits!Memory PROVE SessionAt(own)'
  <2>1. InMemory(own) /\ up
    BY <1>3, <1>13 DEF SessionAt, VisitInv
  <2>2. /\ object'[w][own] = t /\ own \in sessions_'[w] /\ redis'[own] = redis[own]
        /\ seen'[own] = sessionClock /\ kept'[own] = kept[own]
    BY <1>2, <1>3, <1>5, <1>7, <1>13, <2>1 DEF SavedAs, StoreTypes
  <2>3. InMemory(own)'
    <3>1. kept[own] \subseteq t.data /\ redis'[own] = Visits!Nothing
      BY <1>5, <1>6, <1>13, <2>1, <2>2 DEF InMemory
    <3>2. seen'[own] + MaxAge <= t.expiryTime
      BY <1>5, <1>6, <2>2
    <3> QED BY <1>5, <2>2, <3>1, <3>2 DEF InMemory, Visits!Nothing
  <2> QED BY <1>2, <1>5, <1>13, <2>3 DEF SessionAt, Visits!Memory
<1>14. ASSUME ~Visits!Memory PROVE SessionAt(own)'
  <2>1. InServer(own)
    BY <1>3, <1>14 DEF SessionAt
  <2>2. /\ x = t /\ UNCHANGED <<up, sessionClock>> /\ kept'[own] = kept[own] /\ shared' = shared
        /\ \A v \in Servers : own \notin sessions_'[v]
        /\ s = copy[r]
    BY <1>2, <1>5, <1>7, <1>14, <2>1 DEF SavedAs, InServer
  <2>3. ASSUME up PROVE InServer(own)'
    <3>1. seen'[own] = sessionClock /\ redis'[own] = Visits!Refreshed(t)
      BY <1>2, <1>3, <1>7, <1>14, <2>3 DEF SavedAs, StoreTypes
    <3>2. /\ Visits!Refreshed(t).data = t.data
          /\ Visits!Refreshed(t).expiryTime = sessionClock + MaxAge
      BY <1>5, <1>6, RefreshedFields
    <3>3. own \notin shared =>
              /\ kept[own] \subseteq copy[r].data
              /\ \A q \in Asked : Working(q, own) => q = r
      BY <1>4, <2>1, <2>3 DEF InServer
    <3>4. own \notin shared' =>
              /\ \A p1, q \in Asked' : Working(p1, own)' /\ Working(q, own)' => p1 = q
              /\ \A q \in Asked' : Working(q, own)' => kept'[own] \subseteq copy'[q].data
              /\ kept'[own] \subseteq redis'[own].data
      BY <1>6, <1>12, <2>2, <3>1, <3>2, <3>3
    <3>5. /\ seen'[own] <= sessionClock
          /\ seen'[own] + MaxAge <= redis'[own].expiryTime
      BY <1>5, <3>1, <3>2
    <3> QED BY <2>2, <2>3, <3>4, <3>5 DEF InServer
  <2>4. ASSUME ~up PROVE InServer(own)'
    <3>1. seen'[own] = seen[own] /\ redis'[own] = redis[own]
      BY <1>2, <1>7, <2>4 DEF SavedAs
    <3>2. seen[own] < 0 /\ seen[own] \in Int /\ redis[own] = Visits!Nothing
          /\ seen[own] <= sessionClock
      BY <1>3, <2>1, <2>4 DEF InServer, StoreTypes
    <3> QED BY <2>2, <2>4, <3>1, <3>2 DEF InServer, Visits!Nothing
  <2>5. InServer(own)'
    BY <2>3, <2>4
  <2> QED BY <1>2, <1>5, <1>14, <2>5 DEF SessionAt, Visits!Memory
<1> QED
  BY <1>1, <1>2, <1>3, <1>8, <1>9, <1>10, <1>11, <1>13, <1>14, UsesSession DEF VisitPoints

LEMMA DataChanges ==
    ASSUME NEW s \in Records, NEW d \in SUBSET VisitIds
    PROVE  /\ [s EXCEPT !.data = d] \in Records
           /\ [s EXCEPT !.data = d].data = d
           /\ [s EXCEPT !.data = d].expiryTime = s.expiryTime
BY DEF Records

LEMMA SetValueStep ==
    ASSUME OneServer, VisitInv, NEW r \in Asked, Visits!SetValue(r)
    PROVE  VisitInv'
<1> USE VisitConstants
<1>1. PICK own, s, w : own = sid[r] /\ s = Visits!Session(r) /\ w = process[r]
  OBVIOUS
<1>2. /\ sessionPc[r] = "handler"
      /\ Visits!SaveSession(r, own, [s EXCEPT !.data = @ \cup {r}])
      /\ kept' = IF up THEN [kept EXCEPT ![own] = @ \cup {r}] ELSE kept
      /\ sessionPc' = [sessionPc EXCEPT ![r] = "reply"]
      /\ UNCHANGED <<storage, up, sessionClock, asker, process, sid>>
      /\ UNCHANGED <<drawn, cookie, seen, shared, gone>>
  BY <1>1 DEF Visits!SetValue, Visits!Goto, Visits!server, Visits!draws, Visits!clients
<1>3. /\ StoreTypes /\ RequestTypes /\ own > 0 /\ own \in VisitIds /\ SessionAt(own)
      /\ own \in 0 .. SessionRequests /\ StoredBy(copy[r].data, asker[r])
      /\ StoredBy(redis[own].data, asker[r])
      /\ \A v \in Servers : StoredBy(object[v][own].data, asker[r])
  BY <1>1, <1>2, SessionHas
<1>4. Working(r, own) /\ r \in VisitIds
  BY <1>1, <1>2, <1>3, RequestHas DEF Working
<1>5. /\ s \in Records /\ StoredBy(s.data, asker[r]) /\ own \notin gone
      /\ Visits!Memory => s = object[w][own]
      /\ ~Visits!Memory => s = copy[r]
      /\ w \in Servers /\ \A v \in Servers : v = w
      /\ sid = [sid EXCEPT ![r] = own] /\ sessionClock \in Nat
  BY <1>1, <1>3, <1>4, SessionAtHand, RequestHas DEF OneServer, StoreTypes
<1>6. PICK t \in Records : /\ t = [s EXCEPT !.data = @ \cup {r}]
                           /\ t.data = s.data \cup {r} /\ t.expiryTime = s.expiryTime
  <2>1. s.data \cup {r} \in SUBSET VisitIds
    BY <1>4, <1>5 DEF Records
  <2>2. /\ [s EXCEPT !.data = @ \cup {r}] \in Records
        /\ [s EXCEPT !.data = @ \cup {r}].data = s.data \cup {r}
        /\ [s EXCEPT !.data = @ \cup {r}].expiryTime = s.expiryTime
    BY <1>5, <2>1, DataChanges
  <2> QED BY <2>2, Zenon
<1>7. PICK x \in Records : SavedAs(r, own, t, x)
  BY <1>2, <1>3, <1>6, Saves
<1>8. Moves(r, "reply", own, x)
  BY <1>2, <1>5, <1>7 DEF Moves, SavedAs
<1>9. /\ StoredBy(x.data, asker[r]) /\ StoredBy(redis'[own].data, asker[r])
      /\ \A v \in Servers : StoredBy(object'[v][own].data, asker[r])
  <2>1. StoredBy(t.data, asker[r])
    BY <1>5, <1>6 DEF StoredBy
  <2> QED BY <1>3, <1>7, <2>1, SavedKeeps
<1>10. StoreTypes'
  <2>1. kept' \in [VisitIds -> SUBSET VisitIds]
    BY <1>2, <1>3, <1>4 DEF StoreTypes
  <2> QED BY <1>2, <1>3, <1>7, <2>1 DEF StoreTypes, SavedAs
<1>11. \A i \in VisitIds : i # own => Untouched(i)
  BY <1>2, <1>3, <1>7 DEF StoreTypes, SavedAs, Untouched
<1>12. /\ Asked' = Asked /\ ~Working(r, own)'
       /\ \A q \in Asked : q # r => (Working(q, own)' <=> Working(q, own))
  BY <1>3, <1>8, WorkingMoves DEF VisitPoints
<1>13. ASSUME Visits!Memory PROVE SessionAt(own)'
  <2>1. InMemory(own) /\ up
    BY <1>3, <1>13 DEF SessionAt, VisitInv
  <2>2. /\ object'[w][own] = t /\ own \in sessions_'[w] /\ redis'[own] = redis[own]
        /\ seen'[own] = seen[own] /\ kept'[own] = kept[own] \cup {r}
    BY <1>2, <1>3, <1>5, <1>7, <1>13, <2>1 DEF SavedAs, StoreTypes
  <2>3. InMemory(own)'
    <3>1. kept'[own] \subseteq t.data /\ redis'[own] = Visits!Nothing
      BY <1>5, <1>6, <1>13, <2>1, <2>2 DEF InMemory
    <3>2. seen'[own] >= 0 => seen'[own] + MaxAge <= t.expiryTime
      BY <1>5, <1>6, <1>13, <2>1, <2>2 DEF InMemory
    <3> QED BY <1>5, <2>2, <3>1, <3>2 DEF InMemory, Visits!Nothing
  <2> QED BY <1>2, <1>5, <1>13, <2>3 DEF SessionAt, Visits!Memory
<1>14. ASSUME ~Visits!Memory PROVE SessionAt(own)'
  <2>1. InServer(own)
    BY <1>3, <1>14 DEF SessionAt
  <2>2. /\ UNCHANGED <<up, sessionClock>> /\ seen'[own] = seen[own] /\ shared' = shared
        /\ \A v \in Servers : own \notin sessions_'[v]
        /\ s = copy[r]
    BY <1>2, <1>5, <1>7, <1>14, <2>1 DEF SavedAs, InServer
  <2>3. ASSUME up PROVE InServer(own)'
    <3>1. kept'[own] = kept[own] \cup {r} /\ redis'[own] = Visits!Refreshed(t)
      BY <1>2, <1>3, <1>7, <1>14, <2>3 DEF SavedAs, StoreTypes
    <3>2. /\ Visits!Refreshed(t).data = t.data
          /\ Visits!Refreshed(t).expiryTime = sessionClock + MaxAge
      BY <1>5, <1>6, RefreshedFields
    <3>3. own \notin shared =>
              /\ kept[own] \subseteq copy[r].data
              /\ \A q \in Asked : Working(q, own) => q = r
      BY <1>4, <2>1, <2>3 DEF InServer
    <3>4. own \notin shared' =>
              /\ \A q \in Asked' : ~Working(q, own)'
              /\ kept'[own] \subseteq redis'[own].data
      BY <1>6, <1>12, <2>2, <3>1, <3>2, <3>3
    <3>5. seen'[own] <= sessionClock
      BY <2>1, <2>2 DEF InServer
    <3>6. seen'[own] + MaxAge <= redis'[own].expiryTime
      <4>1. seen'[own] \in Int
        BY <1>3, <1>10 DEF StoreTypes
      <4> QED BY <1>5, <3>2, <3>1, <3>5, <4>1
    <3> QED BY <2>2, <2>3, <3>4, <3>5, <3>6 DEF InServer
  <2>4. ASSUME ~up PROVE InServer(own)'
    <3>1. redis'[own] = redis[own]
      BY <1>2, <1>7, <2>4 DEF SavedAs
    <3>2. seen[own] < 0 /\ seen[own] \in Int /\ redis[own] = Visits!Nothing
          /\ seen[own] <= sessionClock
      BY <1>3, <2>1, <2>4 DEF InServer, StoreTypes
    <3> QED BY <2>2, <2>4, <3>1, <3>2 DEF InServer, Visits!Nothing
  <2>5. InServer(own)'
    BY <2>3, <2>4
  <2> QED BY <1>2, <1>5, <1>14, <2>5 DEF SessionAt, Visits!Memory
<1> QED
  BY <1>1, <1>2, <1>3, <1>8, <1>9, <1>10, <1>11, <1>13, <1>14, UsesSession DEF VisitPoints

LEMMA ClearStep ==
    ASSUME OneServer, VisitInv, NEW r \in Asked, Visits!Clear(r)
    PROVE  VisitInv'
<1> USE VisitConstants
<1>1. PICK own, w : own = sid[r] /\ w = process[r]
  OBVIOUS
<1>2. /\ sessionPc[r] = "handler" /\ sessionPc' = [sessionPc EXCEPT ![r] = "reply"]
      /\ IF Visits!Memory THEN /\ object' = [object EXCEPT ![w][own].data = {}]
                               /\ kept' = [kept EXCEPT ![own] = {}]
                               /\ UNCHANGED copy
         ELSE copy' = [copy EXCEPT ![r].data = {}] /\ UNCHANGED <<object, kept>>
      /\ UNCHANGED <<storage, up, sessionClock, asker, process, sid>>
      /\ UNCHANGED <<drawn, sessions_, redis, cookie, seen, shared, gone>>
  BY <1>1 DEF Visits!Clear, Visits!Goto, Visits!server, Visits!draws, Visits!clients, Visits!stores
<1>3. /\ StoreTypes /\ RequestTypes /\ own > 0 /\ own \in VisitIds /\ SessionAt(own)
      /\ own \in 0 .. SessionRequests /\ StoredBy(copy[r].data, asker[r])
      /\ StoredBy(redis[own].data, asker[r])
      /\ \A v \in Servers : StoredBy(object[v][own].data, asker[r])
  BY <1>1, <1>2, SessionHas
<1>4. /\ w \in Servers /\ copy[r] \in Records /\ \A v \in Servers : v = w
      /\ sid = [sid EXCEPT ![r] = own] /\ copy = [copy EXCEPT ![r] = copy[r]]
      /\ Working(r, own)
  BY <1>1, <1>2, <1>3, RequestHas DEF OneServer, Working
<1>5. own \notin gone
  BY <1>3, <1>4, SMTT(30) DEF SessionAt, Ended
<1>6. CASE Visits!Memory
  <2>1. PICK o \in Records : o = [object[w][own] EXCEPT !.data = {}]
                             /\ o.data = {} /\ o.expiryTime = object[w][own].expiryTime
    <3>1. object[w][own] \in Records
      BY <1>3, <1>4 DEF StoreTypes
    <3>2. {} \in SUBSET VisitIds
      OBVIOUS
    <3>3. /\ [object[w][own] EXCEPT !.data = {}] \in Records
          /\ [object[w][own] EXCEPT !.data = {}].data = {}
          /\ [object[w][own] EXCEPT !.data = {}].expiryTime = object[w][own].expiryTime
      BY <3>1, <3>2, DataChanges
    <3> QED BY <3>3, Zenon
  <2>2. /\ object' = [object EXCEPT ![w][own] = o] /\ kept' = [kept EXCEPT ![own] = {}]
        /\ copy' = copy
    BY <1>2, <1>3, <1>4, <1>6, <2>1 DEF StoreTypes
  <2>3. /\ object' \in [Servers -> [VisitIds -> Records]] /\ object'[w][own] = o
        /\ \A j \in VisitIds : j # own => object'[w][j] = object[w][j]
        /\ kept' \in [VisitIds -> SUBSET VisitIds] /\ kept'[own] = {}
        /\ \A j \in VisitIds : j # own => kept'[j] = kept[j]
    BY <1>3, <1>4, <2>2 DEF StoreTypes
  <2>4. PICK x \in Records : x = copy[r]
    BY <1>4
  <2>5. Moves(r, "reply", own, x)
    BY <1>2, <1>4, <2>2, <2>4 DEF Moves
  <2>6. StoreTypes'
    BY <1>2, <1>3, <2>3 DEF StoreTypes
  <2>7. \A i \in VisitIds : i # own => Untouched(i)
    BY <1>2, <1>4, <2>3 DEF Untouched
  <2>8. InMemory(own)
    BY <1>3, <1>6 DEF SessionAt
  <2>9. InMemory(own)'
    <3>1. redis'[own] = Visits!Nothing /\ seen'[own] = seen[own]
      BY <1>2, <2>8 DEF InMemory
    <3>2. seen[own] >= 0 => /\ seen[own] + MaxAge <= object[w][own].expiryTime
                            /\ \/ own \in sessions_[w]
                               \/ object[w][own].expiryTime < sessionClock
      BY <1>4, <2>8 DEF InMemory
    <3>3. sessions_' = sessions_ /\ sessionClock' = sessionClock
      BY <1>2
    <3> QED BY <1>4, <2>1, <2>3, <3>1, <3>2, <3>3 DEF InMemory, Visits!Nothing
  <2>10. SessionAt(own)'
    BY <1>2, <1>5, <1>6, <2>9 DEF SessionAt, Visits!Memory
  <2>11. \A v \in Servers : StoredBy(object'[v][own].data, asker[r])
    BY <1>4, <2>1, <2>3 DEF StoredBy
  <2> QED
    BY <1>1, <1>2, <1>3, <2>4, <2>5, <2>6, <2>7, <2>10, <2>11, UsesSession DEF VisitPoints
<1>7. CASE ~Visits!Memory
  <2>1. PICK x \in Records : x = [copy[r] EXCEPT !.data = {}] /\ x.data = {}
    <3>1. {} \in SUBSET VisitIds
      OBVIOUS
    <3> QED BY <1>4, <3>1, DataChanges
  <2>2. copy' = [copy EXCEPT ![r] = x] /\ UNCHANGED <<object, kept>>
    BY <1>2, <1>7, <2>1
  <2>3. Moves(r, "reply", own, x)
    BY <1>2, <1>4, <2>2 DEF Moves
  <2>4. StoreTypes' /\ \A i \in VisitIds : Untouched(i)
    BY <1>2, <1>3, <2>2 DEF StoreTypes, Untouched
  <2>5. SessionAt(own)'
    BY <1>3, <2>3, <2>4, AnotherSession DEF VisitPoints
  <2>6. StoredBy(x.data, asker[r])
    BY <2>1, SMTT(30) DEF StoredBy
  <2> QED BY <1>1, <1>2, <1>3, <2>2, <2>3, <2>4, <2>5, <2>6, UsesSession DEF VisitPoints
<1> QED BY <1>6, <1>7

LEMMA GetValueStep ==
    ASSUME VisitInv, NEW r \in Asked, Visits!GetValue(r)
    PROVE  VisitInv'
<1> USE VisitConstants
<1>1. PICK own : own = sid[r]
  OBVIOUS
<1>2. /\ sessionPc[r] = "handler" /\ sessionPc' = [sessionPc EXCEPT ![r] = "reply"]
      /\ UNCHANGED <<storage, up, sessionClock, asker, process, sid, copy>>
      /\ UNCHANGED <<drawn, object, sessions_, redis, cookie, seen, kept, shared, gone>>
  BY DEF Visits!GetValue, Visits!Goto, Visits!server, Visits!draws, Visits!clients, Visits!stores,
         Visits!ghosts
<1>3. /\ StoreTypes /\ RequestTypes /\ own > 0 /\ own \in VisitIds /\ SessionAt(own)
      /\ own \in 0 .. SessionRequests /\ StoredBy(copy[r].data, asker[r])
      /\ StoredBy(redis[own].data, asker[r])
      /\ \A v \in Servers : StoredBy(object[v][own].data, asker[r])
  BY <1>1, <1>2, SessionHas
<1>4. /\ copy[r] \in Records
      /\ sid = [sid EXCEPT ![r] = own] /\ copy = [copy EXCEPT ![r] = copy[r]]
  BY <1>1, <1>3, RequestHas
<1>5. PICK x \in Records : x = copy[r]
  BY <1>4
<1>6. Moves(r, "reply", own, x)
  BY <1>2, <1>4, <1>5 DEF Moves
<1>7. StoreTypes' /\ \A i \in VisitIds : Untouched(i)
  BY <1>2, <1>3 DEF StoreTypes, Untouched
<1>8. SessionAt(own)'
  BY <1>3, <1>6, <1>7, AnotherSession DEF VisitPoints
<1> QED BY <1>1, <1>2, <1>3, <1>5, <1>6, <1>7, <1>8, UsesSession DEF VisitPoints

LEMMA LogoutStep ==
    ASSUME OneServer, VisitInv, NEW r \in Asked, Visits!Logout(r)
    PROVE  VisitInv'
<1> USE VisitConstants
<1>1. PICK own, w : own = sid[r] /\ w = process[r]
  OBVIOUS
<1>2. /\ sessionPc[r] = "logout" /\ sessionPc' = [sessionPc EXCEPT ![r] = "reply"]
      /\ IF Visits!Memory
         THEN sessions_' = [sessions_ EXCEPT ![w] = @ \ {own}] /\ UNCHANGED redis
         ELSE redis' = [redis EXCEPT ![own] = Visits!Nothing] /\ UNCHANGED sessions_
      /\ seen' = [seen EXCEPT ![own] = -1]
      /\ gone' = IF Visits!InHand(own) = {} /\ up THEN gone \cup {own} ELSE gone
      /\ sid' = [sid EXCEPT ![r] = 0]
      /\ UNCHANGED <<storage, up, sessionClock, asker, process, copy>>
      /\ UNCHANGED <<drawn, object, cookie, kept, shared>>
  BY <1>1 DEF Visits!Logout, Visits!Goto, Visits!Remove, Visits!Del, Visits!server,
              Visits!draws, Visits!clients
<1>3. /\ StoreTypes /\ RequestTypes /\ own > 0 /\ own \in VisitIds /\ SessionAt(own)
      /\ own \in 0 .. SessionRequests /\ StoredBy(copy[r].data, asker[r])
      /\ StoredBy(redis[own].data, asker[r])
      /\ \A v \in Servers : StoredBy(object[v][own].data, asker[r])
  BY <1>1, <1>2, SessionHas
<1>4. /\ copy[r] \in Records /\ w \in Servers /\ \A v \in Servers : v = w
      /\ copy = [copy EXCEPT ![r] = copy[r]]
  BY <1>1, <1>3, RequestHas DEF OneServer
<1>5. PICK x \in Records : x = copy[r]
  BY <1>4
<1>6. Moves(r, "reply", 0, x)
  BY <1>2, <1>4, <1>5 DEF Moves
<1>7. /\ Asked' = Asked /\ copy'[r] = x /\ ~Working(r, own)'
      /\ \A q \in Asked : q # r => /\ Working(q, own)' <=> Working(q, own)
                                   /\ copy'[q] = copy[q]
  <2>1. 0 \in 0 .. SessionRequests /\ "reply" \in VisitPoints
    BY DEF VisitPoints
  <2>2. /\ Asked' = Asked /\ copy'[r] = x
        /\ Working(r, own)' <=> 0 = own /\ "reply" \in {"found", "handler"}
        /\ \A q \in Asked : q # r => /\ Working(q, own)' <=> Working(q, own)
                                     /\ copy'[q] = copy[q]
    BY <1>3, <1>6, <2>1, WorkingMoves
  <2>3. ~("reply" \in {"found", "handler"})
    OBVIOUS
  <2> QED BY <2>2, <2>3
<1>8. StoreTypes'
  BY <1>2, <1>3, <1>4 DEF StoreTypes
<1>9. /\ \A i \in VisitIds : i # own => Untouched(i)
      /\ redis'[own] \in {redis[own], Visits!Nothing} /\ seen'[own] = -1
      /\ Visits!Memory => redis' = redis /\ own \notin sessions_'[w]
      /\ ~Visits!Memory => redis'[own] = Visits!Nothing /\ sessions_' = sessions_
  BY <1>2, <1>3, <1>4 DEF StoreTypes, Untouched
<1>10. Visits!Memory => InMemory(own)'
  <2>1. SUFFICES ASSUME Visits!Memory PROVE InMemory(own)'
    OBVIOUS
  <2>2. InMemory(own)
    BY <1>3, <2>1 DEF SessionAt
  <2> QED BY <1>2, <1>9, <2>1, <2>2 DEF InMemory, Visits!Nothing
<1>11. ~Visits!Memory => InServer(own)'
  <2>1. SUFFICES ASSUME ~Visits!Memory PROVE InServer(own)'
    OBVIOUS
  <2>2. InServer(own)
    BY <1>3, <2>1 DEF SessionAt
  <2>3. \A v \in Servers : own \notin sessions_'[v]
    BY <1>9, <2>1, <2>2 DEF InServer
  <2>4. seen'[own] <= sessionClock' /\ seen'[own] < 0
    <3>1. sessionClock' \in Nat
      BY <1>8 DEF StoreTypes
    <3> QED BY <1>9, <3>1
  <2>5. up' /\ own \notin shared' =>
          /\ \A p1, q \in Asked' : Working(p1, own)' /\ Working(q, own)' => p1 = q
          /\ \A q \in Asked' : Working(q, own)' => kept'[own] \subseteq copy'[q].data
    BY <1>2, <1>7, <2>2 DEF InServer
  <2>6. redis'[own] = Visits!Nothing
    BY <1>9, <2>1
  <2>7. seen'[own] \in Int
    BY <1>9
  <2> QED BY <2>3, <2>4, <2>5, <2>6, <2>7 DEF InServer, Visits!Nothing
<1>12. own \in gone' => Ended(own)'
  <2>1. redis'[own] = Visits!Nothing /\ \A v \in Servers : own \notin sessions_'[v]
    BY <1>3, <1>4, <1>9 DEF SessionAt, InMemory, InServer
  <2>2. SUFFICES ASSUME own \in gone', NEW q \in Asked, Working(q, own) PROVE FALSE
    BY <1>7, <2>1 DEF Ended, Visits!Nothing
  <2>3. q \in Visits!InHand(own)
    BY <1>3, <2>2 DEF Working, Visits!InHand, Asked, RequestTypes
  <2>4. own \in gone
    BY <1>2, <2>2, <2>3
  <2> QED BY <1>3, <2>2, <2>4 DEF SessionAt, Ended
<1>13. SessionAt(own)'
  BY <1>2, <1>10, <1>11, <1>12 DEF SessionAt, Visits!Memory
<1>14. StoredBy(redis'[own].data, asker[r])
  BY <1>3, <1>9 DEF StoredBy
<1>15. \A v \in Servers : StoredBy(object'[v][own].data, asker[r])
  BY <1>2, <1>3
<1>16. drawn' = drawn /\ cookie' = cookie /\ sessionPc[r] = "logout"
  BY <1>2
<1> QED
  BY <1>1, <1>3, <1>5, <1>6, <1>8, <1>9, <1>13, <1>14, <1>15, <1>16, UsesSession
     DEF VisitPoints

LEMMA ReplyStep ==
    ASSUME VisitInv, NEW r \in Asked, Visits!Reply(r)
    PROVE  VisitInv'
<1> USE VisitConstants
<1>1. PICK own : own = sid[r]
  OBVIOUS
<1>2. /\ sessionPc[r] = "reply" /\ sessionPc' = [sessionPc EXCEPT ![r] = "done"]
      /\ cookie' = cookie \/ cookie' = [cookie EXCEPT ![asker[r]] = own]
      /\ sid' = [sid EXCEPT ![r] = 0]
      /\ copy' = [copy EXCEPT ![r] = Visits!Nothing]
      /\ UNCHANGED <<storage, up, sessionClock, asker, process>>
      /\ UNCHANGED <<drawn, object, sessions_, redis, seen, kept, shared, gone>>
  BY <1>1 DEF Visits!Reply, Visits!Goto, Visits!server, Visits!draws, Visits!stores, Visits!ghosts
<1>3. /\ StoreTypes /\ RequestTypes /\ own \in 0 .. SessionRequests
      /\ own > 0 => /\ own \in VisitIds /\ SessionAt(own)
                    /\ StoredBy(redis[own].data, asker[r])
                    /\ \A v \in Servers : StoredBy(object[v][own].data, asker[r])
  BY <1>1, SessionHas
<1>4. PICK x \in Records : x = Visits!Nothing
  OBVIOUS
<1>5. Moves(r, "done", 0, x)
  BY <1>2, <1>4 DEF Moves
<1>6. cookie' \in [Clients -> 0 .. SessionRequests] /\
      \A c \in Clients : \/ cookie'[c] = cookie[c]
                         \/ cookie'[c] = own /\ c = asker[r]
  BY <1>2, <1>3 DEF StoreTypes
<1>7. StoreTypes' /\ \A i \in VisitIds : Untouched(i)
  BY <1>2, <1>3, <1>6 DEF StoreTypes, Untouched
<1>8. own > 0 => SessionAt(own)'
  BY <1>3, <1>5, <1>7, AnotherSession DEF VisitPoints
<1>9. StoredBy(x.data, asker[r])
  BY <1>4 DEF StoredBy
<1>10. drawn' = drawn /\ redis' = redis /\ object' = object
  BY <1>2
<1> QED BY <1>1, <1>3, <1>5, <1>6, <1>7, <1>8, <1>9, <1>10, UsesSession DEF VisitPoints

(* A thread that draws has changed nothing yet.                            *)
LEMMA DrawStep ==
    ASSUME VisitInv, NEW r \in Asked, Visits!Draw(r)
    PROVE  VisitInv'
<1> USE VisitConstants
<1>1. PICK own : own = sid[r]
  OBVIOUS
<1>2. /\ sessionPc[r] \in {"create", "found"} /\ sessionPc' = [sessionPc EXCEPT ![r] = "new"]
      /\ UNCHANGED <<storage, up, sessionClock, asker, process, sid, copy>>
      /\ UNCHANGED <<drawn, object, sessions_, redis, cookie, seen, kept, shared, gone>>
  BY DEF Visits!Draw, Visits!MustCreate, Visits!Goto, Visits!server, Visits!clients,
         Visits!stores, Visits!ghosts
<1>3. /\ StoreTypes /\ RequestTypes /\ own \in 0 .. SessionRequests
      /\ StoredBy(copy[r].data, asker[r])
      /\ own > 0 => /\ own \in VisitIds /\ SessionAt(own)
                    /\ StoredBy(redis[own].data, asker[r])
                    /\ \A w \in Servers : StoredBy(object[w][own].data, asker[r])
  BY <1>1, SessionHas
<1>4. /\ copy[r] \in Records
      /\ sid = [sid EXCEPT ![r] = own] /\ copy = [copy EXCEPT ![r] = copy[r]]
  BY <1>1, <1>3, RequestHas
<1>5. PICK x \in Records : x = copy[r]
  BY <1>4
<1>6. Moves(r, "new", own, x)
  BY <1>2, <1>4, <1>5 DEF Moves
<1>7. StoreTypes' /\ \A i \in VisitIds : Untouched(i)
  BY <1>2, <1>3 DEF StoreTypes, Untouched
<1>8. own > 0 => SessionAt(own)'
  BY <1>3, <1>6, <1>7, AnotherSession DEF VisitPoints
<1>9. /\ "new" \in VisitPoints /\ ~("new" \in {"load", "found", "handler", "logout"})
      /\ ~(sessionPc[r] \in {"handler", "reply", "done"})
  BY <1>2 DEF VisitPoints
<1>10. drawn' = drawn /\ cookie' = cookie /\ redis' = redis /\ object' = object
  BY <1>2
<1> QED BY <1>1, <1>3, <1>5, <1>6, <1>7, <1>8, <1>9, <1>10, UsesSession

(* A new session: unless two threads draw at once, the identifier drawn is *)
(* in nobody's hand.                                                       *)
LEMMA CreateStep ==
    ASSUME OneServer, VisitInv, NEW r \in Asked, Visits!Create(r), ~raced'
    PROVE  VisitInv'
<1> USE VisitConstants
<1>1. PICK w \in Servers : w = process[r] /\ \A v \in Servers : v = w
  BY RequestHas DEF VisitInv, VisitTypes, OneServer
<1>2. PICK i : i = drawn[w] + 1
  OBVIOUS
<1>3. /\ sessionPc[r] = "new"
      /\ drawn' = [drawn EXCEPT ![w] = i]
      /\ Visits!SaveSession(r, i, Visits!Refreshed(Visits!Nothing))
      /\ seen' = IF up THEN [seen EXCEPT ![i] = sessionClock] ELSE seen
      /\ sessionPc' = [sessionPc EXCEPT ![r] = "handler"]
      /\ sid' = [sid EXCEPT ![r] = i]
      /\ UNCHANGED <<storage, up, sessionClock, asker, process>>
      /\ UNCHANGED <<cookie, kept, shared, gone>>
  <2>1. newId[r] = i /\ drawn' = [drawn EXCEPT ![w] = i]
    BY <1>1, <1>2 DEF Visits!Create, Visits!Advance
  <2> QED BY <2>1 DEF Visits!Create, Visits!MakeSession, Visits!Used, Visits!Goto,
                      Visits!server, Visits!clients
<1>4. /\ StoreTypes /\ RequestTypes /\ Drawn /\ HasId /\ StoredBy(copy[r].data, asker[r])
      /\ asker[r] \in Clients /\ \A j \in VisitIds : SessionAt(j)
      /\ Visits!Memory => up
  BY SessionHas, RequestHas DEF VisitInv, VisitTypes
<1>5. /\ r \notin Answered /\ IsFiniteSet(Answered) /\ IsFiniteSet(Asked)
      /\ Cardinality(Asked) = Len(asker) /\ Len(asker) \in Nat
      /\ Answered \cup {r} \subseteq Asked
  <2>1. Len(asker) \in Nat
    BY <1>4 DEF RequestTypes
  <2>2. IsFiniteSet(Asked) /\ Cardinality(Asked) = Len(asker)
    BY <2>1, FS_Interval, SMTT(30) DEF Asked
  <2>3. Answered \cup {r} \subseteq Asked /\ r \notin Answered
    BY <1>3 DEF Answered
  <2> QED BY <2>1, <2>2, <2>3, FS_Subset
<1>6. /\ Cardinality(Answered) \in Nat
      /\ Cardinality(Answered \cup {r}) = Cardinality(Answered) + 1
      /\ Cardinality(Answered \cup {r}) <= Len(asker)
  BY <1>5, FS_AddElement, FS_Subset, FS_CardinalityType
<1>7. /\ drawn[w] \in Nat /\ drawn[w] <= Cardinality(Answered)
      /\ i \in VisitIds /\ i > 0 /\ i \in 0 .. SessionRequests /\ drawn[w] < i
      /\ i <= Cardinality(Answered \cup {r})
  <2>1. drawn[w] \in Nat /\ drawn[w] <= Cardinality(Answered) /\ Len(asker) <= SessionRequests
    BY <1>4 DEF StoreTypes, RequestTypes, Drawn
  <2> QED BY <1>2, <1>5, <1>6, <2>1 DEF VisitIds
<1>8. /\ seen[i] = -1 /\ kept[i] = {} /\ i \notin shared /\ i \notin gone
      /\ object[w][i] = Visits!Nothing /\ i \notin sessions_[w] /\ redis[i] = Visits!Nothing
      /\ \A q \in Asked : sid[q] # i
      /\ \A c \in Clients : cookie[c] # i
  <2>1. /\ \A q \in Asked : sid[q] <= drawn[w]
        /\ \A c \in Clients : cookie[c] <= drawn[w]
    BY <1>4 DEF Drawn
  <2>2. \A q \in Asked : sid[q] # i
    BY <1>2, <1>7, <2>1
  <2>3. \A c \in Clients : cookie[c] # i
    BY <1>2, <1>7, <2>1
  <2> QED BY <1>4, <1>7, <2>2, <2>3 DEF Drawn
<1>9. PICK t \in Records : /\ t = Visits!Refreshed(Visits!Nothing) /\ t.data = {}
                           /\ t.expiryTime = sessionClock + MaxAge
  BY <1>4, RefreshedFields DEF StoreTypes
<1>10. PICK x \in Records : SavedAs(r, i, t, x)
  BY <1>3, <1>4, <1>7, <1>9, Saves
<1>11. Moves(r, "handler", i, x)
  BY <1>3, <1>10 DEF Moves, SavedAs
<1>12. /\ RequestTypes' /\ Asked' = Asked
       /\ sessionPc'[r] = "handler" /\ sid'[r] = i /\ copy'[r] = x
       /\ \A q \in Asked : q # r => /\ sessionPc'[q] = sessionPc[q]
                                    /\ sid'[q] = sid[q] /\ copy'[q] = copy[q]
  BY <1>4, <1>7, <1>11, RequestMoves DEF VisitPoints
<1>13. \A j \in VisitIds : j # i => Untouched(j)
  BY <1>3, <1>4, <1>10 DEF StoreTypes, SavedAs, Untouched
<1>14. StoreTypes'
  <2>1. seen' \in [VisitIds -> {-1} \cup Nat]
    BY <1>3, <1>4 DEF StoreTypes
  <2>2. drawn' \in [Servers -> Nat]
    BY <1>3, <1>4, <1>2, <1>7 DEF StoreTypes
  <2> QED BY <1>3, <1>4, <1>10, <2>1, <2>2 DEF StoreTypes, SavedAs
<1>15. Drawn'
  <2>1. Answered' = Answered \cup {r}
    BY <1>12 DEF Answered
  <2>2. drawn'[w] = i
    BY <1>3, <1>4 DEF StoreTypes
  <2>3. i <= Cardinality(Answered')
    BY <1>7, <2>1
  <2>4. \A q \in Asked' : sid'[q] <= i
    <3>1. \A q \in Asked : sid[q] <= i
      <4>1. \A q \in Asked : sid[q] <= drawn[w] /\ sid[q] \in 0 .. SessionRequests
        BY <1>4, RequestHas DEF Drawn
      <4> QED BY <1>2, <1>7, <4>1
    <3> QED BY <1>7, <1>12, <3>1
  <2>5. \A c \in Clients : cookie'[c] <= i
    <3>1. \A c \in Clients : cookie[c] <= drawn[w] /\ cookie[c] \in 0 .. SessionRequests
      BY <1>4 DEF Drawn, StoreTypes
    <3> QED BY <1>2, <1>3, <1>7, <3>1
  <2>6. ASSUME NEW j \in VisitIds, i < j
        PROVE  /\ seen'[j] = -1 /\ kept'[j] = {} /\ j \notin shared' /\ j \notin gone'
               /\ object'[w][j] = Visits!Nothing /\ j \notin sessions_'[w]
               /\ redis'[j] = Visits!Nothing
    <3>1. drawn[w] < j /\ j # i
      BY <1>2, <1>7, <2>6 DEF VisitIds
    <3>2. Untouched(j)
      BY <1>13, <3>1
    <3> QED BY <1>4, <3>1, <3>2 DEF Drawn, Untouched
  <2> QED BY <1>1, <2>2, <2>3, <2>4, <2>5, <2>6 DEF Drawn, Visits!Nothing
<1>16. HasId'
  BY <1>4, <1>7, <1>12 DEF HasId
<1>17. \E owner \in [VisitIds -> Clients \cup {0}] : OwnedBy(owner)'
  <2>1. PICK owner \in [VisitIds -> Clients \cup {0}] : OwnedBy(owner)
    BY DEF VisitInv
  <2>2. PICK new1 \in [VisitIds -> Clients \cup {0}] :
            /\ new1[i] = asker[r]
            /\ \A j \in VisitIds : j # i => new1[j] = owner[j]
    <3>1. /\ [owner EXCEPT ![i] = asker[r]] \in [VisitIds -> Clients \cup {0}]
          /\ [owner EXCEPT ![i] = asker[r]][i] = asker[r]
          /\ \A j \in VisitIds : j # i => [owner EXCEPT ![i] = asker[r]][j] = owner[j]
      BY <1>4, <1>7
    <3> QED BY <3>1, Zenon
  <2>3. \A d, c : StoredBy(d, c) => StoredBy(d, c)'
    BY <1>3, <1>12 DEF StoredBy
  <2>4. ASSUME NEW q \in Asked', sid'[q] > 0 PROVE asker'[q] = new1[sid'[q]]
    <3>1. CASE q = r
      BY <1>3, <1>12, <2>2, <3>1
    <3>2. CASE q # r
      <4>1. sid'[q] = sid[q] /\ sid[q] # i /\ sid[q] \in VisitIds /\ sid[q] > 0
        BY <1>4, <1>8, <1>12, <2>4, <3>2, RequestHas
      <4>2. asker[q] = owner[sid[q]]
        BY <1>12, <2>1, <2>4, <4>1 DEF OwnedBy
      <4> QED BY <1>3, <2>2, <4>1, <4>2
    <3> QED BY <3>1, <3>2
  <2>5. ASSUME NEW c \in Clients, cookie'[c] > 0 PROVE c = new1[cookie'[c]]
    <3>1. cookie'[c] = cookie[c] /\ cookie[c] # i /\ cookie[c] \in VisitIds
      BY <1>3, <1>4, <1>8, <2>5 DEF StoreTypes, VisitIds
    <3>2. c = owner[cookie[c]]
      BY <2>1, <2>5, <3>1 DEF OwnedBy
    <3> QED BY <2>2, <3>1, <3>2
  <2>6. /\ StoredBy(x.data, asker[r]) /\ StoredBy(redis'[i].data, asker[r])
        /\ \A v \in Servers : StoredBy(object'[v][i].data, asker[r])
    <3>1. /\ StoredBy(t.data, asker[r]) /\ StoredBy(redis[i].data, asker[r])
          /\ \A v \in Servers : StoredBy(object[v][i].data, asker[r])
      BY <1>1, <1>8, <1>9 DEF StoredBy
    <3> QED BY <1>4, <1>7, <1>10, <3>1, SavedKeeps
  <2>7. ASSUME NEW j \in VisitIds
        PROVE  /\ \A v \in Servers : StoredBy(object'[v][j].data, new1[j])
               /\ StoredBy(redis'[j].data, new1[j])
    <3>1. CASE j = i
      BY <2>2, <2>6, <3>1
    <3>2. CASE j # i
      <4>1. Untouched(j) /\ new1[j] = owner[j]
        BY <1>13, <2>2, <2>7, <3>2
      <4> QED BY <2>1, <2>7, <4>1 DEF OwnedBy, Untouched
    <3> QED BY <3>1, <3>2
  <2>8. \A q \in Asked : StoredBy(copy'[q].data, asker[q])
    BY <1>12, <2>1, <2>6 DEF OwnedBy
  <2> QED BY <1>3, <1>12, <2>3, <2>4, <2>5, <2>7, <2>8 DEF OwnedBy
<1>18. ASSUME Visits!Memory PROVE InMemory(i)'
  <2>1. up /\ seen'[i] = sessionClock
    BY <1>3, <1>4, <1>7, <1>18 DEF StoreTypes
  <2>2. /\ object'[w][i] = t /\ i \in sessions_'[w] /\ redis'[i] = Visits!Nothing
        /\ kept'[i] = {}
    BY <1>3, <1>8, <1>10, <1>18 DEF SavedAs
  <2>3. seen'[i] + MaxAge <= t.expiryTime
    BY <1>4, <1>9, <2>1 DEF StoreTypes
  <2> QED BY <1>1, <2>2, <2>3 DEF InMemory, Visits!Nothing
<1>19. ASSUME ~Visits!Memory PROVE InServer(i)'
  <2>1. InServer(i) /\ sessionClock \in Nat
    BY <1>4, <1>7, <1>19 DEF SessionAt, StoreTypes
  <2>2. /\ \A v \in Servers : i \notin sessions_'[v]
        /\ redis'[i] = IF up THEN Visits!Refreshed(t) ELSE redis[i]
        /\ UNCHANGED <<up, sessionClock>>
    BY <1>3, <1>10, <1>19, <2>1 DEF SavedAs, InServer
  <2>3. kept'[i] = {} /\ \A q \in Asked' : Working(q, i)' => q = r
    BY <1>3, <1>8, <1>12 DEF Working
  <2>4. ASSUME up PROVE /\ seen'[i] = sessionClock
                        /\ seen'[i] + MaxAge <= redis'[i].expiryTime
    <3>1. seen'[i] = sessionClock /\ redis'[i] = Visits!Refreshed(t)
      BY <1>3, <1>4, <1>7, <2>2, <2>4 DEF StoreTypes
    <3>2. redis'[i].expiryTime = sessionClock + MaxAge
      BY <1>9, <2>1, <3>1, RefreshedFields
    <3> QED BY <2>1, <3>1, <3>2
  <2>5. ~up => seen'[i] = -1 /\ redis'[i] = Visits!Nothing
    BY <1>3, <1>8, <2>2
  <2>6. seen'[i] <= sessionClock
    BY <2>1, <2>4, <2>5
  <2>7. ~up => seen'[i] < 0 /\ ~(seen'[i] >= 0)
    BY <2>5
  <2> QED BY <2>2, <2>3, <2>4, <2>5, <2>6, <2>7 DEF InServer, Visits!Nothing
<1>20. SessionAt(i)'
  BY <1>3, <1>8, <1>18, <1>19 DEF SessionAt, Visits!Memory
<1>21. ASSUME NEW j \in VisitIds PROVE SessionAt(j)'
  <2>1. CASE j = i
    BY <1>20, <2>1
  <2>2. CASE j # i
    BY <1>4, <1>7, <1>11, <1>13, <1>21, <2>2, AnotherSession DEF VisitPoints
  <2> QED BY <2>1, <2>2
<1>22. Visits!Memory' => up'
  BY <1>3, <1>4 DEF Visits!Memory
<1> QED BY <1>12, <1>14, <1>15, <1>16, <1>17, <1>21, <1>22 DEF VisitInv, VisitTypes

LEMMA EntryAppended ==
    ASSUME NEW S, NEW s \in Seq(S), NEW x \in S
    PROVE  /\ Append(s, x) \in Seq(S) /\ Len(Append(s, x)) = Len(s) + 1
           /\ Append(s, x)[Len(s) + 1] = x
           /\ \A j \in 1 .. Len(s) : Append(s, x)[j] = s[j]
OBVIOUS

LEMMA ArriveStep ==
    ASSUME VisitInv, NEW c \in Clients, NEW w \in Servers, Visits!Arrive(c, w)
    PROVE  VisitInv'
<1> USE VisitConstants
<1>1. /\ Len(asker) < SessionRequests
      /\ asker' = Append(asker, c) /\ process' = Append(process, w)
      /\ sid' = Append(sid, cookie[c]) /\ copy' = Append(copy, Visits!Nothing)
      /\ UNCHANGED <<storage, up, sessionClock, drawn, object, sessions_, redis, cookie>>
      /\ UNCHANGED <<seen, kept, shared, gone>>
  BY DEF Visits!Arrive, Visits!server, Visits!draws, Visits!stores, Visits!ghosts
<1>2. PICK to \in {"create", "load", "logout"} :
          sessionPc' = Append(sessionPc, to) /\ (to # "create" => cookie[c] # 0)
  BY DEF Visits!Arrive
<1>3. /\ StoreTypes /\ RequestTypes /\ Drawn /\ HasId /\ \A j \in VisitIds : SessionAt(j)
      /\ Visits!Memory => up
  BY DEF VisitInv, VisitTypes
<1>4. cookie[c] \in 0 .. SessionRequests /\ Len(asker) \in Nat
  BY <1>3 DEF StoreTypes, RequestTypes
<1>5. PICK m : m = Len(asker) + 1
  OBVIOUS
<1>6. /\ asker' \in Seq(Clients) /\ Len(asker') = m /\ asker'[m] = c
      /\ \A j \in Asked : asker'[j] = asker[j]
  BY <1>1, <1>3, <1>5, EntryAppended DEF RequestTypes, Asked
<1>7. process' \in Seq(Servers) /\ Len(process') = m
  BY <1>1, <1>3, <1>5, EntryAppended DEF RequestTypes
<1>8. /\ sessionPc' \in Seq(VisitPoints) /\ Len(sessionPc') = m /\ sessionPc'[m] = to
      /\ \A j \in Asked : sessionPc'[j] = sessionPc[j]
  <2>1. sessionPc \in Seq(VisitPoints) /\ Len(sessionPc) = Len(asker) /\ to \in VisitPoints
    BY <1>3 DEF RequestTypes, VisitPoints
  <2> QED BY <1>2, <1>5, <2>1, EntryAppended DEF Asked
<1>9. /\ sid' \in Seq(0 .. SessionRequests) /\ Len(sid') = m /\ sid'[m] = cookie[c]
      /\ \A j \in Asked : sid'[j] = sid[j]
  <2>1. sid \in Seq(0 .. SessionRequests) /\ Len(sid) = Len(asker)
    BY <1>3 DEF RequestTypes
  <2> QED BY <1>1, <1>4, <1>5, <2>1, EntryAppended DEF Asked
<1>10. /\ copy' \in Seq(Records) /\ Len(copy') = m /\ copy'[m] = Visits!Nothing
       /\ \A j \in Asked : copy'[j] = copy[j]
  <2>1. copy \in Seq(Records) /\ Len(copy) = Len(asker)
    BY <1>3 DEF RequestTypes
  <2> QED BY <1>1, <1>5, <2>1, EntryAppended DEF Asked
<1>11. /\ m <= SessionRequests /\ Asked' = Asked \cup {m} /\ m \notin Asked
  <2>1. Asked' = 1 .. m
    BY <1>6 DEF Asked
  <2>2. 1 .. m = (1 .. Len(asker)) \cup {m} /\ m \notin 1 .. Len(asker) /\ m <= SessionRequests
    BY <1>1, <1>4, <1>5
  <2> QED BY <2>1, <2>2 DEF Asked
<1>12. StoreTypes' /\ RequestTypes'
  <2>1. StoreTypes'
    BY <1>1, <1>3 DEF StoreTypes
  <2> QED BY <1>6, <1>7, <1>8, <1>9, <1>10, <1>11, <2>1 DEF RequestTypes
<1>13. Drawn'
  <2>1. Answered' = Answered
    BY <1>8, <1>11 DEF Answered
  <2>2. \A v \in Servers : \A q \in Asked' : sid'[q] <= drawn[v]
    BY <1>3, <1>9, <1>11 DEF Drawn
  <2> QED BY <1>1, <1>3, <2>1, <2>2 DEF Drawn, Visits!Nothing
<1>14. HasId'
  <2>1. SUFFICES ASSUME NEW q \in Asked',
                        sessionPc'[q] \in {"load", "found", "handler", "logout"}
                 PROVE  sid'[q] > 0
    BY DEF HasId
  <2>2. CASE q \in Asked
    BY <1>3, <1>8, <1>9, <2>1, <2>2 DEF HasId
  <2>3. CASE q = m
    <3>1. to # "create"
      BY <1>8, <2>1, <2>3
    <3> QED BY <1>2, <1>4, <1>9, <2>3, <3>1
  <2> QED BY <1>11, <2>1, <2>2, <2>3
<1>15. \E owner \in [VisitIds -> Clients \cup {0}] : OwnedBy(owner)'
  <2>1. PICK owner \in [VisitIds -> Clients \cup {0}] : OwnedBy(owner)
    BY DEF VisitInv
  <2>2. \A d, a : StoredBy(d, a) => StoredBy(d, a)'
    BY <1>6, <1>11 DEF StoredBy
  <2>3. \A q \in Asked' : sid'[q] > 0 => asker'[q] = owner[sid'[q]]
    BY <1>6, <1>9, <1>11, <2>1 DEF OwnedBy
  <2>4. ASSUME NEW q \in Asked' PROVE StoredBy(copy'[q].data, asker'[q])
    <3>1. CASE q = m
      BY <1>10, <3>1 DEF StoredBy
    <3>2. CASE q # m
      BY <1>6, <1>10, <1>11, <2>1, <2>4, <3>2 DEF OwnedBy
    <3> QED BY <3>1, <3>2
  <2> QED BY <1>1, <2>1, <2>2, <2>3, <2>4 DEF OwnedBy
<1>16. ASSUME NEW i \in VisitIds PROVE SessionAt(i)'
  <2>1. \A q \in Asked' : Working(q, i)' => Working(q, i) /\ q \in Asked /\ copy'[q] = copy[q]
    BY <1>2, <1>8, <1>9, <1>10, <1>11 DEF Working
  <2>2. InMemory(i) => InMemory(i)'
    BY <1>1 DEF InMemory, Visits!Nothing
  <2>3. InServer(i) => InServer(i)'
    BY <1>1, <2>1 DEF InServer, Visits!Nothing
  <2>4. Ended(i) => Ended(i)'
    BY <1>1, <2>1 DEF Ended, Visits!Nothing
  <2> QED BY <1>1, <1>3, <2>2, <2>3, <2>4 DEF SessionAt, Visits!Memory
<1>17. Visits!Memory' => up'
  BY <1>1, <1>3 DEF Visits!Memory
<1> QED BY <1>12, <1>13, <1>14, <1>15, <1>16, <1>17 DEF VisitInv, VisitTypes

(* Steps of time and of the redis server: sessions may leave redis.        *)
LEMMA SameRequests ==
    ASSUME VisitInv, StoreTypes',
           UNCHANGED <<drawn, object, sessions_, cookie, asker, process>>,
           UNCHANGED <<sessionPc, sid, copy, gone>>,
           \A i \in VisitIds : /\ redis'[i] \in {redis[i], Visits!Nothing}
                               /\ seen'[i] \in {seen[i], -1} /\ kept'[i] \in {kept[i], {}},
           shared' \subseteq shared, Visits!Memory' => up',
           \A i \in VisitIds : SessionAt(i)'
    PROVE  VisitInv'
<1> USE VisitConstants
<1>1. RequestTypes' /\ Drawn /\ HasId'
  BY DEF VisitInv, VisitTypes, RequestTypes, HasId, Asked
<1>2. Drawn'
  BY <1>1, ZenonT(60) DEF Drawn, Answered, Asked, Visits!Nothing
<1>3. \E owner \in [VisitIds -> Clients \cup {0}] : OwnedBy(owner)'
  <2>1. PICK owner \in [VisitIds -> Clients \cup {0}] : OwnedBy(owner)
    BY DEF VisitInv
  <2>2. \A d, a : StoredBy(d, a) => StoredBy(d, a)'
    BY DEF StoredBy, Asked
  <2>3. \A i \in VisitIds : StoredBy(redis'[i].data, owner[i])
    BY <2>1 DEF OwnedBy, StoredBy
  <2> QED BY <2>1, <2>2, <2>3 DEF OwnedBy, Asked
<1> QED BY <1>1, <1>2, <1>3 DEF VisitInv, VisitTypes

LEMMA VisitTickStep == ASSUME VisitInv, Visits!Tick PROVE VisitInv'
<1> USE VisitConstants
<1>1. /\ sessionClock' = sessionClock + 1
      /\ redis' = [i \in VisitIds |-> IF redis[i].expiryTime > sessionClock'
                                      THEN redis[i] ELSE Visits!Nothing]
      /\ UNCHANGED <<storage, up, drawn, object, sessions_, cookie, asker, process>>
      /\ UNCHANGED <<sessionPc, sid, copy, seen, kept, shared, gone>>
  BY DEF Visits!Tick, Visits!draws, Visits!clients, Visits!ghosts
<1>2. /\ StoreTypes /\ \A i \in VisitIds : SessionAt(i)
      /\ Visits!Memory => up
  BY DEF VisitInv, VisitTypes
<1>3. sessionClock \in Nat /\ sessionClock' \in Nat /\ ~(-1 > sessionClock')
  BY <1>1, <1>2 DEF StoreTypes
<1>4. \A i \in VisitIds : /\ redis'[i] = IF redis[i].expiryTime > sessionClock'
                                         THEN redis[i] ELSE Visits!Nothing
                          /\ redis'[i] \in {redis[i], Visits!Nothing}
  BY <1>1
<1>5. StoreTypes'
  BY <1>1, <1>2, <1>3 DEF StoreTypes
<1>6. ASSUME NEW i \in VisitIds PROVE SessionAt(i)'
  <2>1. redis[i] = Visits!Nothing => redis'[i] = Visits!Nothing
    BY <1>4
  <2>2. Asked' = Asked /\ \A q \in Asked : Working(q, i)' <=> Working(q, i)
    BY <1>1 DEF Asked, Working
  <2>3. InMemory(i) => InMemory(i)'
    <3>1. \A v \in Servers : object[v][i].expiryTime < sessionClock =>
                                object[v][i].expiryTime < sessionClock'
      <4>1. \A v \in Servers : object[v][i].expiryTime \in Int
        BY <1>2 DEF StoreTypes, Records
      <4> QED BY <1>1, <1>3, <4>1
    <3> QED BY <1>1, <2>1, <3>1 DEF InMemory, Visits!Nothing
  <2>4. InServer(i) => InServer(i)'
    <3>1. SUFFICES ASSUME InServer(i) PROVE InServer(i)'
      OBVIOUS
    <3>2. seen[i] \in Int /\ seen[i] <= sessionClock'
      BY <1>1, <1>2, <1>3, <3>1 DEF StoreTypes, InServer
    <3>3. seen[i] >= 0 /\ sessionClock' < seen[i] + MaxAge =>
              seen[i] + MaxAge <= redis'[i].expiryTime
      <4>1. SUFFICES ASSUME seen[i] >= 0, sessionClock' < seen[i] + MaxAge
                     PROVE  seen[i] + MaxAge <= redis'[i].expiryTime
        OBVIOUS
      <4>2. redis[i].expiryTime \in Int
        BY <1>2 DEF StoreTypes, Records
      <4>3. seen[i] + MaxAge <= redis[i].expiryTime
        BY <1>1, <1>3, <3>1, <3>2, <4>1 DEF InServer
      <4>4. redis[i].expiryTime > sessionClock'
        BY <1>3, <3>2, <4>1, <4>2, <4>3
      <4> QED BY <1>4, <4>3, <4>4
    <3>4. up' /\ i \notin shared' =>
            /\ \A r, q \in Asked' : Working(r, i)' /\ Working(q, i)' => r = q
            /\ \A r \in Asked' : Working(r, i)' => kept'[i] \subseteq copy'[r].data
            /\ redis'[i] # Visits!Nothing => kept'[i] \subseteq redis'[i].data
      BY <1>1, <1>4, <2>2, <3>1 DEF InServer
    <3> QED BY <1>1, <2>1, <3>1, <3>2, <3>3, <3>4 DEF InServer, Visits!Nothing
  <2>5. Ended(i) => Ended(i)'
    BY <1>1, <2>1, <2>2 DEF Ended, Visits!Nothing
  <2> QED BY <1>1, <1>2, <2>3, <2>4, <2>5 DEF SessionAt, Visits!Memory
<1> QED BY <1>1, <1>2, <1>4, <1>5, <1>6, SameRequests DEF Visits!Memory

LEMMA RedisFailsStep == ASSUME VisitInv, Visits!RedisFails PROVE VisitInv'
<1> USE VisitConstants
<1>1. /\ ~Visits!Memory /\ up' = FALSE /\ redis' = [i \in VisitIds |-> Visits!Nothing]
      /\ seen' = [i \in VisitIds |-> -1] /\ kept' = [i \in VisitIds |-> {}] /\ shared' = {}
      /\ UNCHANGED <<storage, sessionClock, drawn, object, sessions_, cookie, asker, process>>
      /\ UNCHANGED <<sessionPc, sid, copy, gone>>
  BY DEF Visits!RedisFails, Visits!draws, Visits!clients
<1>2. StoreTypes /\ \A i \in VisitIds : SessionAt(i)
  BY DEF VisitInv, VisitTypes
<1>3. StoreTypes'
  BY <1>1, <1>2 DEF StoreTypes
<1>4. ~Visits!Memory'
  BY <1>1 DEF Visits!Memory
<1>5. ASSUME NEW i \in VisitIds PROVE SessionAt(i)'
  <2>1. redis'[i] = Visits!Nothing /\ seen'[i] = -1
    BY <1>1
  <2>2. seen'[i] <= sessionClock' /\ seen'[i] < 0 /\ ~(seen'[i] >= 0)
    BY <1>3, <2>1 DEF StoreTypes
  <2>3. InServer(i)'
    BY <1>1, <1>2, <2>1, <2>2 DEF SessionAt, InServer, Visits!Nothing
  <2>4. i \in gone' => Ended(i)'
    BY <1>1, <1>2, <2>1 DEF SessionAt, Ended, Working, Asked, Visits!Nothing
  <2> QED BY <1>4, <2>3, <2>4 DEF SessionAt
<1> QED BY <1>1, <1>3, <1>4, <1>5, SameRequests

LEMMA VisitNext == OneServer /\ VisitInv /\ [Next]_vars => raced' \/ VisitInv'
<1> SUFFICES ASSUME OneServer, VisitInv, [Next]_vars, ~raced' PROVE VisitInv'
  OBVIOUS
<1>1. CASE UNCHANGED sessionVars
  <2>1. /\ UNCHANGED <<storage, up, sessionClock, drawn, object, sessions_, redis, cookie>>
        /\ UNCHANGED <<asker, process, sessionPc, sid, copy, seen, kept, shared, gone>>
    BY <1>1 DEF sessionVars
  <2>2. StoreTypes' /\ (Visits!Memory' => up')
    BY <2>1 DEF VisitInv, VisitTypes, StoreTypes, Visits!Memory
  <2>3. \A i \in VisitIds : SessionAt(i)'
    BY <2>1 DEF VisitInv, SessionAt, InMemory, InServer, Ended, Working, Asked,
                Visits!Memory, Visits!Nothing
  <2> QED BY <2>1, <2>2, <2>3, SameRequests
<1>2. ASSUME NEW c \in Clients, NEW w \in Servers, Visits!Arrive(c, w) PROVE VisitInv'
  BY <1>2, ArriveStep
<1>3. ASSUME NEW r \in Asked, Visits!GetSession(r) \/ Visits!Handler(r) PROVE VisitInv'
  BY <1>3, LoadMemoryStep, LoadRedisStep, AdoptStep, DrawStep, CreateStep, SetValueStep,
     ClearStep, GetValueStep, LogoutStep, ReplyStep DEF Visits!GetSession, Visits!Handler
<1>4. Asked = Visits!Requests
  BY VisitConstants DEF VisitInv, VisitTypes, RequestTypes, Asked
<1> QED BY <1>1, <1>2, <1>3, <1>4, PartSteps, VisitTickStep, RedisFailsStep DEF Visits!Next

(* A race in the generator is not forgotten.                               *)
LEMMA RaceStays == [Next]_vars => (raced => raced')
<1> SUFFICES ASSUME [Next]_vars, raced PROVE raced'
  OBVIOUS
<1>1. CASE UNCHANGED sessionVars
  BY <1>1 DEF sessionVars
<1>2. CASE Visits!Next
  <2>1. raced' = raced \/ \E r \in Visits!Requests : Visits!Create(r)
    BY <1>2 DEF Visits!Next, Visits!Arrive, Visits!GetSession, Visits!Handler, Visits!LoadMemory,
                Visits!LoadRedis, Visits!Adopt, Visits!Draw, Visits!SetValue, Visits!Clear,
                Visits!GetValue, Visits!Logout, Visits!Reply, Visits!Tick, Visits!RedisFails,
                Visits!draws
  <2> QED BY <2>1 DEF Visits!Create, Visits!Advance
<1> QED BY <1>1, <1>2, PartSteps

LEMMA VisitInvariant == ASSUME OneServer PROVE Spec => [](raced \/ VisitInv)
<1>1. (raced \/ VisitInv) /\ [Next]_vars => (raced \/ VisitInv)'
  BY VisitNext, RaceStays
<1> QED BY VisitInit, <1>1, PTL DEF Spec

(* sessionManager.cpp, README_RedisSession.md, with one worker process:    *)
(* whichever storage it has, however requests of clients interleave and    *)
(* sessions expire, no handler finds another client's data, as long as no  *)
(* two threads drew an identifier at once.                                 *)
THEOREM SessionsDoNotMix == ASSUME OneServer PROVE Spec => []NoStrangerData
<1>1. raced \/ VisitInv => NoStrangerData
  BY VisitMeans DEF NoStrangerData, Visits!NoStrangerData
<1> QED BY VisitInvariant, <1>1, PTL

(* session.cpp: with one worker process a session that is used again       *)
(* within its age is still stored, with its values, as long as no two      *)
(* threads drew an identifier at once.                                     *)
THEOREM UseKeepsSession == ASSUME OneServer PROVE Spec => []SessionSurvives
<1>1. raced \/ VisitInv => SessionSurvives
  BY VisitMeans DEF SessionSurvives, Visits!SessionSurvives
<1> QED BY VisitInvariant, <1>1, PTL

(* sessionManager.cpp: with one worker process a session that was          *)
(* destroyed while nobody else had it in hand never comes back, as long as *)
(* no two threads drew an identifier at once.                              *)
THEOREM LogoutIsFinal == ASSUME OneServer PROVE Spec => []LogoutHolds
<1>1. raced \/ VisitInv => LogoutHolds
  BY VisitMeans DEF LogoutHolds, Visits!LogoutHolds
<1> QED BY VisitInvariant, <1>1, PTL
=============================================================================
