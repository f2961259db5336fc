------------------------------ MODULE HttpParser ------------------------------
(***************************************************************************)
(* HttpContext::parseRequest (src/http/my_http_context.cpp): the state     *)
(* machine that finds one request in bytes that arrive in chunks cut       *)
(* anywhere.                                                               *)
(*                                                                         *)
(* A request is its layout: the offsets of its line ends, of the boundary, *)
(* of the part head and of the end boundary.  It has two header lines: the *)
(* first is the Content-Type or one without a colon where the kind says    *)
(* so, the second the Content-Length.  std::search is the question         *)
(* whether a pattern at a known offset lies between the parse position and *)
(* the bytes that have arrived.  Positions are offsets in the stream:      *)
(* that consumed bytes are removed from buffer_ moves none of them.        *)
(* Calls follow one another, as the chunk numbers of RecvPath order them.  *)
(*                                                                         *)
(* The loop has no way out but running out of bytes or kGotAll.  A pass    *)
(* that finds nothing and consumes nothing is repeated for ever; in the    *)
(* model no action is enabled then.                                        *)
(***************************************************************************)
EXTENDS Integers, FiniteSets, FiniteSetsExt

CONSTANTS
    Kinds,       \* the requests that are sent, of AllKinds
    LineLen,     \* bytes of the request line
    FieldLen,    \* bytes of a header line
    DelimLen,    \* bytes of "--boundary"
    PartHeadLen, \* bytes of the part head, without the empty line after it
    BodyLen,     \* bytes of a plain body, or of the part's data
    MaxLine      \* 1024 in parseRequest

(* Kinds the parser has an error exit for in the headers.                  *)
Erroneous ==
    {"nolength",      \* POST without Content-Length
     "badlength",     \* one that is no number: stoi throws
     "noboundary",    \* a form whose Content-Type names no boundary
     "badheader",     \* GET with a header line without a colon
     "badheaderpost"} \* POST with such a line

AllKinds == Erroneous \cup
    {"get",        \* no body
     "post",       \* Content-Length and a plain body
     "form",       \* multipart/form-data with one part
     "zerolength", \* POST whose Content-Length is 0 or negative
     "badline"}    \* a request line that is none

(* What ends with the empty line, and what has a body that is counted.     *)
Bodiless == {"get", "badheader", "zerolength"}
Plain == {"post", "badheaderpost", "noboundary"}

ParserAssumption ==
    /\ Kinds \subseteq AllKinds
    /\ {LineLen, FieldLen, DelimLen, PartHeadLen, BodyLen} \subseteq Nat \ {0}
    /\ MaxLine \in Nat

VARIABLES
    kind,        \* the request on its way
    arrived,     \* buffer_: bytes received so far
    parsing,     \* whether parseRequest is running
    pos,         \* parsed_pos_
    state,       \* state_
    received,    \* body_bytes_received_
    partHead,    \* request_.getfileHeader() is not empty
    ok, isErr,   \* the result under construction
    savedTo,     \* bytes up to here were appended to the body or the file
    verdict,     \* what the caller was told last: "more", "ok" or "bad"
    inside       \* ghost: a chunk ended where parseRequest cannot go on

input == <<kind, arrived, inside>>
context == <<pos, state, received, partHead, savedTo>>
result == <<ok, isErr, verdict>>
vars == <<input, parsing, context, result>>

Crlf == 2
FieldAt == LineLen + Crlf
LengthAt == FieldAt + FieldLen + Crlf
BlankAt == LengthAt + FieldLen + Crlf
BodyAt == BlankAt + Crlf
PartAt == BodyAt + DelimLen + Crlf            \* the part head
DataAt == IF kind = "form" THEN PartAt + PartHeadLen + 2 * Crlf ELSE BodyAt
DataEnd == DataAt + BodyLen
EndAt == DataEnd + Crlf                       \* "--boundary--"
EndLen == DelimLen + 2
Size == CASE kind \in Bodiless -> BodyAt
          [] kind = "form" -> EndAt + EndLen + Crlf
          [] OTHER -> DataEnd
ContentLength == IF kind = "form" THEN Size - BodyAt ELSE BodyLen

(* Line ends std::search can find; the patterns occur nowhere else.        *)
LineEnds == {LineLen, FieldAt + FieldLen, LengthAt + FieldLen, BlankAt}
            \cup (IF kind = "form" THEN {BodyAt + DelimLen, EndAt + EndLen} ELSE {})
InSight(at, len) == pos <= at /\ at + len <= arrived
Found == {e \in LineEnds : InSight(e, Crlf)}

(* Where a chunk may end without stopping the parser: after complete       *)
(* lines, after the whole part head, anywhere in a plain body, in the      *)
(* part's data or before the end boundary, or at the end.                  *)
Passable(n) ==
    \/ n \in {FieldAt, LengthAt, BlankAt, BodyAt}
    \/ n = Size /\ kind \notin {"nolength", "badlength"}
    \/ kind \in Plain /\ n >= BodyAt
    \/ kind = "form" /\ n \in DataAt .. EndAt
Clean == ~inside /\ kind # "badline" /\ LineLen <= MaxLine

Init ==
    /\ kind \in Kinds
    /\ arrived = 0 /\ inside = FALSE
    /\ parsing = FALSE
    /\ pos = 0 /\ state = "line" /\ received = 0 /\ partHead = FALSE
    /\ savedTo = DataAt
    /\ ok = FALSE /\ isErr = FALSE /\ verdict = "more"

-----------------------------------------------------------------------------
(* A chunk arrives, cut anywhere.  The connection is closed after a 400.   *)
Chunk ==
    /\ ~parsing /\ arrived < Size /\ verdict # "bad"
    /\ arrived' \in arrived + 1 .. Size
    /\ inside' = (inside \/ ~Passable(arrived'))
    /\ parsing' = TRUE /\ ok' = FALSE /\ isErr' = FALSE
    /\ UNCHANGED <<kind, context, verdict>>

(* One pass of the outer or of the inner loop.                             *)
Looping(s) == parsing /\ state = s /\ pos < arrived

RequestLine ==
    /\ Looping("line") /\ Found # {}
    /\ pos = 0 /\ kind # "badline" /\ LineLen <= MaxLine
    /\ pos' = Min(Found) + Crlf
    /\ state' = "headers"
    /\ UNCHANGED <<input, parsing, received, partHead, savedTo, result>>

TooLong ==                       \* an error, and the loop goes on all the same
    /\ Looping("line") /\ ~isErr
    /\ IF Found = {} THEN arrived - pos > MaxLine ELSE Min(Found) - pos > MaxLine
    /\ isErr' = TRUE
    /\ UNCHANGED <<input, parsing, context, ok, verdict>>

(* A line without a colon is an error, and the loop goes on.  When it runs *)
(* out of bytes or meets the empty line, the Content-Type read so far is   *)
(* looked at for a boundary.                                               *)
HeaderLine ==
    /\ Looping("headers") /\ Found # {} /\ Min(Found) # pos
    /\ pos' = Min(Found) + Crlf
    /\ isErr' = \/ isErr
                \/ kind \in {"badheader", "badheaderpost"} /\ pos = FieldAt
                \/ kind = "noboundary" /\ pos' = arrived
    /\ UNCHANGED <<input, parsing, state, received, partHead, savedTo, ok, verdict>>

(* Only ok is overwritten here, an isErr of an earlier line stays.         *)
HeadersEnd ==
    /\ Looping("headers") /\ Found # {} /\ Min(Found) = pos
    /\ pos' = pos + Crlf
    /\ state' = CASE kind \in Bodiless -> "all"
                  [] kind \in {"nolength", "badlength"} -> state
                  [] OTHER -> "body"
    /\ ok' = (kind \in Bodiless)
    /\ isErr' = (isErr \/ kind \in {"nolength", "badlength", "noboundary"})
    /\ UNCHANGED <<input, parsing, received, partHead, savedTo, verdict>>

EnoughWithOneMissing(n) == n + 1 >= ContentLength                   \* mutant
Enough(n) == n >= ContentLength

PlainBody ==
    /\ Looping("body") /\ kind \in Plain
    /\ LET n == Min({arrived - pos, ContentLength - received}) IN
          /\ pos' = pos + n /\ savedTo' = pos + n
          /\ received' = received + n
          /\ state' = IF Enough(received + n) THEN "all" ELSE "body"
          /\ ok' = Enough(received + n)
    /\ UNCHANGED <<input, parsing, partHead, isErr, verdict>>

(* Boundary, optional line end and the whole part head at once.  The       *)
(* boundary is counted with 4 bytes of line ends although it has 2, which  *)
(* makes up for the line end after the end boundary.                       *)
CountedExactly == DelimLen + Crlf + PartHeadLen + 2 * Crlf          \* mutant
Counted == DelimLen + 4 + PartHeadLen + 4

PartHead ==
    /\ Looping("body") /\ kind = "form" /\ ~partHead
    /\ InSight(BodyAt, DelimLen) /\ DataAt <= arrived
    /\ pos' = DataAt
    /\ received' = received + Counted
    /\ partHead' = TRUE
    /\ UNCHANGED <<input, parsing, state, savedTo, result>>

EndInSightLate == /\ InSight(EndAt, EndLen)                          \* mutant
                  /\ received + (EndAt - pos) + EndLen > ContentLength
EndInSight == /\ InSight(EndAt, EndLen)
              /\ received + (EndAt - pos) + EndLen >= ContentLength

PartData ==                      \* no end in sight: save what belongs to the part
    /\ Looping("body") /\ partHead /\ ~EndInSight
    /\ LET n == Min({ContentLength - EndLen - received, arrived - pos}) IN
          /\ n > 0
          /\ pos' = pos + n /\ savedTo' = pos + n
          /\ received' = received + n
    /\ ok' = FALSE
    /\ UNCHANGED <<input, parsing, state, partHead, isErr, verdict>>

PartEnd ==
    /\ Looping("body") /\ partHead /\ EndInSight
    /\ savedTo' = EndAt
    /\ pos' = EndAt + EndLen
    /\ state' = "all" /\ ok' = TRUE
    /\ UNCHANGED <<input, parsing, received, partHead, isErr, verdict>>

(* The loop ends.  After an error, and by the caller after a complete      *)
(* request, the context is reset and the buffer emptied.                   *)
Return ==
    /\ parsing /\ (pos >= arrived \/ state = "all")
    /\ parsing' = FALSE
    /\ verdict' = CASE ok \/ (state = "all" /\ pos < arrived) -> "ok"
                    [] isErr /\ ~ok -> "bad"
                    [] OTHER -> "more"
    /\ IF verdict' # "more"
       THEN /\ pos' = arrived /\ state' = "line"
            /\ received' = 0 /\ partHead' = FALSE
       ELSE UNCHANGED <<pos, state, received, partHead>>
    /\ UNCHANGED <<input, savedTo, ok, isErr>>

Parse == RequestLine \/ TooLong \/ HeaderLine \/ HeadersEnd \/ PlainBody \/ PartHead
            \/ PartData \/ PartEnd \/ Return

Next == Chunk \/ Parse

Spec == Init /\ [][Next]_vars

(* The client sends all of its request, the thread runs.                   *)
Fairness == WF_vars(Chunk) /\ WF_vars(Parse)

FairSpec == Spec /\ Fairness

-----------------------------------------------------------------------------
TypeOK ==
    /\ kind \in Kinds /\ arrived \in 0 .. Size /\ inside \in BOOLEAN
    /\ parsing \in BOOLEAN
    /\ pos \in 0 .. arrived
    /\ state \in {"line", "headers", "body", "all"}
    /\ received \in 0 .. ContentLength + Crlf
    /\ partHead \in BOOLEAN /\ ok \in BOOLEAN /\ isErr \in BOOLEAN
    /\ savedTo \in DataAt .. Size
    /\ verdict \in {"more", "ok", "bad"}

(* However the bytes were cut, nothing behind the body is ever saved: of a *)
(* form the line end before the end boundary is the last (the code keeps   *)
(* it), never a byte of the boundary.                                      *)
SavesBodyOnly == savedTo <= (IF kind = "form" THEN EndAt ELSE Size)

(* A request is reported complete only when its whole body has been saved  *)
(* (of a form up to the end boundary) and its length was understood, and   *)
(* in error only if the parser has an error exit for it.                   *)
VerdictRight ==
    /\ verdict = "ok" =>
          /\ savedTo = IF kind = "form" THEN EndAt ELSE Size
          /\ kind \notin {"nolength", "badlength", "badline"}
    /\ verdict = "bad" => kind \in Erroneous

(* Cut where the parser can go on, a request that has arrived is reported. *)
CompleteIsReported == (arrived = Size /\ Clean) ~> (verdict # "more")

-----------------------------------------------------------------------------
(* my_http_context.cpp: a body whose part is not complete, or whose part   *)
(* head is not, is one that more data is awaited for: parseRequest returns *)
(* to its caller, who brings the next chunk.                               *)
WaitsForMore == (parsing /\ state = "body") ~> ~parsing

(* my_http_context.cpp:122 calls a header line without a colon an illegal  *)
(* format, :150 a form without a boundary an illegal request: what has an  *)
(* error exit is never reported complete.                                  *)
ErrorsRefused == verdict = "ok" => kind \notin Erroneous
=============================================================================
