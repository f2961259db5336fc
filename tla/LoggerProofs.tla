----------------------------- MODULE LoggerProofs -----------------------------
(***************************************************************************)
(* Proofs about Logger: whatever the size of the array, the format and its *)
(* arguments, no line leaves the array and no reason is cut.               *)
(***************************************************************************)
EXTENDS Logger, TLAPS

(* The inductive invariant.  A reason that was put into the line ends just *)
(* before the byte the newline may take, and only until then.              *)
LineInv ==
    /\ p \in Nat /\ reason \in Nat /\ p <= last
    /\ pc \in {"format", "reason"} => reason = 0
    /\ pc = "newline" => reason = 0 \/ (reason = p - 1 /\ p < last)
    /\ pc = "write" => p < last /\ reason < p

(* The functions that fill the array stop at its end.                      *)
LEMMA TextFits ==
    ASSUME LoggerAssumption, NEW at \in Nat, at <= last, NEW n \in Nat
    PROVE  PutText(at, n) \in Nat /\ PutText(at, n) <= last
  BY DEF LoggerAssumption, PutText, Least

LEMMA NumberFits ==
    ASSUME LoggerAssumption, NEW at \in Nat, at <= last,
           NEW digits \in Nat, NEW width \in Nat
    PROVE  PutNumber(at, digits, width) \in Nat /\ PutNumber(at, digits, width) <= last
<1>1. CASE digits < width
  <2>1. width - digits \in Nat
    BY <1>1
  <2>2. PutText(at, width - digits) \in Nat /\ PutText(at, width - digits) <= last
    BY <2>1, TextFits
  <2> QED BY <1>1, <2>2 DEF LoggerAssumption, PutNumber
<1>2. CASE ~(digits < width)
  BY <1>2 DEF LoggerAssumption, PutNumber
<1> QED BY <1>1, <1>2

LEMMA SignedFits ==
    ASSUME LoggerAssumption, NEW at \in Nat, at < last, NEW negative \in BOOLEAN,
           NEW digits \in Nat, NEW width \in Nat
    PROVE  /\ PutSigned(at, negative, digits, width) \in Nat
           /\ PutSigned(at, negative, digits, width) <= last
<1> DEFINE from == IF negative THEN at + 1 ELSE at
<1>1. from \in Nat /\ from <= last
  BY DEF LoggerAssumption
<1>2. PutSigned(at, negative, digits, width) = PutNumber(from, digits, width)
  BY DEF PutSigned
<1> HIDE DEF from
<1> QED BY <1>1, <1>2, NumberFits

LEMMA FractionFits ==
    ASSUME LoggerAssumption, NEW at \in Nat, at <= last, NEW digits \in Nat
    PROVE  PutFraction(at, digits) \in Nat /\ PutFraction(at, digits) <= last
<1> DEFINE from == IF at < last THEN at + 1 ELSE at
<1>1. from \in Nat /\ from <= last
  BY DEF LoggerAssumption
<1>2. PutFraction(at, digits) = IF digits = 0 THEN at ELSE PutNumber(from, digits, digits)
  BY DEF PutFraction
<1> HIDE DEF from
<1> QED BY <1>1, <1>2, NumberFits

(* The date always fits, and the prefix stops at the end of the array.     *)
LEMMA PrefixFits ==
    ASSUME LoggerAssumption, NEW name \in Nat, NEW pid \in Nat
    PROVE  Prefix(name, pid) \in Nat /\ Prefix(name, pid) <= last
<1> DEFINE named == PutText(DateLen, name + 4)
           numbered == PutNumber(named, pid, 0)
<1>1. named \in Nat /\ named <= last
  BY TextFits DEF LoggerAssumption, DateLen
<1> HIDE DEF named
<1>2. numbered \in Nat /\ numbered <= last
  BY <1>1, NumberFits
<1>3. Prefix(name, pid) = PutText(numbered, 2)
  BY DEF Prefix, named
<1> HIDE DEF numbered
<1> QED BY <1>2, <1>3, TextFits

-----------------------------------------------------------------------------
LEMMA InitLine == ASSUME LoggerAssumption, Init PROVE LineInv
  BY DEF LoggerAssumption, Init, LineInv

LEMMA FormatKeeps ==
    ASSUME LoggerAssumption, LineInv, Format PROVE LineInv'
<1>1. p \in Nat /\ p < last /\ reason = 0 /\ pc = "format" /\ last \in Nat
  BY DEF LoggerAssumption, LineInv, Format
<1>2. pc' = pc /\ reason' = reason
  BY DEF Format, arguments
<1>3. Lengths \subseteq Nat
  BY DEF LoggerAssumption
<1>4. p' \in Nat /\ p' <= last
  <2>1. ASSUME NEW n \in Lengths, p' = PutText(p, n)
        PROVE  p' \in Nat /\ p' <= last
    BY <1>1, <1>3, <2>1, TextFits
  <2>2. CASE p' = p + 1
    BY <1>1, <2>2
  <2>3. ASSUME NEW digits \in Lengths, NEW width \in Lengths, NEW negative \in BOOLEAN,
               p' = PutSigned(p, negative, digits, width)
        PROVE  p' \in Nat /\ p' <= last
    BY <1>1, <1>3, <2>3, SignedFits
  <2>4. ASSUME NEW digits \in Lengths, NEW width \in Lengths, NEW negative \in BOOLEAN,
               NEW frac_width \in Lengths,
               p' = PutFraction(PutSigned(p, negative, digits, width), frac_width)
        PROVE  p' \in Nat /\ p' <= last
    BY <1>1, <1>3, <2>4, SignedFits, FractionFits
  <2> QED BY <2>1, <2>2, <2>3, <2>4 DEF Format
<1> QED BY <1>1, <1>2, <1>4 DEF LineInv

LEMMA WriteStderrKeeps ==
    ASSUME LoggerAssumption, LineInv, WriteStderr PROVE LineInv'
<1>1. p \in Nat /\ p < last /\ reason \in Nat /\ reason < p /\ pc = "write"
  BY DEF LineInv, WriteStderr
<1>2. CASE fd = "file"
  <2>1. PICK name \in Lengths, pid \in Lengths : p' = PutText(Prefix(name, pid), p - 1)
    BY <1>2 DEF WriteStderr
  <2>2. name \in Nat /\ pid \in Nat /\ p - 1 \in Nat
    BY <1>1 DEF LoggerAssumption
  <2>3. Prefix(name, pid) \in Nat /\ Prefix(name, pid) <= last
    BY <2>2, PrefixFits
  <2> HIDE DEF Prefix
  <2>4. p' \in Nat /\ p' <= last
    BY <2>1, <2>2, <2>3, TextFits
  <2>5. reason' = 0 /\ pc' = "newline"
    BY <1>2 DEF WriteStderr
  <2> QED BY <2>4, <2>5 DEF LineInv
<1>3. CASE fd # "file"
  BY <1>1, <1>3 DEF WriteStderr, LineInv, line
<1> QED BY <1>2, <1>3

LEMMA StepKeeps ==
    ASSUME LoggerAssumption, LineInv, [Next]_vars PROVE LineInv'
<1>1. CASE LogStderr
  BY <1>1 DEF LoggerAssumption, LineInv, LogStderr, NameLen, DateLen
<1>2. CASE LogErrorCore
  <2>1. PICK name \in Lengths, pid \in Lengths : p' = Prefix(name, pid)
    BY <1>2 DEF LogErrorCore
  <2>2. p' \in Nat /\ p' <= last
    BY <2>1, PrefixFits DEF LoggerAssumption
  <2>3. reason' = 0 /\ pc' = "format"
    BY <1>2 DEF LogErrorCore
  <2> QED BY <2>2, <2>3 DEF LineInv
<1>3. CASE Format
  BY <1>3, FormatKeeps
<1>4. CASE FormatEnds
  BY <1>4 DEF LineInv, FormatEnds, line
<1>5. CASE LogErrno
  <2>1. PICK n \in ReasonLengths :
            IF ReasonFits(n) THEN p' = p + n /\ reason' = p + n - 1 ELSE UNCHANGED line
    BY <1>5 DEF LogErrno
  <2>2. n \in Nat /\ n # 0
    BY DEF LoggerAssumption
  <2>3. pc' = "newline" /\ reason = 0
    BY <1>5 DEF LogErrno, LineInv
  <2> QED BY <2>1, <2>2, <2>3 DEF LoggerAssumption, LineInv, ReasonFits, line
<1>6. CASE Newline
  <2>1. pc = "newline" /\ pc' = "write" /\ reason' = reason
    BY <1>6 DEF Newline
  <2>2. p' = (IF p >= last - 1 THEN last - 2 ELSE p) + 1
    BY <1>6 DEF Newline
  <2>3. last \in Nat /\ last > 19
    BY DEF LoggerAssumption, DateLen
  <2> QED BY <2>1, <2>2, <2>3 DEF LineInv
<1>7. CASE WriteStderr
  BY <1>7, WriteStderrKeeps
<1>8. CASE TooFine \/ WriteCore \/ LogClose
  BY <1>8 DEF LineInv, TooFine, WriteCore, LogClose, line
<1>9. CASE LogInit
  BY <1>9 DEF LoggerAssumption, LineInv, LogInit, NameLen, DateLen, line
<1>10. CASE UNCHANGED vars
  BY <1>10 DEF LineInv, vars, line
<1> QED BY <1>1, <1>2, <1>3, <1>4, <1>5, <1>6, <1>7, <1>8, <1>9, <1>10 DEF Next

(* Whatever is logged, no byte is written outside the array, every line    *)
(* ends inside it, and the reason of an error is never cut.                *)
THEOREM LoggerLinesWhole == ASSUME LoggerAssumption PROVE Spec => []LinesWhole
<1>1. Init => LineInv
  BY InitLine
<1>2. LineInv /\ [Next]_vars => LineInv'
  BY StepKeeps
<1>3. LineInv => LinesWhole
  BY DEF LineInv, LinesWhole
<1> QED BY <1>1, <1>2, <1>3, PTL DEF Spec
=============================================================================
