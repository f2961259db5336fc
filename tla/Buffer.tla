-------------------------------- MODULE Buffer ---------------------------------
(***************************************************************************)
(* The byte buffer behind psendbuf and the send threads' tmpbuf            *)
(* (include/http/Buffer.h): a vector with a reader and a writer index,     *)
(* space before the reader that is reused when the end is reached.         *)
(*                                                                         *)
(* The bytes appended are numbered 1, 2, 3, ...; 0 is a byte nobody wrote. *)
(* So the readable bytes are right when they are the numbers from the      *)
(* first one not yet taken to the last one written.                        *)
(***************************************************************************)
EXTENDS Integers

CONSTANTS
    CheapPrepend,    \* kCheapPrepend
    InitialSize,     \* kInitialSize
    MaxLen,          \* bound: bytes of one append
    MaxBytes         \* bound: bytes ever appended

BufferAssumption ==
    /\ CheapPrepend \in Nat /\ InitialSize \in Nat
    /\ MaxLen \in Nat /\ MaxBytes \in Nat

VARIABLES
    bytes,           \* buffer_
    size,            \* buffer_.size()
    readerIndex,     \* readerIndex_
    writerIndex,     \* writerIndex_
    written,         \* bytes appended so far
    taken,           \* bytes retrieved so far
    wanted           \* ghost: the most the buffer ever had to hold

vars == <<bytes, size, readerIndex, writerIndex, written, taken, wanted>>

Init ==
    /\ size = InitialSize + CheapPrepend
    /\ bytes = [i \in 0 .. size - 1 |-> 0]
    /\ readerIndex = CheapPrepend /\ writerIndex = CheapPrepend
    /\ written = 0 /\ taken = 0 /\ wanted = 0

readableBytes == writerIndex - readerIndex
writableBytes == size - writerIndex
prependableBytes == readerIndex

-----------------------------------------------------------------------------
(* ensureWritableBytes and makeSpace: where the readable bytes lie before  *)
(* the new ones are copied behind them, and how long the vector is then.   *)
Fits(len) == writableBytes >= len

MovesNever(len) == FALSE                                            \* mutant
Moves(len) ==
    /\ ~Fits(len)
    /\ writableBytes + prependableBytes >= len + CheapPrepend

Place(len) == IF Moves(len) THEN CheapPrepend ELSE readerIndex
SizeFor(len) == IF Fits(len) \/ Moves(len) THEN size ELSE writerIndex + len

(* append.                                                                 *)
Append(len) ==
    /\ written + len <= MaxBytes
    /\ LET end == Place(len) + readableBytes IN
          /\ readerIndex' = Place(len)
          /\ writerIndex' = end + len
          /\ size' = SizeFor(len)
          /\ bytes' = [i \in 0 .. size' - 1 |->
                IF i \in end .. end + len - 1 THEN written + 1 + i - end
                ELSE IF i \in Place(len) .. end - 1 THEN bytes[i - Place(len) + readerIndex]
                ELSE IF i < size THEN bytes[i] ELSE 0]
    /\ written' = written + len
    /\ wanted' = IF readableBytes + len > wanted THEN readableBytes + len ELSE wanted
    /\ UNCHANGED taken

RetrieveOnlyAll(len) ==                                             \* mutant
    /\ readerIndex' = CheapPrepend /\ writerIndex' = CheapPrepend
    /\ taken' = taken + (IF len < readableBytes THEN len ELSE readableBytes)
    /\ UNCHANGED <<bytes, size, written, wanted>>
(* retrieve: with everything read, both indices start again.               *)
Retrieve(len) ==
    /\ IF len < readableBytes
       THEN /\ readerIndex' = readerIndex + len /\ taken' = taken + len
            /\ UNCHANGED writerIndex
       ELSE /\ readerIndex' = CheapPrepend /\ writerIndex' = CheapPrepend
            /\ taken' = taken + readableBytes
    /\ UNCHANGED <<bytes, size, written, wanted>>

Next == \E len \in 0 .. MaxLen : Append(len) \/ Retrieve(len)

Spec == Init /\ [][Next]_vars

-----------------------------------------------------------------------------
TypeOK ==
    /\ size \in Nat /\ bytes \in [0 .. size - 1 -> 0 .. MaxBytes]
    /\ readerIndex \in Nat /\ writerIndex \in Nat
    /\ written \in 0 .. MaxBytes /\ taken \in 0 .. written /\ wanted \in 0 .. MaxBytes

(* Nothing is read or written outside the vector, and the space in front   *)
(* of the reader never shrinks below what a move relies on.                *)
IndicesInside ==
    CheapPrepend <= readerIndex /\ readerIndex <= writerIndex /\ writerIndex <= size

(* What is readable is what was appended and not yet retrieved, in order,  *)
(* however often the bytes were moved or the vector grew.                  *)
ReadsInOrder ==
    /\ readableBytes = written - taken
    /\ \A i \in 0 .. readableBytes - 1 : bytes[readerIndex + i] = taken + 1 + i

(* The vector grows with what it has to hold at a time, not with what has  *)
(* passed through it.                                                      *)
GrowsWithDemand ==
    \/ size = InitialSize + CheapPrepend
    \/ size <= 2 * wanted + CheapPrepend
=============================================================================
