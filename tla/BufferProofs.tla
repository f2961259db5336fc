----------------------------- MODULE BufferProofs -----------------------------
(***************************************************************************)
(* Proofs about Buffer for every initial size, every prepended space and   *)
(* every sequence of appends and retrievals.                               *)
(***************************************************************************)
EXTENDS Buffer, TLAPS

Numbers ==
    /\ size \in Nat /\ readerIndex \in Nat /\ writerIndex \in Nat
    /\ written \in Nat /\ taken \in Nat /\ wanted \in Nat

(* The inductive invariant: the order of the readable bytes needs the      *)
(* indices inside the vector, and the bound on its length needs to know    *)
(* that what is held was asked for.                                        *)
BufferInv ==
    /\ Numbers
    /\ bytes = [i \in 0 .. size - 1 |-> bytes[i]]
    /\ IndicesInside
    /\ ReadsInOrder
    /\ GrowsWithDemand

USE DEF readableBytes, writableBytes, prependableBytes

LEMMA InitInv ==
    ASSUME BufferAssumption, Init
    PROVE  BufferInv
<1>1. Numbers /\ IndicesInside /\ GrowsWithDemand
  BY DEF BufferAssumption, Init, Numbers, IndicesInside, GrowsWithDemand
<1>2. ReadsInOrder
  BY DEF BufferAssumption, Init, ReadsInOrder
<1>3. bytes = [i \in 0 .. size - 1 |-> bytes[i]]
  BY DEF Init
<1> QED BY <1>1, <1>2, <1>3 DEF BufferInv

(* Where append puts the bytes there is room for all of them.              *)
LEMMA RoomForAll ==
    ASSUME BufferAssumption, BufferInv, NEW len \in 0 .. MaxLen
    PROVE  /\ Place(len) \in Nat /\ CheapPrepend <= Place(len)
           /\ readableBytes \in Nat /\ len \in Nat
           /\ SizeFor(len) \in Nat
           /\ Place(len) + readableBytes + len <= SizeFor(len)
<1> USE DEF BufferAssumption, BufferInv, Numbers, IndicesInside
<1>1. /\ CheapPrepend \in Nat /\ readerIndex \in Nat /\ writerIndex \in Nat /\ size \in Nat
      /\ len \in Nat /\ CheapPrepend <= readerIndex
      /\ readerIndex <= writerIndex /\ writerIndex <= size
  OBVIOUS
<1>2. CASE Fits(len)
  <2>1. Place(len) = readerIndex /\ SizeFor(len) = size /\ len <= size - writerIndex
    BY <1>1, <1>2 DEF Place, SizeFor, Fits, Moves
  <2> QED BY ONLY <1>1, <2>1
<1>3. CASE Moves(len)
  <2>1. /\ Place(len) = CheapPrepend /\ SizeFor(len) = size
        /\ size - writerIndex + readerIndex >= len + CheapPrepend
    BY <1>3 DEF Place, SizeFor, Moves
  <2> QED BY ONLY <1>1, <2>1
<1>4. CASE ~Fits(len) /\ ~Moves(len)
  <2>1. Place(len) = readerIndex /\ SizeFor(len) = writerIndex + len
    BY <1>4 DEF Place, SizeFor
  <2> QED BY ONLY <1>1, <2>1
<1> QED BY <1>2, <1>3, <1>4

LEMMA AppendInv ==
    ASSUME BufferAssumption, BufferInv, NEW len \in 0 .. MaxLen, Append(len)
    PROVE  BufferInv'
<1> DEFINE place == Place(len)
           end == place + readableBytes
<1>1. /\ place \in Nat /\ CheapPrepend <= place /\ end \in Nat /\ len \in Nat
      /\ readableBytes \in Nat /\ SizeFor(len) \in Nat /\ end + len <= SizeFor(len)
      /\ end = place + readableBytes
  BY RoomForAll
<1>2. /\ readerIndex' = place /\ writerIndex' = end + len /\ size' = SizeFor(len)
      /\ written' = written + len /\ taken' = taken
      /\ wanted' = IF readableBytes + len > wanted THEN readableBytes + len ELSE wanted
  BY DEF Append
<1>3. bytes' = [i \in 0 .. size' - 1 |->
         IF i \in end .. end + len - 1 THEN written + 1 + i - end
         ELSE IF i \in place .. end - 1 THEN bytes[i - place + readerIndex]
         ELSE IF i < size THEN bytes[i] ELSE 0]
  BY DEF Append
<1> HIDE DEF place, end
<1>4. Numbers /\ CheapPrepend \in Nat /\ InitialSize \in Nat
  BY DEF BufferInv, BufferAssumption
<1>5. ReadsInOrder /\ GrowsWithDemand
  BY DEF BufferInv
<1>6. Numbers' /\ wanted <= wanted' /\ readableBytes + len <= wanted'
  BY <1>1, <1>2, <1>4 DEF Numbers
<1>7. IndicesInside'
  BY <1>1, <1>2, <1>4 DEF IndicesInside
<1>8. ReadsInOrder'
  <2>1. readableBytes = written - taken
    BY DEF BufferInv, ReadsInOrder
  <2>2. readableBytes' = readableBytes + len
    BY <1>1, <1>2, <1>4 DEF Numbers
  <2>3. ASSUME NEW i \in 0 .. readableBytes' - 1
        PROVE  bytes'[readerIndex' + i] = taken' + 1 + i
    <3>1. ASSUME NEW j \in 0 .. size' - 1
          PROVE  /\ j \in end .. end + len - 1 => bytes'[j] = written + 1 + j - end
                 /\ j \in place .. end - 1 /\ j \notin end .. end + len - 1
                       => bytes'[j] = bytes[j - place + readerIndex]
      BY ONLY j \in 0 .. size' - 1, <1>3
    <3>2. /\ i \in Nat /\ i < readableBytes + len
          /\ place + i \in 0 .. size' - 1
      BY <1>1, <1>2, <2>2
    <3>3. CASE i < readableBytes
      <4>1. place + i \in place .. end - 1 /\ place + i \notin end .. end + len - 1
        BY <1>1, <3>2, <3>3
      <4> DEFINE j == place + i
      <4>2. j - place + readerIndex = readerIndex + i
        BY <1>1, <1>4, <3>2 DEF Numbers
      <4>3. bytes'[j] = bytes[j - place + readerIndex]
        <5>1. /\ j \in 0 .. size' - 1
              /\ j \in place .. end - 1 /\ j \notin end .. end + len - 1
          BY <3>2, <4>1
        <5> HIDE DEF j
        <5> QED BY ONLY <3>1, <5>1
      <4>4. bytes[readerIndex + i] = taken + 1 + i
        BY <1>1, <1>5, <3>2, <3>3 DEF ReadsInOrder
      <4> QED BY <1>2, <4>2, <4>3, <4>4
    <3>4. CASE ~(i < readableBytes)
      <4>1. place + i \in end .. end + len - 1
        BY <1>1, <3>2, <3>4
      <4>2. bytes'[place + i] = written + 1 + (place + i) - end
        BY <3>1, <3>2, <4>1
      <4>3. written + 1 + (place + i) - end = taken + 1 + i
        BY <1>1, <1>4, <2>1, <3>2 DEF Numbers
      <4> QED BY <1>2, <4>2, <4>3
    <3> QED BY <3>3, <3>4
  <2>4. readableBytes' = written' - taken'
    BY <1>1, <1>2, <1>4, <2>1, <2>2 DEF Numbers
  <2> QED BY <2>3, <2>4 DEF ReadsInOrder
<1>9. GrowsWithDemand'
  <2> DEFINE before == size    after == size'
             held == wanted    needed == wanted'
  <2>1. /\ before \in Nat /\ after \in Nat /\ held \in Nat /\ needed \in Nat
        /\ CheapPrepend \in Nat /\ held <= needed
        /\ \/ before = InitialSize + CheapPrepend
           \/ before <= 2 * held + CheapPrepend
    BY <1>4, <1>5, <1>6 DEF Numbers, GrowsWithDemand
  <2>2. CASE Fits(len) \/ Moves(len)
    <3>1. after = before
      BY <1>2, <2>2 DEF SizeFor
    <3> HIDE DEF before, after, held, needed
    <3>2. \/ after = InitialSize + CheapPrepend
          \/ after <= 2 * needed + CheapPrepend
      BY ONLY <2>1, <3>1
    <3> QED BY <3>2 DEF GrowsWithDemand, before, after, held, needed
  <2>3. CASE ~(Fits(len) \/ Moves(len))
    <3>1. /\ after = writerIndex + len
          /\ ~(writableBytes >= len)
          /\ ~(writableBytes + prependableBytes >= len + CheapPrepend)
      BY <1>2, <2>3 DEF SizeFor, Fits, Moves
    <3>2. readerIndex <= writerIndex /\ writerIndex <= size
      BY DEF BufferInv, IndicesInside
    <3>3. readerIndex <= len + CheapPrepend
      BY <1>1, <1>4, <3>1, <3>2 DEF Numbers
    <3>4. /\ writerIndex \in Nat /\ readerIndex \in Nat /\ len \in Nat
          /\ writerIndex - readerIndex + len <= needed
      BY <1>1, <1>4, <1>6 DEF Numbers
    <3> HIDE DEF before, after, held, needed
    <3>5. after <= 2 * needed + CheapPrepend
      BY <2>1, <3>1, <3>2, <3>3, <3>4
    <3> QED BY <3>5 DEF GrowsWithDemand, after, needed
  <2> QED BY <2>2, <2>3
<1>10. bytes' = [i \in 0 .. size' - 1 |-> bytes'[i]]
  BY <1>3
<1> QED BY <1>6, <1>7, <1>8, <1>9, <1>10 DEF BufferInv

LEMMA RetrieveInv ==
    ASSUME BufferAssumption, BufferInv, NEW len \in 0 .. MaxLen, Retrieve(len)
    PROVE  BufferInv'
<1>1. /\ Numbers /\ CheapPrepend \in Nat /\ len \in Nat
      /\ IndicesInside /\ readableBytes = written - taken
      /\ UNCHANGED <<bytes, size, written, wanted>>
  BY DEF BufferAssumption, BufferInv, ReadsInOrder, Retrieve
<1>2. GrowsWithDemand' /\ bytes' = [i \in 0 .. size' - 1 |-> bytes'[i]]
  BY <1>1 DEF BufferInv, GrowsWithDemand
<1>3. CASE len < readableBytes
  <2>1. readerIndex' = readerIndex + len /\ taken' = taken + len /\ writerIndex' = writerIndex
    BY <1>3 DEF Retrieve
  <2>2. Numbers' /\ IndicesInside'
    BY <1>1, <1>3, <2>1 DEF Numbers, IndicesInside
  <2>3. readableBytes' = written' - taken' /\ readableBytes' = readableBytes - len
    BY <1>1, <2>1 DEF Numbers
  <2>4. ASSUME NEW i \in 0 .. readableBytes' - 1
        PROVE  bytes'[readerIndex' + i] = taken' + 1 + i
    <3>1. /\ len + i \in 0 .. readableBytes - 1
          /\ readerIndex + len + i = readerIndex + (len + i)
          /\ taken + len + 1 + i = taken + 1 + (len + i)
      BY <1>1, <2>3 DEF Numbers
    <3>2. bytes[readerIndex + (len + i)] = taken + 1 + (len + i)
      BY <3>1 DEF BufferInv, ReadsInOrder
    <3> QED BY <1>1, <2>1, <3>1, <3>2
  <2> QED BY <1>2, <2>2, <2>3, <2>4 DEF BufferInv, ReadsInOrder
<1>4. CASE ~(len < readableBytes)
  <2>1. /\ readerIndex' = CheapPrepend /\ writerIndex' = CheapPrepend
        /\ taken' = taken + readableBytes
    BY <1>4 DEF Retrieve
  <2>2. Numbers' /\ IndicesInside'
    BY <1>1, <2>1 DEF Numbers, IndicesInside
  <2>3. readableBytes' = 0 /\ written' - taken' = 0
    BY <1>1, <2>1 DEF Numbers
  <2>4. ReadsInOrder'
    BY <2>3 DEF ReadsInOrder
  <2> QED BY <1>2, <2>2, <2>4 DEF BufferInv
<1> QED BY <1>3, <1>4

(* Buffer.h: appends that move the bytes to the front, or make the vector  *)
(* grow, and retrievals of a part or of all keep every index, every byte   *)
(* and the length of the vector right.                                     *)
THEOREM BufferInvariant ==
    ASSUME BufferAssumption
    PROVE  Spec => []BufferInv
<1>1. Init => BufferInv
  BY InitInv
<1>2. BufferInv /\ [Next]_vars => BufferInv'
  <2> SUFFICES ASSUME BufferInv, [Next]_vars PROVE BufferInv'
    OBVIOUS
  <2>1. CASE Next
    BY <2>1, AppendInv, RetrieveInv DEF Next
  <2>2. CASE UNCHANGED vars
    BY <2>2 DEF vars, BufferInv, Numbers, IndicesInside, ReadsInOrder, GrowsWithDemand
  <2> QED BY <2>1, <2>2
<1> QED BY <1>1, <1>2, PTL DEF Spec

(* Buffer.h: no access is outside the vector.                              *)
THEOREM StaysInside ==
    ASSUME BufferAssumption
    PROVE  Spec => []IndicesInside
<1>1. BufferInv => IndicesInside
  BY DEF BufferInv
<1> QED BY <1>1, BufferInvariant, PTL

(* Buffer.h: bytes are read as they were appended, none lost or repeated.  *)
THEOREM BytesInOrder ==
    ASSUME BufferAssumption
    PROVE  Spec => []ReadsInOrder
<1>1. BufferInv => ReadsInOrder
  BY DEF BufferInv
<1> QED BY <1>1, BufferInvariant, PTL

(* Buffer.h: the vector is at most twice as long as what it had to hold.   *)
THEOREM BoundedGrowth ==
    ASSUME BufferAssumption
    PROVE  Spec => []GrowsWithDemand
<1>1. BufferInv => GrowsWithDemand
  BY DEF BufferInv
<1> QED BY <1>1, BufferInvariant, PTL
=============================================================================
