------------------------- MODULE SolidityBytesProofs -------------------------
(***************************************************************************)
(* Proofs about SolidityBytes, for every word size, every set of bytes and *)
(* every bound.                                                            *)
(***************************************************************************)
EXTENDS SolidityBytes, SequenceTheorems, TLAPS

-----------------------------------------------------------------------------

(* The data words of n bytes hold at least n bytes.                        *)
LEMMA SpanCovers ==
  ASSUME NEW n \in Nat
  PROVE  /\ WordCount(n) \in Nat
         /\ Span(n) \in Nat
         /\ n <= Span(n)
<1>1. /\ WordSize \in Nat /\ WordSize > 0
      /\ n + WordSize - 1 \in Nat
  BY WordSizeAssumption
<1>2. WordCount(n) \in Nat
  BY <1>1, Z3 DEF WordCount
<1>3. n + WordSize - 1 = WordSize * WordCount(n) + ((n + WordSize - 1) % WordSize)
  BY <1>1, Z3 DEF WordCount
<1>4. (n + WordSize - 1) % WordSize \in 0..WordSize - 1
  BY <1>1, Z3
<1>5. WordSize * WordCount(n) \in Nat
  BY <1>1, <1>2, Z3
<1> QED BY <1>1, <1>2, <1>3, <1>4, <1>5 DEF Span

(* A byte array is a sequence of bytes of length at most MaxLen.           *)
LEMMA ByteArrayFacts ==
  ASSUME NEW s \in ByteArrays
  PROVE  /\ s \in Seq(Byte)
         /\ Len(s) \in 0..MaxLen
         /\ s \in [1..Len(s) -> Byte]
<1>1. PICK n \in 0..MaxLen : s \in [1..n -> Byte]
  BY DEF ByteArrays
<1>2. n \in Nat
  BY <1>1, MaxLenAssumption
<1>3. s \in Seq(Byte) /\ Len(s) = n
  BY <1>1, <1>2
<1> QED BY <1>1, <1>3

(* Conversely.                                                             *)
LEMMA ByteArrayIntro ==
  ASSUME NEW n \in 0..MaxLen, NEW s \in [1..n -> Byte]
  PROVE  s \in ByteArrays /\ Len(s) = n
<1>1. s \in ByteArrays
  BY DEF ByteArrays
<1>2. s \in Seq(Byte) /\ Len(s) = n
  BY MaxLenAssumption
<1> QED BY <1>1, <1>2

(* The same from a sequence.                                               *)
LEMMA SequenceIntro ==
  ASSUME NEW s \in Seq(Byte), Len(s) <= MaxLen
  PROVE  s \in ByteArrays
<1>1. s \in [1..Len(s) -> Byte] /\ Len(s) \in Nat
  BY LenProperties
<1> QED BY <1>1, ByteArrayIntro, MaxLenAssumption

-----------------------------------------------------------------------------

(* What the state is made of, in the form the provers need.                *)
LEMMA StateFacts ==
  ASSUME header \in HeaderWords, data \in [Positions -> Byte]
  PROVE  /\ header.packed \in BOOLEAN
         /\ header.len \in 0..MaxLen
         /\ header.bytes \in [Inline -> Byte]
         /\ \A p \in 1..header.len : p \in Positions /\ data[p] \in Byte
<1>1. /\ header.packed \in BOOLEAN
      /\ header.len \in 0..MaxLen
      /\ header.bytes \in [Inline -> Byte]
  <2>1. CASE header \in [packed : {TRUE}, len : 0..MaxLen, bytes : [Inline -> Byte]]
    BY <2>1
  <2>2. CASE \E n \in 0..MaxLen : header = LongWord(n)
    BY <2>2, ByteAssumption DEF LongWord
  <2> QED BY <2>1, <2>2 DEF HeaderWords
<1>2. /\ MaxLen \in Nat
      /\ Span(MaxLen) \in Nat
      /\ MaxLen <= Span(MaxLen)
  BY MaxLenAssumption, SpanCovers
<1>3. \A p \in 1..header.len : p \in Positions
  BY <1>1, <1>2 DEF Positions
<1> QED BY <1>1, <1>3

(* A header that decodes gives a byte array of the header's length.        *)
LEMMA StoredType ==
  ASSUME header \in HeaderWords, data \in [Positions -> Byte], Decodes
  PROVE  /\ Stored \in ByteArrays
         /\ Stored \in [1..header.len -> Byte]
         /\ Len(Stored) = header.len
<1>1. header.len \in 0..MaxLen /\ header.bytes \in [Inline -> Byte]
  BY StateFacts
<1>2. ASSUME NEW i \in 1..header.len
      PROVE  (IF header.len < WordSize THEN header.bytes[i] ELSE data[i]) \in Byte
  <2>1. CASE header.len < WordSize
    <3>1. i \in Inline
      BY <1>1, <2>1, WordSizeAssumption, MaxLenAssumption DEF Inline
    <3> QED BY <1>1, <2>1, <3>1
  <2>2. CASE ~(header.len < WordSize)
    BY <2>2, StateFacts
  <2> QED BY <2>1, <2>2
<1>3. Stored \in [1..header.len -> Byte]
  BY <1>2 DEF Stored
<1> QED BY <1>1, <1>3, ByteArrayIntro

(* Storing a byte array of either form makes the slots decode to it.       *)
LEMMA StoreStores ==
  ASSUME header \in HeaderWords, data \in [Positions -> Byte], Decodes,
         NEW s \in ByteArrays, StoreShort(s) \/ StoreLong(s)
  PROVE  /\ header' \in HeaderWords
         /\ data' \in [Positions -> Byte]
         /\ Decodes'
         /\ header'.len = Len(s)
         /\ Stored' = s
<1>1. /\ s \in Seq(Byte)
      /\ Len(s) \in 0..MaxLen
      /\ s \in [1..Len(s) -> Byte]
  BY ByteArrayFacts
<1>2. MaxLen \in Nat /\ WordSize \in Nat /\ WordSize > 1
  BY MaxLenAssumption, WordSizeAssumption
<1>3. CASE StoreShort(s)
  <2>1. header' = ShortWord(s) /\ Len(s) < WordSize
    BY <1>3 DEF StoreShort
  <2>2. [i \in Inline |-> IF i <= Len(s) THEN s[i] ELSE Zero] \in [Inline -> Byte]
    BY <1>1, <1>2, ByteAssumption DEF Inline
  <2>3. header' \in HeaderWords
    BY <1>1, <2>1, <2>2 DEF ShortWord, HeaderWords
  <2>4. data' \in [Positions -> Byte]
    BY <1>3, ByteAssumption DEF StoreShort, Cleared
  <2>5. Decodes' /\ header'.len = Len(s)
    BY <2>1 DEF Decodes, ShortWord
  <2>6. \A i \in 1..Len(s) : header'.bytes[i] = s[i]
    BY <1>1, <1>2, <2>1 DEF ShortWord, Inline
  <2>7. Stored' = [i \in 1..Len(s) |-> s[i]]
    BY <2>1, <2>5, <2>6 DEF Stored
  <2>8. Stored' = s
    BY <1>1, <2>7
  <2> QED BY <2>3, <2>4, <2>5, <2>8
<1>4. CASE StoreLong(s)
  <2>1. header' = LongWord(Len(s)) /\ Len(s) >= WordSize
    BY <1>4 DEF StoreLong
  <2>2. header' \in HeaderWords
    BY <1>1, <2>1 DEF HeaderWords
  <2>3. PICK kept \in [Positions -> Byte] : data' = Filled(kept, s)
    BY <1>4, ByteAssumption DEF StoreLong, Cleared
  <2>4. \A p \in Positions : p <= Len(s) => p \in 1..Len(s)
    BY <1>1, <1>2, SpanCovers DEF Positions
  <2>5. data' \in [Positions -> Byte]
    BY <1>1, <2>3, <2>4, ByteAssumption DEF Filled
  <2>6. Decodes' /\ header'.len = Len(s)
    BY <1>1, <1>2, <2>1 DEF Decodes, LongWord
  <2>7. \A i \in 1..Len(s) : data'[i] = s[i]
    <3>1. \A i \in 1..Len(s) : i \in Positions
      BY <1>1, <1>2, SpanCovers DEF Positions
    <3>2. Len(s) <= Span(Len(s)) /\ Span(Len(s)) \in Nat
      BY <1>1, <1>2, SpanCovers
    <3> QED BY <1>1, <1>2, <2>3, <3>1, <3>2 DEF Filled
  <2>8. Stored' = [i \in 1..Len(s) |-> s[i]]
    BY <1>1, <1>2, <2>1, <2>6, <2>7 DEF Stored
  <2>9. Stored' = s
    BY <1>1, <2>8
  <2> QED BY <2>2, <2>5, <2>6, <2>9
<1> QED BY <1>3, <1>4

-----------------------------------------------------------------------------

(* The byte arrays that push, pop and an indexed store lead to.            *)
LEMMA NextByteArrays ==
  ASSUME header \in HeaderWords, data \in [Positions -> Byte], Decodes
  PROVE  /\ <<>> \in ByteArrays
         /\ \A b \in Byte : header.len < MaxLen => Append(Stored, b) \in ByteArrays
         /\ header.len > 0 => SubSeq(Stored, 1, header.len - 1) \in ByteArrays
<1>1. /\ Stored \in [1..header.len -> Byte]
      /\ Len(Stored) = header.len
      /\ Stored \in Seq(Byte)
      /\ header.len \in 0..MaxLen
      /\ MaxLen \in Nat
  BY StoredType, StateFacts, ByteArrayFacts, MaxLenAssumption
<1>2. <<>> \in ByteArrays
  <2>1. <<>> \in [1..0 -> Byte] /\ 0 \in 0..MaxLen
    BY <1>1
  <2> QED BY <2>1, ByteArrayIntro
<1>3. ASSUME NEW b \in Byte, header.len < MaxLen
      PROVE  Append(Stored, b) \in ByteArrays
  <2>1. Append(Stored, b) \in Seq(Byte) /\ Len(Append(Stored, b)) = header.len + 1
    BY <1>1, AppendProperties
  <2>2. header.len + 1 <= MaxLen
    BY <1>1, <1>3
  <2> QED BY <2>1, <2>2, SequenceIntro, Zenon
<1>4. ASSUME header.len > 0
      PROVE  SubSeq(Stored, 1, header.len - 1) \in ByteArrays
  <2>1. /\ SubSeq(Stored, 1, header.len - 1) \in Seq(Byte)
        /\ Len(SubSeq(Stored, 1, header.len - 1)) = header.len - 1
    BY <1>1, <1>4, SubSeqProperties
  <2>2. header.len - 1 <= MaxLen
    BY <1>1, <1>4
  <2> QED BY <2>1, <2>2, SequenceIntro, Zenon
<1> QED BY <1>2, <1>3, <1>4

(* Every step that stores a value stores some byte array through one of    *)
(* the two forms; every other step is a deletion, a byte store or a step   *)
(* that leaves the slots alone.                                            *)
LEMMA StepCases ==
  ASSUME header \in HeaderWords, data \in [Positions -> Byte], Next
  PROVE  \/ Decodes /\ \E s \in ByteArrays : StoreShort(s) \/ StoreLong(s)
         \/ Delete
         \/ \E i \in Indices, b \in Byte : SetByte(i, b)
         \/ UNCHANGED <<header, data>>
<1>1. CASE Read \/ Length \/ Panic \/ PopEmpty
  BY <1>1 DEF Read, Length, Panic, PopEmpty
<1>2. CASE Delete
  BY <1>2
<1>3. CASE Pop
  BY <1>3, NextByteArrays DEF Pop, Store
<1>4. CASE \E s \in ByteArrays : Write(s)
  BY <1>4 DEF Write, Store
<1>5. CASE \E b \in Byte : Push(b)
  BY <1>5, NextByteArrays DEF Push, Store
<1>6. CASE \E i \in Indices : GetByte(i) \/ OutOfBounds(i)
  BY <1>6 DEF GetByte, OutOfBounds
<1>7. CASE \E i \in Indices, b \in Byte : SetByte(i, b)
  BY <1>7
<1> QED BY <1>1, <1>2, <1>3, <1>4, <1>5, <1>6, <1>7 DEF Next

(* Deleting leaves the empty value.                                        *)
LEMMA DeleteDeletes ==
  ASSUME header \in HeaderWords, data \in [Positions -> Byte], Delete
  PROVE  /\ header' \in HeaderWords
         /\ data' \in [Positions -> Byte]
         /\ Decodes'
         /\ header'.len = 0
         /\ Stored' = <<>>
<1>1. header' = ShortWord(<<>>) /\ Len(<<>>) = 0
  BY DEF Delete
<1>2. MaxLen \in Nat /\ WordSize \in Nat /\ WordSize > 1
  BY MaxLenAssumption, WordSizeAssumption
<1>3. [i \in Inline |-> IF i <= Len(<<>>) THEN <<>>[i] ELSE Zero] \in [Inline -> Byte]
  BY <1>1, <1>2, ByteAssumption DEF Inline
<1>4. header' \in HeaderWords
  BY <1>1, <1>2, <1>3 DEF ShortWord, HeaderWords
<1>5. data' \in [Positions -> Byte]
  BY ByteAssumption DEF Delete, Cleared
<1>6. Decodes' /\ header'.len = 0
  BY <1>1, <1>2 DEF Decodes, ShortWord
<1>7. Stored' = [i \in 1..0 |-> IF 0 < WordSize THEN header'.bytes[i] ELSE data'[i]]
  BY <1>6 DEF Stored
<1>8. Stored' = <<>>
  BY <1>7
<1> QED BY <1>4, <1>5, <1>6, <1>8

(* Storing one byte in bounds changes that byte of the value.              *)
LEMMA SetByteSets ==
  ASSUME header \in HeaderWords, data \in [Positions -> Byte],
         NEW i \in Indices, NEW b \in Byte, SetByte(i, b)
  PROVE  /\ header' \in HeaderWords
         /\ data' \in [Positions -> Byte]
         /\ Decodes'
         /\ header'.len = header.len
         /\ header'.packed = header.packed
         /\ Stored' = [Stored EXCEPT ![i + 1] = b]
<1>1. Decodes /\ InBounds(i)
  BY DEF SetByte
<1>2. MaxLen \in Nat /\ WordSize \in Nat /\ WordSize > 1
  BY MaxLenAssumption, WordSizeAssumption
<1>3. /\ header.len \in 0..MaxLen
      /\ header.bytes \in [Inline -> Byte]
      /\ i \in Nat /\ i + 1 \in 1..header.len
      /\ i + 1 \in Positions
  BY <1>1, <1>2, StateFacts DEF InBounds, Indices
<1>4. CASE header.packed /\ header' = [header EXCEPT !.bytes[i + 1] = b] /\ data' = data
  <2>1. header.len < WordSize /\ i + 1 \in Inline
    BY <1>1, <1>2, <1>3, <1>4 DEF Decodes, Inline
  <2>2. header \in [packed : {TRUE}, len : 0..MaxLen, bytes : [Inline -> Byte]]
    <3>1. \A n : LongWord(n).packed = FALSE
      BY DEF LongWord
    <3> QED BY <1>4, <3>1 DEF HeaderWords
  <2>3. /\ header' \in [packed : {TRUE}, len : 0..MaxLen, bytes : [Inline -> Byte]]
        /\ header'.len = header.len
        /\ header'.packed = header.packed
        /\ header'.bytes = [header.bytes EXCEPT ![i + 1] = b]
    BY <1>4, <2>1, <2>2
  <2>4. header' \in HeaderWords
    BY <2>3 DEF HeaderWords
  <2>5. Stored = [j \in 1..header.len |-> header.bytes[j]]
    BY <2>1 DEF Stored
  <2>6. Stored' = [j \in 1..header.len |-> header'.bytes[j]]
    BY <2>1, <2>3 DEF Stored
  <2>7. \A j \in 1..header.len : j \in Inline
    BY <1>2, <1>3, <2>1 DEF Inline
  <2>8. Stored' = [Stored EXCEPT ![i + 1] = b]
    BY <1>3, <2>3, <2>5, <2>6, <2>7
  <2>9. Decodes' /\ data' \in [Positions -> Byte]
    BY <1>1, <1>4, <2>3 DEF Decodes
  <2> QED BY <2>3, <2>4, <2>8, <2>9
<1>5. CASE ~header.packed /\ data' = [data EXCEPT ![i + 1] = b] /\ header' = header
  <2>1. ~(header.len < WordSize)
    BY <1>1, <1>5 DEF Decodes
  <2>2. data' \in [Positions -> Byte]
    BY <1>3, <1>5
  <2>3. Stored = [j \in 1..header.len |-> data[j]]
    BY <2>1 DEF Stored
  <2>4. Stored' = [j \in 1..header.len |-> data'[j]]
    BY <1>5, <2>1 DEF Stored
  <2>5. \A j \in 1..header.len : j \in Positions
    BY StateFacts
  <2>6. Stored' = [Stored EXCEPT ![i + 1] = b]
    BY <1>3, <1>5, <2>3, <2>4, <2>5
  <2>7. Decodes'
    BY <1>1, <1>5 DEF Decodes
  <2> QED BY <1>5, <2>2, <2>6, <2>7
<1> QED BY <1>4, <1>5 DEF SetByte

-----------------------------------------------------------------------------

(* Every variable keeps its type (Spec => []TypeOK).                       *)
LEMMA TypeInductive == TypeOK /\ [Next]_vars => TypeOK'
<1> SUFFICES ASSUME TypeOK, [Next]_vars
             PROVE  TypeOK'
  OBVIOUS
<1>1. CASE UNCHANGED vars
  BY <1>1 DEF vars, TypeOK
<1>2. CASE Next
  <2>1. result'.status \in {"ok", "revert"}
    BY <1>2 DEF Next, Read, Length, Write, Push, Pop, Store, Delete, GetByte, SetByte,
                Panic, PopEmpty, OutOfBounds, Done, Returned, Counted, Reverted, Outcome
  <2>2. CASE Decodes /\ \E s \in ByteArrays : StoreShort(s) \/ StoreLong(s)
    BY <2>1, <2>2, StoreStores DEF TypeOK
  <2>3. CASE Delete
    BY <2>1, <2>3, DeleteDeletes DEF TypeOK
  <2>4. CASE \E i \in Indices, b \in Byte : SetByte(i, b)
    BY <2>1, <2>4, SetByteSets DEF TypeOK
  <2>5. CASE UNCHANGED <<header, data>>
    BY <2>1, <2>5 DEF TypeOK
  <2> QED BY <1>2, <2>2, <2>3, <2>4, <2>5, StepCases DEF TypeOK
<1> QED BY <1>1, <1>2

(* The header slot and the data slots stay words of the variable, through  *)
(* every operation of the backend.                                         *)
THEOREM TypeCorrect == Spec => []TypeOK
<1>1. Init => TypeOK
  BY DEF Init, TypeOK, Done, Outcome
<1> QED BY <1>1, TypeInductive, PTL DEF Spec

-----------------------------------------------------------------------------

(* A store of either form turns canonical slots into canonical slots.      *)
LEMMA StoreCanonical ==
  ASSUME TypeOK, Canonical, NEW s \in ByteArrays, StoreShort(s) \/ StoreLong(s)
  PROVE  Canonical'
<1>1. /\ header \in HeaderWords /\ data \in [Positions -> Byte] /\ Decodes
      /\ header.len \in Nat /\ Len(s) \in Nat
      /\ header.packed <=> header.len < WordSize
      /\ WordSize \in Nat /\ WordSize > 1
  <2>1. header \in HeaderWords /\ data \in [Positions -> Byte] /\ Decodes
    BY DEF TypeOK, Canonical
  <2>2. header.len \in 0..MaxLen /\ Len(s) \in 0..MaxLen
    BY <2>1, StateFacts, ByteArrayFacts
  <2>3. header.packed <=> header.len < WordSize
    BY <2>1 DEF Decodes
  <2> QED BY <2>1, <2>2, <2>3, MaxLenAssumption, WordSizeAssumption
<1>2. Decodes' /\ header'.len = Len(s) /\ Stored' = s
  BY <1>1, StoreStores
<1>3. header' = IF Len(s) < WordSize THEN ShortWord(s) ELSE LongWord(Len(s))
  BY <1>1 DEF StoreShort, StoreLong
<1>4. \A p \in Positions :
        data[p] = IF header.len >= WordSize /\ p <= header.len THEN Stored[p] ELSE Zero
  BY DEF Canonical
<1>5. header.len <= Span(header.len) /\ Len(s) <= Span(Len(s))
      /\ Span(header.len) \in Nat /\ Span(Len(s)) \in Nat
  BY <1>1, SpanCovers
<1>6. Positions \subseteq Nat \ {0}
  BY MaxLenAssumption, SpanCovers DEF Positions
<1>7. CASE StoreShort(s)
  <2>1. ASSUME NEW p \in Positions PROVE data'[p] = Zero
    <3>1. CASE header.packed
      BY <1>1, <1>4, <1>7, <3>1 DEF StoreShort
    <3>2. CASE ~header.packed
      <4>1. data'[p] = IF p <= Span(header.len) THEN Zero ELSE data[p]
        BY <1>6, <1>7, <3>2, WordSizeAssumption DEF StoreShort, Cleared, Span
      <4> QED BY <1>1, <1>4, <1>5, <1>6, <4>1
    <3> QED BY <3>1, <3>2
  <2>2. data' \in [Positions -> Byte] /\ ~(Len(s) >= WordSize)
    BY <1>1, <1>7, StoreStores DEF StoreShort
  <2> QED BY <1>1, <1>2, <1>3, <2>1, <2>2 DEF Canonical
<1>8. CASE StoreLong(s)
  <2> DEFINE kept == IF header.packed THEN data
                     ELSE Cleared(data, WordCount(Len(s)), WordCount(header.len))
  <2>1. data' = Filled(kept, s) /\ Len(s) >= WordSize
    BY <1>8 DEF StoreLong
  <2>2. ASSUME NEW p \in Positions, p > Span(Len(s)) PROVE kept[p] = Zero
    <3>1. CASE header.packed
      BY <1>1, <1>4, <3>1
    <3>2. CASE ~header.packed
      <4>1. kept[p] = IF p <= Span(header.len) THEN Zero ELSE data[p]
        BY <1>5, <1>6, <2>2, <3>2 DEF Cleared, Span
      <4> QED BY <1>1, <1>4, <1>5, <1>6, <4>1
    <3> QED BY <3>1, <3>2
  <2>3. ASSUME NEW p \in Positions
        PROVE  data'[p] = IF Len(s) >= WordSize /\ p <= Len(s) THEN s[p] ELSE Zero
    <3> HIDE DEF kept
    <3>1. data'[p] = IF p > Span(Len(s)) THEN kept[p] ELSE IF p > Len(s) THEN Zero ELSE s[p]
      BY <2>1 DEF Filled
    <3> QED BY <1>1, <1>5, <1>6, <2>1, <2>2, <3>1
  <2>4. data' \in [Positions -> Byte]
    BY <1>1, StoreStores
  <2> QED BY <1>1, <1>2, <1>3, <2>1, <2>3, <2>4 DEF Canonical
<1> QED BY <1>7, <1>8

(* So does a deletion.                                                     *)
LEMMA DeleteCanonical ==
  ASSUME TypeOK, Canonical, Delete
  PROVE  Canonical'
<1>1. /\ header \in HeaderWords /\ data \in [Positions -> Byte] /\ Decodes
  BY DEF TypeOK, Canonical
<1>2. header.len \in Nat /\ WordSize \in Nat /\ WordSize > 1
  BY <1>1, StateFacts, MaxLenAssumption, WordSizeAssumption
<1>3. Decodes' /\ header'.len = 0 /\ Stored' = <<>> /\ header' = ShortWord(<<>>)
  BY <1>1, DeleteDeletes DEF Delete
<1>4. header.len <= Span(header.len) /\ Span(header.len) \in Nat
  BY <1>2, SpanCovers
<1>5. Positions \subseteq Nat \ {0}
  BY MaxLenAssumption, SpanCovers DEF Positions
<1>6. \A p \in Positions :
        data[p] = IF header.len >= WordSize /\ p <= header.len THEN Stored[p] ELSE Zero
  BY DEF Canonical
<1>7. header.packed <=> header.len < WordSize
  BY <1>1 DEF Decodes
<1>8. ASSUME NEW p \in Positions PROVE data'[p] = Zero
  <2>1. CASE header.packed
    BY <1>2, <1>6, <1>7, <2>1 DEF Delete
  <2>2. CASE ~header.packed
    <3>1. data'[p] = IF p <= Span(header.len) THEN Zero ELSE data[p]
      BY <1>5, <2>2, WordSizeAssumption DEF Delete, Cleared, Span
    <3> QED BY <1>2, <1>4, <1>5, <1>6, <3>1
  <2> QED BY <2>1, <2>2
<1>9. data' \in [Positions -> Byte] /\ ~(0 >= WordSize)
  BY <1>1, <1>2, DeleteDeletes
<1> QED BY <1>2, <1>3, <1>8, <1>9 DEF Canonical

(* And a store of one byte in bounds.                                      *)
LEMMA SetByteCanonical ==
  ASSUME TypeOK, Canonical, NEW i \in Indices, NEW b \in Byte, SetByte(i, b)
  PROVE  Canonical'
<1>1. header \in HeaderWords /\ data \in [Positions -> Byte] /\ Decodes
  BY DEF TypeOK, Canonical
<1>2. header.len \in Nat /\ WordSize \in Nat /\ WordSize > 1
  BY <1>1, StateFacts, MaxLenAssumption, WordSizeAssumption
<1>3. /\ Decodes' /\ header'.len = header.len /\ header'.packed = header.packed
      /\ Stored' = [Stored EXCEPT ![i + 1] = b]
      /\ data' \in [Positions -> Byte]
  BY <1>1, SetByteSets
<1>4. header.packed <=> header.len < WordSize
  BY <1>1 DEF Decodes
<1>5. i + 1 \in 1..header.len
  BY <1>2 DEF SetByte, InBounds, Indices
<1>6. /\ Stored \in [1..header.len -> Byte] /\ Len(Stored) = header.len
      /\ Stored' \in [1..header.len -> Byte] /\ Len(Stored') = header.len
  BY <1>1, <1>2, <1>3, <1>5, StoredType
<1>7. \A p \in Positions :
        data[p] = IF header.len >= WordSize /\ p <= header.len THEN Stored[p] ELSE Zero
  BY DEF Canonical
<1>8. Positions \subseteq Nat \ {0}
  BY MaxLenAssumption, SpanCovers DEF Positions
<1>9. CASE header.packed
  <2>1. header = ShortWord(Stored) /\ ~(header.len >= WordSize)
    BY <1>2, <1>4, <1>9 DEF Canonical
  <2>2. header' = [header EXCEPT !.bytes[i + 1] = b] /\ data' = data
    BY <1>9 DEF SetByte
  <2>3. Inline \subseteq Nat \ {0}
    BY <1>2 DEF Inline
  <2>4. header' = [packed |-> TRUE, len |-> header.len,
                   bytes |-> [[j \in Inline |-> IF j <= header.len THEN Stored[j] ELSE Zero]
                                EXCEPT ![i + 1] = b]]
    BY <1>6, <2>1, <2>2 DEF ShortWord
  <2>5. [[j \in Inline |-> IF j <= header.len THEN Stored[j] ELSE Zero] EXCEPT ![i + 1] = b]
          = [j \in Inline |-> IF j <= header.len THEN Stored'[j] ELSE Zero]
    <3>1. \A j \in Inline : j <= header.len =>
            Stored'[j] = IF j = i + 1 THEN b ELSE Stored[j]
      BY <1>2, <1>3, <1>6, <2>3
    <3>2. \A j \in Inline : (IF j = i + 1 THEN b ELSE IF j <= header.len THEN Stored[j] ELSE Zero)
                           = (IF j <= header.len THEN Stored'[j] ELSE Zero)
      BY <1>2, <1>5, <2>3, <3>1
    <3> QED BY <3>2
  <2>6. header' = ShortWord(Stored')
    BY <1>6, <2>4, <2>5 DEF ShortWord
  <2>7. \A p \in Positions : data'[p] = Zero
    BY <1>7, <2>1, <2>2
  <2> QED BY <1>2, <1>3, <2>1, <2>6, <2>7 DEF Canonical
<1>10. CASE ~header.packed
  <2>1. header = LongWord(header.len) /\ header.len >= WordSize
    BY <1>2, <1>4, <1>10 DEF Canonical
  <2>2. header' = header /\ data' = [data EXCEPT ![i + 1] = b]
    BY <1>10 DEF SetByte
  <2>3. \A p \in Positions : p <= header.len => p \in 1..header.len
    BY <1>2, <1>8
  <2>4. \A p \in Positions :
          data'[p] = IF header.len >= WordSize /\ p <= header.len THEN Stored'[p] ELSE Zero
    BY <1>1, <1>2, <1>3, <1>5, <1>6, <1>7, <1>8, <2>1, <2>2, <2>3
  <2> QED BY <1>2, <1>3, <2>1, <2>2, <2>4 DEF Canonical
<1> QED BY <1>9, <1>10

(* No operation leaves residue: canonical slots stay canonical, so equal   *)
(* values are always stored in equal slots.                                *)
THEOREM NoResidue == Spec => CanonicalPreserved
<1>1. TypeOK /\ [Next]_vars => (Canonical => Canonical')
  <2> SUFFICES ASSUME TypeOK, [Next]_vars, Canonical
               PROVE  Canonical'
    OBVIOUS
  <2>1. CASE UNCHANGED vars
    BY <2>1 DEF vars, Canonical, Decodes, Stored
  <2>2. CASE Next
    <3>1. CASE UNCHANGED <<header, data>>
      BY <3>1 DEF Canonical, Decodes, Stored
    <3> QED BY <2>2, <3>1, StepCases, StoreCanonical, DeleteCanonical, SetByteCanonical
            DEF TypeOK
  <2> QED BY <2>1, <2>2
<1> QED BY <1>1, TypeCorrect, PTL DEF Spec, CanonicalPreserved

-----------------------------------------------------------------------------

(* Every initial state, with whatever the slots hold, is one of the byte   *)
(* array's.                                                                *)
LEMMA InitRefines == Init => Value!Init
<1> SUFFICES ASSUME Init PROVE Value!Init
  OBVIOUS
<1>1. header \in HeaderWords /\ data \in [Positions -> Byte]
  BY DEF Init
<1>2. result = Value!Done("delete")
  BY DEF Init, Done, Outcome, Value!Done, Value!Outcome
<1>3. CASE Decodes
  <2>1. Stored \in Value!ByteArrays
    BY <1>1, <1>3, StoredType DEF ByteArrays, Value!ByteArrays
  <2> QED BY <1>2, <1>3, <2>1 DEF Value!Init, Value!Holds
<1>4. CASE ~Decodes
  <2>1. [valid |-> Decodes, bytes |-> IF Decodes THEN Stored ELSE <<>>] = Value!Corrupted
    BY <1>4 DEF Decodes, Value!Corrupted
  <2> QED BY <1>2, <2>1 DEF Value!Init
<1> QED BY <1>3, <1>4

(* Storing s is the byte array becoming s.                                 *)
LEMMA StoreRefines ==
  ASSUME TypeOK, NEW op, NEW s \in ByteArrays, Store(op, s)
  PROVE  Value!Become(op, s)
<1>1. Decodes /\ Decodes' /\ Stored' = s
  BY StoreStores DEF Store, TypeOK
<1>2. result' = Value!Done(op)
  BY DEF Store, Done, Outcome, Value!Done, Value!Outcome
<1> QED BY <1>1, <1>2 DEF Value!Become, Value!Holds

(* Every step is a step of the byte array.                                 *)
LEMMA StepRefines == TypeOK /\ [Next]_vars => [Value!Next]_(Value!vars)
<1> SUFFICES ASSUME TypeOK, [Next]_vars
             PROVE  [Value!Next]_(Value!vars)
  OBVIOUS
<1> DEFINE str == [valid |-> Decodes, bytes |-> IF Decodes THEN Stored ELSE <<>>]
<1>1. header \in HeaderWords /\ data \in [Positions -> Byte]
  BY DEF TypeOK
<1>2. header.len \in Nat /\ MaxLen \in Nat
  BY <1>1, StateFacts, MaxLenAssumption
<1>3. Decodes => /\ Stored \in [1..header.len -> Byte]
                 /\ Len(Stored) = header.len
  BY <1>1, StoredType
<1>4. CASE UNCHANGED vars
  BY <1>4 DEF vars, Value!vars, Decodes, Stored
<1>5. ASSUME UNCHANGED <<header, data>>
      PROVE  str' = str
  BY <1>5 DEF Decodes, Stored
<1>6. CASE Read
  BY <1>5, <1>6 DEF Read, Value!Read, Value!Next, Returned, Outcome, Value!Returned, Value!Outcome
<1>7. CASE Length
  BY <1>3, <1>5, <1>7
     DEF Length, Value!Length, Value!Next, Counted, Outcome, Value!Counted, Value!Outcome
<1>8. CASE \E s \in ByteArrays : Write(s)
  BY <1>8, StoreRefines DEF Write, Value!Write, Value!Next, ByteArrays, Value!ByteArrays
<1>9. CASE \E b \in Byte : Push(b)
  <2>1. PICK b \in Byte : Push(b)
    BY <1>9
  <2>2. Decodes /\ header.len < MaxLen
    BY <2>1 DEF Push, Store
  <2>3. Append(Stored, b) \in ByteArrays
    BY <1>1, <2>2, NextByteArrays
  <2>4. Value!Become("push", Append(Stored, b))
    BY <2>1, <2>3, StoreRefines DEF Push
  <2>5. Value!Push(b)
    BY <1>3, <2>2, <2>4 DEF Value!Push
  <2> QED BY <2>5 DEF Value!Next
<1>10. CASE Pop
  <2>1. Decodes /\ header.len > 0
    BY <1>10 DEF Pop, Store
  <2>2. SubSeq(Stored, 1, header.len - 1) \in ByteArrays
    BY <1>1, <2>1, NextByteArrays
  <2>3. Value!Become("pop", SubSeq(Stored, 1, header.len - 1))
    BY <1>10, <2>2, StoreRefines DEF Pop
  <2>4. Value!Pop
    BY <1>3, <2>1, <2>3 DEF Value!Pop
  <2> QED BY <2>4 DEF Value!Next
<1>11. CASE Delete
  <2>1. Decodes /\ Decodes' /\ Stored' = <<>>
    BY <1>1, <1>11, DeleteDeletes DEF Delete
  <2>2. result' = Value!Done("delete")
    BY <1>11 DEF Delete, Done, Outcome, Value!Done, Value!Outcome
  <2> QED BY <2>1, <2>2 DEF Value!Delete, Value!Become, Value!Holds, Value!Next
<1>12. ASSUME NEW i \in Indices, GetByte(i)
       PROVE  Value!Next
  <2>1. Decodes /\ 0 <= i /\ i < header.len /\ i + 1 \in 1..header.len
    BY <1>2, <1>12 DEF GetByte, InBounds, Indices
  <2>2. Stored[i + 1] = IF header.packed THEN header.bytes[i + 1] ELSE data[i + 1]
    BY <2>1 DEF Stored, Decodes
  <2>3. result' = Value!Returned("index", <<Stored[i + 1]>>)
    BY <1>12, <2>2 DEF GetByte, Returned, Outcome, Value!Returned, Value!Outcome
  <2>4. Value!GetByte(i)
    BY <1>3, <1>5, <1>12, <2>1, <2>3 DEF GetByte, Value!GetByte
  <2> QED BY <2>4 DEF Value!Next, Indices, Value!Indices
<1>13. ASSUME NEW i \in Indices, NEW b \in Byte, SetByte(i, b)
       PROVE  Value!Next
  <2>1. Decodes /\ Decodes' /\ Stored' = [Stored EXCEPT ![i + 1] = b]
    BY <1>1, <1>13, SetByteSets DEF SetByte
  <2>2. result' = Value!Done("index")
    BY <1>13 DEF SetByte, Done, Outcome, Value!Done, Value!Outcome
  <2>3. Value!Become("index", [Stored EXCEPT ![i + 1] = b])
    BY <2>1, <2>2 DEF Value!Become, Value!Holds
  <2>4. Value!SetByte(i, b)
    BY <1>3, <1>13, <2>1, <2>3 DEF SetByte, InBounds, Value!SetByte
  <2> QED BY <2>4 DEF Value!Next, Indices, Value!Indices
<1>14. CASE Panic
  <2>1. ~Decodes /\ str' = str
    BY <1>5, <1>14 DEF Panic
  <2>2. Value!Revert
    BY <1>14, <2>1 DEF Panic, Reverted, Outcome, Indices, Value!Revert, Value!Operations,
                       Value!Reverted, Value!Outcome, Value!Indices
  <2> QED BY <2>2 DEF Value!Next
<1>15. CASE PopEmpty
  <2>1. Decodes /\ str' = str /\ Stored = <<>>
    BY <1>3, <1>5, <1>15 DEF PopEmpty
  <2>2. Value!Revert
    BY <1>15, <2>1 DEF PopEmpty, Reverted, Outcome, Value!Revert, Value!Reverted, Value!Outcome
  <2> QED BY <2>2 DEF Value!Next
<1>16. ASSUME NEW i \in Indices, OutOfBounds(i)
       PROVE  Value!Next
  <2>1. Decodes /\ str' = str /\ (i < 0 \/ i >= header.len)
    BY <1>2, <1>5, <1>16 DEF OutOfBounds, InBounds, Indices
  <2>2. Value!Revert
    BY <1>3, <1>16, <2>1 DEF OutOfBounds, Reverted, Outcome, Indices, Value!Revert,
                             Value!Reverted, Value!Outcome, Value!Indices
  <2> QED BY <2>2 DEF Value!Next
<1> QED BY <1>4, <1>6, <1>7, <1>8, <1>9, <1>10, <1>11, <1>12, <1>13, <1>14, <1>15, <1>16
        DEF Next

(* The slots implement a byte array, from any initial contents.            *)
THEOREM Refinement == Spec => ImplementsByteString
<1> QED BY InitRefines, StepRefines, TypeCorrect, PTL DEF Spec, ImplementsByteString, Value!Spec
=============================================================================
