---------------------------- MODULE SolidityBytes ----------------------------
(***************************************************************************)
(* The Solidity representation of one storage variable of type bytes or    *)
(* string, as src/Stele/SolidityStorage.lean reads and writes it.  The     *)
(* variable owns a header slot and the data slots that start at the hash   *)
(* of the header slot.                                                     *)
(*                                                                         *)
(* A value shorter than a word is packed: its bytes sit left-aligned in    *)
(* the header slot and the last byte of the slot is twice the length.  A   *)
(* longer value is unpacked: the header slot is twice the length plus one, *)
(* and the bytes fill the data slots.  Which of the two a header is, is    *)
(* its lowest bit.                                                         *)
(*                                                                         *)
(* WordSize is 32 in the code.  The data slots are kept as one function    *)
(* from byte positions: byte j of data slot k is position k * WordSize + j *)
(* (j from 1).  The data slots of two variables never overlap (the hash is *)
(* taken as injective), so one variable is modelled.                       *)
(***************************************************************************)
EXTENDS Integers, Sequences

CONSTANTS
  WordSize,  \* bytes in a storage word
  Byte,      \* the values of one byte
  Zero,      \* the zero byte
  MaxLen     \* TLC's bound on the length of a byte array

ASSUME WordSizeAssumption == WordSize \in Nat /\ WordSize > 1
ASSUME ByteAssumption == Zero \in Byte
ASSUME MaxLenAssumption == MaxLen \in Nat

VARIABLES
  header,    \* the header slot: [packed, len, bytes]
  data,      \* the bytes of the data slots
  result     \* the outcome of the last operation

vars == <<header, data, result>>

(* solidityBytesDataWordCount, and the bytes that many words hold.         *)
WordCount(n) == (n + WordSize - 1) \div WordSize
Span(n) == WordSize * WordCount(n)

Inline    == 1..WordSize - 1      \* the bytes of the header slot above its last
Positions == 1..Span(MaxLen)      \* the bytes of the data slots

ByteArrays == UNION {[1..n -> Byte] : n \in 0..MaxLen}
Indices    == -1..MaxLen

(* Fault: the bytes of a short value are not padded to the word.           *)
UnpaddedShortWord(s) == [packed |-> TRUE, len |-> Len(s), bytes |-> s]

(* The two forms of a header word.  In the unpacked one the bytes above    *)
(* the last are bits of the length, so nothing is kept for them.           *)
ShortWord(s) ==
  [packed |-> TRUE, len |-> Len(s),
   bytes |-> [i \in Inline |-> IF i <= Len(s) THEN s[i] ELSE Zero]]
LongWord(n) ==
  [packed |-> FALSE, len |-> n, bytes |-> [i \in Inline |-> Zero]]

HeaderWords == [packed : {TRUE}, len : 0..MaxLen, bytes : [Inline -> Byte]]
               \cup {LongWord(n) : n \in 0..MaxLen}

(* solidityDecodeBytesLengthHeader goes through.                           *)
Decodes == header.packed <=> header.len < WordSize

(* solidityReadBytesValue?: the value the slots hold.                      *)
Stored ==
  [i \in 1..header.len |-> IF header.len < WordSize THEN header.bytes[i] ELSE data[i]]

-----------------------------------------------------------------------------

Outcome(op, status, bytes, num) ==
  [op |-> op, status |-> status, bytes |-> bytes, num |-> num]
Done(op)       == Outcome(op, "ok", <<>>, 0)
Returned(op,s) == Outcome(op, "ok", s, 0)
Counted(n)     == Outcome("length", "ok", <<>>, n)
Reverted(op,i) == Outcome(op, "revert", <<>>, i)

(* Before anything is executed the slots hold whatever earlier code left.  *)
Init ==
  /\ header \in HeaderWords
  /\ data \in [Positions -> Byte]
  /\ result = Done("delete")

Read == /\ Decodes
        /\ result' = Returned("read", Stored)
        /\ UNCHANGED <<header, data>>

Length == /\ Decodes
          /\ result' = Counted(header.len)
          /\ UNCHANGED <<header, data>>

(* The data slots after words first, first + 1, ... up to but excluding    *)
(* last have been zeroed.                                                  *)
Cleared(cells, first, last) ==
  [p \in Positions |->
     IF WordSize * first < p /\ p <= WordSize * last THEN Zero ELSE cells[p]]

(* The data slots after the words of s, padded with zeroes, were stored.   *)
Filled(cells, s) ==
  [p \in Positions |->
     IF p > Span(Len(s)) THEN cells[p] ELSE IF p > Len(s) THEN Zero ELSE s[p]]

(* Fault: a short value leaves the data words of a long one behind.        *)
StoreShortOnly(s) ==
  /\ Len(s) < WordSize
  /\ data' = data
  /\ header' = ShortWord(s)

(* Fault: the words of the old value are zeroed after the new ones are     *)
(* stored.                                                                 *)
StoreLongClearingLast(s) ==
  /\ Len(s) >= WordSize
  /\ data' = IF header.packed THEN Filled(data, s)
             ELSE Cleared(Filled(data, s), 0, WordCount(header.len))
  /\ header' = LongWord(Len(s))

(* solidityWriteBytesValue?: a short value drops every data word of a long *)
(* one; a long value drops the words past its own.                         *)
StoreShort(s) ==
  /\ Len(s) < WordSize
  /\ data' = IF header.packed THEN data ELSE Cleared(data, 0, WordCount(header.len))
  /\ header' = ShortWord(s)

StoreLong(s) ==
  /\ Len(s) >= WordSize
  /\ LET kept == IF header.packed THEN data
                 ELSE Cleared(data, WordCount(Len(s)), WordCount(header.len))
     IN  data' = Filled(kept, s)
  /\ header' = LongWord(Len(s))

Store(op, s) ==
  /\ Decodes
  /\ StoreShort(s) \/ StoreLong(s)
  /\ result' = Done(op)

Write(s) == Store("write", s)

(* push(b), and push() with b = Zero, rewrite the whole value.             *)
Push(b) == header.len < MaxLen /\ Store("push", Append(Stored, b))

Pop == header.len > 0 /\ Store("pop", SubSeq(Stored, 1, header.len - 1))

(* solidityPrepareBytesWrite? with length 0: whether the value was packed  *)
(* is read before the header is overwritten.                               *)
Delete ==
  /\ Decodes
  /\ header' = ShortWord(<<>>)
  /\ data' = IF header.packed THEN data ELSE Cleared(data, 0, WordCount(header.len))
  /\ result' = Done("delete")

(* One byte, after the bounds check: solidityByteLoc? picks the header     *)
(* slot or a data slot.                                                    *)
InBounds(i) == 0 <= i /\ i < header.len

GetByte(i) ==
  /\ Decodes
  /\ InBounds(i)
  /\ result' = Returned("index", <<IF header.packed THEN header.bytes[i + 1] ELSE data[i + 1]>>)
  /\ UNCHANGED <<header, data>>

SetByte(i, b) ==
  /\ Decodes
  /\ InBounds(i)
  /\ \/ /\ header.packed
        /\ header' = [header EXCEPT !.bytes[i + 1] = b]
        /\ UNCHANGED data
     \/ /\ ~header.packed
        /\ data' = [data EXCEPT ![i + 1] = b]
        /\ UNCHANGED header
  /\ result' = Done("index")

(* A header that does not decode makes every operation revert.             *)
Panic ==
  /\ ~Decodes
  /\ \/ \E op \in {"read", "length", "write", "push", "pop", "delete"} :
          result' = Reverted(op, 0)
     \/ \E i \in Indices : result' = Reverted("index", i)
  /\ UNCHANGED <<header, data>>

PopEmpty ==
  /\ Decodes
  /\ header.len = 0
  /\ result' = Reverted("pop", 0)
  /\ UNCHANGED <<header, data>>

OutOfBounds(i) ==
  /\ Decodes
  /\ ~InBounds(i)
  /\ result' = Reverted("index", i)
  /\ UNCHANGED <<header, data>>

Next ==
  \/ Read \/ Length \/ Pop \/ Delete \/ Panic \/ PopEmpty
  \/ \E s \in ByteArrays : Write(s)
  \/ \E b \in Byte : Push(b)
  \/ \E i \in Indices : GetByte(i) \/ OutOfBounds(i) \/ \E b \in Byte : SetByte(i, b)

Spec == Init /\ [][Next]_vars

-----------------------------------------------------------------------------

(* Every variable keeps its type.                                          *)
TypeOK ==
  /\ header \in HeaderWords
  /\ data \in [Positions -> Byte]
  /\ result.status \in {"ok", "revert"}

(* The slots are the ones a first write of the value to zeroed storage     *)
(* would leave: they depend on the value and on nothing that happened      *)
(* before.                                                                 *)
Canonical ==
  /\ Decodes
  /\ header = IF header.len < WordSize THEN ShortWord(Stored) ELSE LongWord(header.len)
  /\ data = [p \in Positions |->
               IF header.len >= WordSize /\ p <= header.len THEN Stored[p] ELSE Zero]

(* No operation leaves residue: from canonical slots every write, push,    *)
(* pop, delete and byte store, across the packed and unpacked forms, leads *)
(* to canonical slots.  Refinement compares storage slot by slot, so a     *)
(* residue would separate two executions that hold equal values.           *)
CanonicalPreserved == [][Canonical => Canonical']_vars

(* The slots behave as a byte array, whatever they held before: residue    *)
(* of earlier code is never seen through an operation, a decodable header  *)
(* stays decodable, and an undecodable one only ever reverts.              *)
Value == INSTANCE ByteString
           WITH str <- [valid |-> Decodes, bytes |-> IF Decodes THEN Stored ELSE <<>>]

ImplementsByteString == Value!Spec
=============================================================================
