------------------------- MODULE SolidityArrayProofs -------------------------
(***************************************************************************)
(* Proofs about SolidityArray, for every cell type and every bound on the  *)
(* lengths.                                                                *)
(***************************************************************************)
EXTENDS SolidityArray, SequenceTheorems, TLAPS

(* The slots of a row with nothing behind its end.                         *)
TidyRows == {r \in RowSlots : \A c \in CellIds : c >= r.len => r.cells[c] = Zero}

Inv ==
  /\ length \in 0..MaxRows
  /\ slots \in [RowIds -> TidyRows]
  /\ refs \in SUBSET RowIds /\ stray \in SUBSET RowIds
  /\ ResidueOnlyByDangling

-----------------------------------------------------------------------------
(***************************************************************************)
(* What is done to one row keeps it tidy.                                  *)
(***************************************************************************)
LEMMA RowValueFacts ==
  ASSUME NEW value \in RowValues
  PROVE  Len(value) \in 0..MaxCells /\ \A k \in 1..Len(value) : value[k] \in Data
<1>1. PICK n \in 0..MaxCells : value \in [1..n -> Data]
  BY DEF RowValues
<1>2. n \in Nat
  BY BoundsAssumption
<1>3. Len(value) = n
  BY <1>1, <1>2
<1> QED BY <1>1, <1>3

LEMMA ClearedRowTidy ==
  ASSUME NEW r \in TidyRows
  PROVE  ClearedRow(r) \in TidyRows /\ ClearedRow(r).len = 0
BY DataAssumption, BoundsAssumption DEF ClearedRow, TidyRows, RowSlots, CellIds

LEMMA WrittenRowTidy ==
  ASSUME NEW r \in TidyRows, NEW value \in RowValues
  PROVE  WrittenRow(r, value) \in TidyRows
<1>1. Len(value) \in 0..MaxCells /\ \A k \in 1..Len(value) : value[k] \in Data
  BY RowValueFacts
<1>2. ClearedRow(r) \in TidyRows /\ ClearedRow(r).len = 0
  BY ClearedRowTidy
<1>3. \A c \in CellIds : ClearedRow(r).cells[c] = Zero
  BY <1>2 DEF TidyRows, CellIds
<1> DEFINE cells == [c \in CellIds |-> IF c < Len(value) THEN value[c + 1]
                                       ELSE ClearedRow(r).cells[c]]
<1>4. \A c \in CellIds : c < Len(value) => c + 1 \in 1..Len(value)
  BY <1>1, BoundsAssumption DEF CellIds
<1>5. cells \in [CellIds -> Data]
  BY <1>1, <1>3, <1>4, DataAssumption
<1>6. \A c \in CellIds : c >= Len(value) => cells[c] = Zero
  BY <1>1, <1>3, BoundsAssumption DEF CellIds
<1>7. WrittenRow(r, value) = [len |-> Len(value), cells |-> cells]
  BY DEF WrittenRow
<1> HIDE DEF cells
<1> QED BY <1>1, <1>5, <1>6, <1>7 DEF TidyRows, RowSlots

LEMMA EditedRowTidy ==
  ASSUME NEW r \in TidyRows, NEW x \in Data
  PROVE  /\ r.len < MaxCells => PushedRow(r, x) \in TidyRows
         /\ r.len < MaxCells => GrownRow(r) \in TidyRows
         /\ r.len > 0 => PoppedRow(r) \in TidyRows
         /\ \A j \in CellIds : j < r.len => [r EXCEPT !.cells[j] = x] \in TidyRows
<1>1. /\ r.len \in 0..MaxCells /\ r.len \in Int /\ r.cells \in [CellIds -> Data]
      /\ r = [len |-> r.len, cells |-> r.cells]
      /\ \A c \in CellIds : c \in Int /\ (c >= r.len => r.cells[c] = Zero)
  BY BoundsAssumption DEF TidyRows, RowSlots, CellIds
<1>2. ASSUME NEW n \in 0..MaxCells, NEW f \in [CellIds -> Data],
             \A c \in CellIds : c >= n => f[c] = Zero
      PROVE  [len |-> n, cells |-> f] \in TidyRows
  BY <1>2 DEF TidyRows, RowSlots
<1>3. ASSUME r.len < MaxCells PROVE PushedRow(r, x) \in TidyRows
  <2> DEFINE f == [r.cells EXCEPT ![r.len] = x]
  <2>1. f \in [CellIds -> Data]
    BY <1>1
  <2>2. r.len + 1 \in 0..MaxCells
    BY <1>1, <1>3, BoundsAssumption
  <2>3. \A c \in CellIds : c >= r.len + 1 => f[c] = Zero
    BY <1>1
  <2>4. PushedRow(r, x) = [len |-> r.len + 1, cells |-> f]
    BY DEF PushedRow
  <2> HIDE DEF f
  <2> QED BY <1>2, <2>1, <2>2, <2>3, <2>4
<1>4. ASSUME r.len < MaxCells PROVE GrownRow(r) \in TidyRows
  <2>1. r.len + 1 \in 0..MaxCells
    BY <1>1, <1>4, BoundsAssumption
  <2>2. \A c \in CellIds : c >= r.len + 1 => r.cells[c] = Zero
    BY <1>1
  <2>3. GrownRow(r) = [len |-> r.len + 1, cells |-> r.cells]
    BY <1>1 DEF GrownRow
  <2> QED BY <1>1, <1>2, <2>1, <2>2, <2>3
<1>5. ASSUME r.len > 0 PROVE PoppedRow(r) \in TidyRows
  <2> DEFINE f == [r.cells EXCEPT ![r.len - 1] = Zero]
  <2>1. f \in [CellIds -> Data]
    BY <1>1, DataAssumption
  <2>2. r.len - 1 \in 0..MaxCells /\ r.len - 1 \in CellIds
    BY <1>1, <1>5, BoundsAssumption DEF CellIds
  <2>3. \A c \in CellIds : c >= r.len - 1 => f[c] = Zero
    BY <1>1, <2>2
  <2>4. PoppedRow(r) = [len |-> r.len - 1, cells |-> f]
    BY DEF PoppedRow
  <2> HIDE DEF f
  <2> QED BY <1>2, <2>1, <2>2, <2>3, <2>4
<1>6. ASSUME NEW j \in CellIds, j < r.len
      PROVE  [r EXCEPT !.cells[j] = x] \in TidyRows
  <2> DEFINE f == [r.cells EXCEPT ![j] = x]
  <2>1. f \in [CellIds -> Data]
    BY <1>1
  <2>2. \A c \in CellIds : c >= r.len => f[c] = Zero
    BY <1>1, <1>6
  <2>3. [r EXCEPT !.cells[j] = x] = [len |-> r.len, cells |-> f]
    BY <1>1
  <2> HIDE DEF f
  <2> QED BY <1>1, <1>2, <2>1, <2>2, <2>3
<1> QED BY <1>3, <1>4, <1>5, <1>6

-----------------------------------------------------------------------------
(***************************************************************************)
(* The invariant.                                                          *)
(***************************************************************************)
LEMMA InvFacts ==
  ASSUME Inv
  PROVE  /\ TypeOK /\ NoHiddenCells /\ ResidueOnlyByDangling
         /\ length \in Int /\ \A i \in RowIds : i \in Int /\ slots[i] \in TidyRows
BY BoundsAssumption
   DEF Inv, TypeOK, NoHiddenCells, TidyRows, RowIds

LEMMA ClearedRowsFacts ==
  ASSUME Inv
  PROVE  /\ ClearedRows(slots) \in [RowIds -> TidyRows]
         /\ \A i \in RowIds :
              i < length \/ i \notin stray => ClearedRows(slots)[i].len = 0
<1>1. \A i \in RowIds : ClearedRow(slots[i]) \in TidyRows
                        /\ ClearedRow(slots[i]).len = 0 /\ slots[i] \in TidyRows
  BY InvFacts, ClearedRowTidy
<1>2. \A i \in RowIds : ~(i < length) => i >= length
  BY InvFacts
<1> QED BY <1>1, <1>2 DEF Inv, ResidueOnlyByDangling, ClearedRows

LEMMA InvInit == Init => Inv
<1> SUFFICES ASSUME Init PROVE Inv
  OBVIOUS
<1>1. EmptyRow \in TidyRows /\ EmptyRow.len = 0
  BY DataAssumption, BoundsAssumption DEF EmptyRow, TidyRows, RowSlots
<1> QED BY <1>1, BoundsAssumption DEF Init, Inv, ResidueOnlyByDangling

(* The operations on the array as a whole.                                 *)
LEMMA ArrayStep ==
  ASSUME Inv
  PROVE  /\ \A value \in ArrayValues : Assign(value) => Inv'
         /\ Delete => Inv'
         /\ \A value \in RowValues : Push(value) => Inv'
         /\ Grow => Inv'
         /\ Pop \/ PopEmpty => Inv'
<1>1. ASSUME NEW value \in ArrayValues, Assign(value) PROVE Inv'
  <2>1. PICK n \in 0..MaxRows : value \in [1..n -> RowValues]
    BY DEF ArrayValues
  <2>2. n \in Nat /\ Len(value) = n
    BY <2>1, BoundsAssumption
  <2> DEFINE cleared == ClearedRows(slots)
             after   == [i \in RowIds |-> IF i < n THEN WrittenRow(cleared[i], value[i + 1])
                                          ELSE cleared[i]]
  <2>3. \A i \in RowIds : i < n => i + 1 \in 1..n
    BY <2>2 DEF RowIds
  <2>4. after \in [RowIds -> TidyRows]
    <3>1. ASSUME NEW i \in RowIds, i < n PROVE WrittenRow(cleared[i], value[i + 1]) \in TidyRows
      <4>1. cleared[i] \in TidyRows
        BY ClearedRowsFacts
      <4>2. value[i + 1] \in RowValues
        BY <2>1, <2>3, <3>1
      <4> HIDE DEF cleared
      <4> QED BY <4>1, <4>2, WrittenRowTidy
    <3>2. \A i \in RowIds : cleared[i] \in TidyRows
      BY ClearedRowsFacts
    <3> HIDE DEF cleared
    <3> QED BY <3>1, <3>2
  <2>5. \A i \in RowIds : i >= n /\ i \notin stray => after[i].len = 0
    <3>1. ASSUME NEW i \in RowIds, i >= n, i \notin stray PROVE after[i].len = 0
      <4>1. after[i] = cleared[i]
        BY <2>2, <3>1, InvFacts
      <4>2. cleared[i].len = 0
        BY <3>1, ClearedRowsFacts
      <4> HIDE DEF after, cleared
      <4> QED BY <4>1, <4>2
    <3> QED BY <3>1
  <2>6. slots' = after /\ length' = n /\ refs' = refs /\ stray' = stray
    BY <1>1, <2>2 DEF Assign
  <2> HIDE DEF after
  <2> QED BY <2>1, <2>4, <2>5, <2>6 DEF Inv, ResidueOnlyByDangling
<1>2. ASSUME Delete PROVE Inv'
  <2>1. slots' = ClearedRows(slots) /\ length' = 0 /\ refs' = refs /\ stray' = stray
    BY <1>2 DEF Delete
  <2>2. 0 \in 0..MaxRows
    BY BoundsAssumption
  <2>3. /\ ClearedRows(slots) \in [RowIds -> TidyRows]
        /\ \A i \in RowIds : i \notin stray => ClearedRows(slots)[i].len = 0
    BY ClearedRowsFacts
  <2> QED BY <2>1, <2>2, <2>3 DEF Inv, ResidueOnlyByDangling
<1>3. ASSUME NEW value \in RowValues, Push(value) PROVE Inv'
  <2>1. length \in RowIds /\ length + 1 \in 0..MaxRows
    BY <1>3, BoundsAssumption DEF Push, Inv, RowIds
  <2>2. WrittenRow(slots[length], value) \in TidyRows
    BY <2>1, InvFacts, WrittenRowTidy
  <2>3. /\ length' = length + 1 /\ refs' = refs /\ stray' = stray
        /\ slots' = [slots EXCEPT ![length] = WrittenRow(slots[length], value)]
    BY <1>3 DEF Push
  <2>4. \A i \in RowIds : i >= length + 1 => i >= length /\ i # length
    BY InvFacts
  <2> QED BY <2>1, <2>2, <2>3, <2>4 DEF Inv, ResidueOnlyByDangling
<1>4. ASSUME Grow PROVE Inv'
  <2>1. length + 1 \in 0..MaxRows
    BY <1>4, BoundsAssumption DEF Grow, Inv
  <2>2. \A i \in RowIds : i >= length + 1 => i >= length
    BY InvFacts
  <2> QED BY <1>4, <2>1, <2>2 DEF Grow, Inv, ResidueOnlyByDangling
<1>5. ASSUME Pop PROVE Inv'
  <2>1. length - 1 \in RowIds /\ length - 1 \in 0..MaxRows
    BY <1>5, BoundsAssumption DEF Pop, Inv, RowIds
  <2>2. ClearedRow(slots[length - 1]) \in TidyRows /\ ClearedRow(slots[length - 1]).len = 0
    BY <2>1, InvFacts, ClearedRowTidy
  <2>3. /\ length' = length - 1 /\ refs' = refs /\ stray' = stray
        /\ slots' = [slots EXCEPT ![length - 1] = ClearedRow(slots[length - 1])]
    BY <1>5 DEF Pop, PoppedSlots
  <2>4. \A i \in RowIds : i >= length - 1 /\ i # length - 1 => i >= length
    BY InvFacts
  <2> QED BY <2>1, <2>2, <2>3, <2>4 DEF Inv, ResidueOnlyByDangling
<1>6. ASSUME PopEmpty PROVE Inv'
  BY <1>6 DEF PopEmpty, Inv, ResidueOnlyByDangling
<1> QED BY <1>1, <1>2, <1>3, <1>4, <1>5, <1>6

(* The operations on one row: whatever replaces it is tidy, and a row past *)
(* the end of the array becomes a stray one.                               *)
LEMMA RewriteKeepsInv ==
  ASSUME Inv, NEW i \in RowIds, NEW row \in TidyRows,
         NEW op, NEW at, NEW value, Rewrite(i, row, op, at, value)
  PROVE  Inv'
<1>1. /\ slots' = [slots EXCEPT ![i] = row] /\ length' = length /\ refs' = refs
      /\ stray' = IF i < length THEN stray ELSE stray \cup {i}
  BY DEF Rewrite
<1>2. i < length => ~(i >= length)
  BY InvFacts
<1> QED BY <1>1, <1>2 DEF Inv, ResidueOnlyByDangling

LEMMA RowStep ==
  ASSUME Inv, NEW i \in RowIds, RowNext(i)
  PROVE  Inv'
<1> DEFINE r == slots[i]
<1>1. r \in TidyRows
  BY InvFacts
<1>2. CASE Bind(i)
  BY <1>2 DEF Bind, Inv, ResidueOnlyByDangling
<1>3. ASSUME NEW value \in RowValues, AssignRow(i, value) PROVE Inv'
  <2>1. WrittenRow(r, value) \in TidyRows
    BY <1>1, WrittenRowTidy
  <2> QED BY <1>3, <2>1, RewriteKeepsInv DEF AssignRow
<1>4. CASE DeleteRow(i)
  <2>1. ClearedRow(r) \in TidyRows
    BY <1>1, ClearedRowTidy
  <2> QED BY <1>4, <2>1, RewriteKeepsInv DEF DeleteRow
<1>5. ASSUME NEW x \in Data, PushCell(i, x) PROVE Inv'
  <2>1. PushedRow(r, x) \in TidyRows
    BY <1>1, <1>5, EditedRowTidy DEF PushCell
  <2> QED BY <1>5, <2>1, RewriteKeepsInv DEF PushCell
<1>6. CASE GrowCells(i)
  <2>1. GrownRow(r) \in TidyRows
    BY <1>1, <1>6, EditedRowTidy, DataAssumption DEF GrowCells
  <2> QED BY <1>6, <2>1, RewriteKeepsInv DEF GrowCells
<1>7. CASE PopCell(i)
  <2>1. PoppedRow(r) \in TidyRows
    BY <1>1, <1>7, EditedRowTidy, DataAssumption DEF PopCell
  <2> QED BY <1>7, <2>1, RewriteKeepsInv DEF PopCell
<1>8. ASSUME NEW j \in CellIds, NEW x \in Data, AssignCell(i, j, x) PROVE Inv'
  <2> DEFINE row == [r EXCEPT !.cells[j] = x]
  <2>1. row \in TidyRows
    BY <1>1, <1>8, EditedRowTidy DEF AssignCell
  <2>2. Rewrite(i, row, "assignCell", <<i, j>>, << <<x>> >>)
    BY <1>8 DEF AssignCell
  <2> HIDE DEF row
  <2> QED BY <2>1, <2>2, RewriteKeepsInv
<1>9. ASSUME NEW op, NEW at, RowRevert(i, op, at) PROVE Inv'
  BY <1>9 DEF RowRevert, Inv, ResidueOnlyByDangling
<1> HIDE DEF r
<1> QED BY <1>2, <1>3, <1>4, <1>5, <1>6, <1>7, <1>8, <1>9 DEF RowNext

LEMMA InvStep == Inv /\ [Next]_vars => Inv'
<1> SUFFICES ASSUME Inv, [Next]_vars PROVE Inv'
  OBVIOUS
<1>1. CASE Next
  BY <1>1, ArrayStep, RowStep, Zenon DEF Next
<1>2. CASE UNCHANGED vars
  BY <1>2 DEF vars, Inv, ResidueOnlyByDangling
<1> QED BY <1>1, <1>2

LEMMA AlwaysInv == Spec => []Inv
BY InvInit, InvStep, PTL DEF Spec

-----------------------------------------------------------------------------
(***************************************************************************)
(* Theorems.                                                               *)
(***************************************************************************)
(* Lengths stay within their bounds: a pop, of the array or of a row, is   *)
(* never taken below zero.                                                 *)
THEOREM TypeCorrect == Spec => []TypeOK
<1>1. Inv => TypeOK
  BY InvFacts
<1> QED BY <1>1, AlwaysInv, PTL

(* Whatever is assigned, deleted, pushed or popped, through a reference to *)
(* a removed row too, nothing stays behind the end of a row.               *)
THEOREM NothingBehindRows == Spec => []NoHiddenCells
<1>1. Inv => NoHiddenCells
  BY InvFacts
<1> QED BY <1>1, AlwaysInv, PTL

(* A row that is not in the array is empty unless it was written through a *)
(* reference that outlived it.                                             *)
THEOREM RemovedRowsEmpty == Spec => []ResidueOnlyByDangling
<1>1. Inv => ResidueOnlyByDangling
  BY DEF Inv
<1> QED BY <1>1, AlwaysInv, PTL

-----------------------------------------------------------------------------
(***************************************************************************)
(* What a contract sees of one row after it was edited.                    *)
(***************************************************************************)
LEMMA RowValueType ==
  ASSUME NEW r \in TidyRows
  PROVE  /\ r.len \in Nat /\ r.len \in 0..MaxCells
         /\ RowValue(r) \in [1..r.len -> Data]
         /\ RowValue(r) \in Seq(Data) /\ Len(RowValue(r)) = r.len
         /\ RowValue(r) \in RowValues
         /\ DOMAIN RowValue(r) = 1..r.len
         /\ \A k \in 1..r.len : RowValue(r)[k] = r.cells[k - 1] /\ k - 1 \in CellIds
<1>1. r.len \in 0..MaxCells /\ r.len \in Nat /\ r.cells \in [CellIds -> Data]
  BY BoundsAssumption DEF TidyRows, RowSlots
<1>2. \A k \in 1..r.len : k - 1 \in CellIds
  BY <1>1, BoundsAssumption DEF CellIds
<1>3. RowValue(r) \in [1..r.len -> Data]
  BY <1>1, <1>2 DEF RowValue
<1>4. RowValue(r) \in Seq(Data) /\ Len(RowValue(r)) = r.len
  BY <1>1, <1>3
<1> QED BY <1>1, <1>2, <1>3, <1>4 DEF RowValue, RowValues

LEMMA ClearedRowValue ==
  ASSUME NEW r \in TidyRows
  PROVE  RowValue(ClearedRow(r)) = <<>>
<1>1. ClearedRow(r) \in TidyRows /\ ClearedRow(r).len = 0
  BY ClearedRowTidy
<1>2. RowValue(ClearedRow(r)) \in Seq(Data) /\ Len(RowValue(ClearedRow(r))) = 0
  BY <1>1, RowValueType
<1> QED BY <1>2, EmptySeq

LEMMA WrittenRowValue ==
  ASSUME NEW r \in TidyRows, NEW value \in RowValues
  PROVE  RowValue(WrittenRow(r, value)) = value
<1> DEFINE w == WrittenRow(r, value)
<1>1. w \in TidyRows
  BY WrittenRowTidy
<1>2. w.len = Len(value)
  BY DEF WrittenRow
<1>3. PICK n \in 0..MaxCells : value \in [1..n -> Data]
  BY DEF RowValues
<1>4. n \in Nat /\ Len(value) = n /\ value \in Seq(Data)
  BY <1>3, BoundsAssumption
<1>5. ASSUME NEW k \in 1..n PROVE w.cells[k - 1] = value[k]
  <2>1. k - 1 \in CellIds /\ k - 1 < n /\ (k - 1) + 1 = k
    BY <1>4, BoundsAssumption DEF CellIds
  <2>2. w.cells[k - 1] = value[(k - 1) + 1]
    BY <1>4, <2>1 DEF WrittenRow
  <2> QED BY <2>1, <2>2
<1> HIDE DEF w
<1>6. RowValue(w) \in Seq(Data) /\ Len(RowValue(w)) = n
      /\ \A k \in 1..n : RowValue(w)[k] = value[k]
  BY <1>1, <1>2, <1>4, <1>5, RowValueType
<1>7. RowValue(w) = value
  BY <1>4, <1>6, SeqEqual
<1> QED BY <1>7 DEF w

LEMMA EditedRowValue ==
  ASSUME NEW r \in TidyRows, NEW x \in Data
  PROVE  /\ r.len < MaxCells => RowValue(PushedRow(r, x)) = RowValue(r) \o <<x>>
         /\ r.len < MaxCells => RowValue(GrownRow(r)) = Append(RowValue(r), Zero)
         /\ r.len > 0 => RowValue(PoppedRow(r)) = SubSeq(RowValue(r), 1, Len(RowValue(r)) - 1)
         /\ \A j \in CellIds : j < r.len =>
              RowValue([r EXCEPT !.cells[j] = x]) = [RowValue(r) EXCEPT ![j + 1] = x]
<1> DEFINE v == RowValue(r)
           n == r.len
<1>1. /\ n \in Nat /\ n \in 0..MaxCells /\ v \in Seq(Data) /\ Len(v) = n
      /\ DOMAIN v = 1..n
      /\ \A k \in 1..n : v[k] = r.cells[k - 1] /\ k - 1 \in CellIds
  BY RowValueType
<1>2. r.cells \in [CellIds -> Data] /\ r = [len |-> n, cells |-> r.cells]
      /\ \A c \in CellIds : c \in Int /\ (c >= n => r.cells[c] = Zero)
  BY BoundsAssumption DEF TidyRows, RowSlots, CellIds
<1>3. ASSUME n < MaxCells PROVE n \in CellIds /\ n + 1 \in Nat
  BY <1>1, <1>3, BoundsAssumption DEF CellIds
<1>4. ASSUME n < MaxCells PROVE RowValue(PushedRow(r, x)) = v \o <<x>>
  <2> DEFINE p == PushedRow(r, x)
  <2>1. p \in TidyRows /\ p.len = n + 1
    BY <1>4, EditedRowTidy DEF PushedRow
  <2>2. <<x>> \in Seq(Data) /\ Len(<<x>>) = 1 /\ <<x>>[1] = x
    OBVIOUS
  <2>3. /\ v \o <<x>> \in Seq(Data) /\ Len(v \o <<x>>) = n + 1
        /\ \A k \in 1..n + 1 : (v \o <<x>>)[k] = IF k <= n THEN v[k] ELSE <<x>>[k - n]
    <3> HIDE DEF v, n
    <3> QED BY <1>1, <2>2, ConcatProperties
  <2>4. \A k \in 1..n + 1 : p.cells[k - 1] = IF k <= n THEN r.cells[k - 1] ELSE x
    BY <1>1, <1>2, <1>3, <1>4 DEF PushedRow
  <2>5. \A k \in 1..n + 1 : p.cells[k - 1] = (v \o <<x>>)[k]
    <3>1. TAKE k \in 1..n + 1
    <3>2. CASE k <= n
      BY <1>1, <2>3, <2>4, <3>2
    <3>3. CASE k = n + 1
      <4>1. k - n = 1 /\ ~(k <= n)
        BY <1>1, <3>3
      <4> HIDE DEF v, n, p
      <4> QED BY <2>2, <2>3, <2>4, <4>1
    <3> QED BY <1>1, <3>2, <3>3
  <2> HIDE DEF p, v, n
  <2>6. RowValue(p) \in Seq(Data) /\ Len(RowValue(p)) = n + 1
        /\ \A k \in 1..n + 1 : RowValue(p)[k] = p.cells[k - 1]
    BY <2>1, RowValueType
  <2>7. RowValue(p) = v \o <<x>>
    BY <2>3, <2>5, <2>6, SeqEqual
  <2> QED BY <2>7 DEF p
<1>5. ASSUME n < MaxCells PROVE RowValue(GrownRow(r)) = Append(v, Zero)
  <2> DEFINE p == GrownRow(r)
  <2>1. p \in TidyRows /\ p.len = n + 1 /\ p.cells = r.cells
    BY <1>2, <1>5, EditedRowTidy DEF GrownRow
  <2>2. /\ Append(v, Zero) \in Seq(Data) /\ Len(Append(v, Zero)) = n + 1
        /\ \A k \in 1..n + 1 : Append(v, Zero)[k] = IF k <= n THEN v[k] ELSE Zero
    <3> HIDE DEF v, n
    <3> QED BY <1>1, DataAssumption
  <2>3. \A k \in 1..n + 1 : p.cells[k - 1] = Append(v, Zero)[k]
    BY <1>1, <1>2, <1>3, <1>5, <2>1, <2>2
  <2> HIDE DEF p, v, n
  <2>4. RowValue(p) \in Seq(Data) /\ Len(RowValue(p)) = n + 1
        /\ \A k \in 1..n + 1 : RowValue(p)[k] = p.cells[k - 1]
    BY <2>1, RowValueType
  <2>5. RowValue(p) = Append(v, Zero)
    BY <2>2, <2>3, <2>4, SeqEqual
  <2> QED BY <2>5 DEF p
<1>6. ASSUME n > 0 PROVE RowValue(PoppedRow(r)) = SubSeq(v, 1, Len(v) - 1)
  <2> DEFINE p == PoppedRow(r)
  <2>1. p \in TidyRows /\ p.len = n - 1
    BY <1>6, EditedRowTidy DEF PoppedRow
  <2>2. /\ SubSeq(v, 1, n - 1) \in Seq(Data) /\ Len(SubSeq(v, 1, n - 1)) = n - 1
        /\ \A k \in 1..n - 1 : SubSeq(v, 1, n - 1)[k] = v[k]
    <3> HIDE DEF v, n
    <3> QED BY <1>1, <1>6
  <2>3. \A k \in 1..n - 1 : p.cells[k - 1] = r.cells[k - 1]
    BY <1>1, <1>2 DEF PoppedRow
  <2> HIDE DEF p, v, n
  <2>4. RowValue(p) \in Seq(Data) /\ Len(RowValue(p)) = n - 1
        /\ \A k \in 1..n - 1 : RowValue(p)[k] = p.cells[k - 1]
    BY <2>1, RowValueType
  <2>5. \A k \in 1..n - 1 : k \in 1..n
    BY <1>1
  <2>6. RowValue(p) = SubSeq(v, 1, n - 1)
    BY <1>1, <2>2, <2>3, <2>4, <2>5, SeqEqual
  <2> QED BY <1>1, <2>6 DEF p
<1>7. ASSUME NEW j \in CellIds, j < n
      PROVE  RowValue([r EXCEPT !.cells[j] = x]) = [v EXCEPT ![j + 1] = x]
  <2> DEFINE p == [r EXCEPT !.cells[j] = x]
             f == [r.cells EXCEPT ![j] = x]
  <2>1. p \in TidyRows
    BY <1>7, EditedRowTidy
  <2>2. p = [len |-> n, cells |-> f]
    BY <1>2
  <2>3. j + 1 \in 1..n
    BY <1>1, <1>7, BoundsAssumption DEF CellIds
  <2>4. /\ [v EXCEPT ![j + 1] = x] \in Seq(Data) /\ Len([v EXCEPT ![j + 1] = x]) = n
        /\ \A k \in 1..n : [v EXCEPT ![j + 1] = x][k] = IF k = j + 1 THEN x ELSE v[k]
    <3> HIDE DEF v, n
    <3> QED BY <1>1, <2>3, ExceptSeq
  <2>5. \A k \in 1..n : f[k - 1] = IF k - 1 = j THEN x ELSE r.cells[k - 1]
    BY <1>1, <1>2
  <2>6. \A k \in 1..n : k = j + 1 <=> k - 1 = j
    BY <1>1, <1>2
  <2> HIDE DEF p, f, v, n
  <2>7. RowValue(p) \in Seq(Data) /\ Len(RowValue(p)) = n
        /\ \A k \in 1..n : RowValue(p)[k] = f[k - 1]
    BY <2>1, <2>2, RowValueType
  <2>8. \A k \in 1..n : RowValue(p)[k] = [v EXCEPT ![j + 1] = x][k]
    BY <1>1, <2>4, <2>5, <2>6, <2>7
  <2>9. RowValue(p) = [v EXCEPT ![j + 1] = x]
    BY <2>4, <2>7, <2>8, SeqEqual
  <2> QED BY <2>9 DEF p
<1> QED BY <1>4, <1>5, <1>6, <1>7

-----------------------------------------------------------------------------
(***************************************************************************)
(* What a contract sees of the array.                                      *)
(***************************************************************************)
RowsOf(n, s) == [k \in 1..n |-> RowValue(s[k - 1])]

LEMMA RowsOfType ==
  ASSUME NEW n \in 0..MaxRows, NEW s \in [RowIds -> TidyRows]
  PROVE  /\ n \in Nat /\ RowsOf(n, s) \in Seq(RowValues) /\ Len(RowsOf(n, s)) = n
         /\ DOMAIN RowsOf(n, s) = 1..n
         /\ \A k \in 1..n : /\ k - 1 \in RowIds /\ s[k - 1] \in TidyRows
                           /\ RowsOf(n, s)[k] = RowValue(s[k - 1])
<1>1. n \in Nat
  BY BoundsAssumption
<1>2. \A k \in 1..n : k - 1 \in RowIds
  BY <1>1, BoundsAssumption DEF RowIds
<1>3. \A k \in 1..n : s[k - 1] \in TidyRows /\ RowValue(s[k - 1]) \in RowValues
  BY <1>2, RowValueType
<1>4. RowsOf(n, s) \in [1..n -> RowValues]
  BY <1>3 DEF RowsOf
<1>5. RowsOf(n, s) \in Seq(RowValues) /\ Len(RowsOf(n, s)) = n
  BY <1>1, <1>4
<1> QED BY <1>1, <1>2, <1>3, <1>5 DEF RowsOf

(* A new last row is appended.                                             *)
LEMMA RowsAppended ==
  ASSUME NEW n \in 0..MaxRows, n < MaxRows, NEW s \in [RowIds -> TidyRows],
         NEW t \in [RowIds -> TidyRows], \A i \in RowIds : i # n => t[i] = s[i]
  PROVE  n \in RowIds /\ RowsOf(n + 1, t) = Append(RowsOf(n, s), RowValue(t[n]))
<1>1. n \in Nat /\ n \in RowIds /\ n + 1 \in 0..MaxRows
  BY BoundsAssumption DEF RowIds
<1>2. RowValue(t[n]) \in RowValues
  BY <1>1, RowValueType
<1> DEFINE v == RowsOf(n, s)
           w == RowsOf(n + 1, t)
           x == RowValue(t[n])
<1>3. v \in Seq(RowValues) /\ Len(v) = n /\ \A k \in 1..n : v[k] = RowValue(s[k - 1])
  BY RowsOfType
<1>4. w \in Seq(RowValues) /\ Len(w) = n + 1
      /\ \A k \in 1..n + 1 : w[k] = RowValue(t[k - 1]) /\ k - 1 \in RowIds
  BY <1>1, RowsOfType
<1>5. /\ Append(v, x) \in Seq(RowValues) /\ Len(Append(v, x)) = n + 1
      /\ \A k \in 1..n + 1 : Append(v, x)[k] = IF k <= n THEN v[k] ELSE x
  <2> HIDE DEF v, x
  <2> QED BY <1>1, <1>2, <1>3 DEF x
<1>6. ASSUME NEW k \in 1..n + 1 PROVE w[k] = Append(v, x)[k]
  <2>1. CASE k <= n
    <3>1. k \in 1..n /\ k - 1 # n
      BY <1>1, <2>1
    <3>2. t[k - 1] = s[k - 1]
      BY <1>4, <3>1
    <3> HIDE DEF v, w, x
    <3> QED BY <1>3, <1>4, <1>5, <2>1, <3>1, <3>2
  <2>2. CASE k = n + 1
    <3>1. k - 1 = n /\ ~(k <= n)
      BY <1>1, <2>2
    <3>2. w[k] = RowValue(t[n])
      BY <1>4, <3>1
    <3>3. Append(v, x)[k] = x
      BY <1>5, <3>1
    <3> QED BY <3>2, <3>3
  <2>3. k <= n \/ k = n + 1
    BY <1>1
  <2> HIDE DEF v, w, x
  <2> QED BY <2>1, <2>2, <2>3
<1> HIDE DEF v, w, x
<1>7. w = Append(v, x)
  BY <1>4, <1>5, <1>6, SeqEqual
<1> QED BY <1>1, <1>7 DEF v, w, x

(* The last row is dropped.                                                *)
LEMMA RowsDropped ==
  ASSUME NEW n \in 0..MaxRows, n > 0, NEW s \in [RowIds -> TidyRows],
         NEW t \in [RowIds -> TidyRows], \A i \in RowIds : i # n - 1 => t[i] = s[i]
  PROVE  RowsOf(n - 1, t) = SubSeq(RowsOf(n, s), 1, Len(RowsOf(n, s)) - 1)
<1>1. n \in Nat /\ n - 1 \in 0..MaxRows
  BY BoundsAssumption
<1> DEFINE v == RowsOf(n, s)
           w == RowsOf(n - 1, t)
<1>2. v \in Seq(RowValues) /\ Len(v) = n /\ \A k \in 1..n : v[k] = RowValue(s[k - 1])
  BY RowsOfType
<1>3. w \in Seq(RowValues) /\ Len(w) = n - 1
      /\ \A k \in 1..n - 1 : w[k] = RowValue(t[k - 1]) /\ k - 1 \in RowIds
  BY <1>1, RowsOfType
<1>4. /\ SubSeq(v, 1, n - 1) \in Seq(RowValues) /\ Len(SubSeq(v, 1, n - 1)) = n - 1
      /\ \A k \in 1..n - 1 : SubSeq(v, 1, n - 1)[k] = v[k]
  <2> HIDE DEF v
  <2> QED BY <1>1, <1>2
<1>5. ASSUME NEW k \in 1..n - 1 PROVE w[k] = SubSeq(v, 1, n - 1)[k]
  <2>1. k \in 1..n /\ k - 1 # n - 1
    BY <1>1
  <2>2. t[k - 1] = s[k - 1]
    BY <1>3, <2>1
  <2> HIDE DEF v, w
  <2> QED BY <1>2, <1>3, <1>4, <2>1, <2>2
<1> HIDE DEF v, w
<1>6. w = SubSeq(v, 1, n - 1)
  BY <1>3, <1>4, <1>5, SeqEqual
<1> QED BY <1>2, <1>6 DEF v, w

-----------------------------------------------------------------------------
(***************************************************************************)
(* A row that was written after it was removed stays marked.  As long as   *)
(* none is, the row that a push makes visible is empty.                    *)
(***************************************************************************)
NoStray == Inv /\ stray = {}

LEMMA StrayGrows ==
  ASSUME [Next]_vars
  PROVE  stray' = {} => stray = {}
<1>1. CASE Next
  <2>1. ASSUME NEW i \in RowIds, RowNext(i) PROVE stray' = {} => stray = {}
    <3>1. ASSUME NEW row, NEW op, NEW at, NEW value, Rewrite(i, row, op, at, value)
          PROVE  stray' = {} => stray = {}
      BY <3>1 DEF Rewrite
    <3> QED BY <2>1, <3>1 DEF RowNext, Bind, AssignRow, DeleteRow, PushCell,
               GrowCells, PopCell, AssignCell, RowRevert
  <2> QED BY <1>1, <2>1 DEF Next, Assign, Delete, Push, Grow, Pop, PopEmpty
<1>2. CASE UNCHANGED vars
  BY <1>2 DEF vars
<1> QED BY <1>1, <1>2

(* The rows that a contract sees, after and before the step.               *)
LEMMA RowsFacts ==
  ASSUME NoStray
  PROVE  /\ Rows = RowsOf(length, slots) /\ Rows \in Seq(RowValues) /\ Len(Rows) = length
         /\ length \in 0..MaxRows /\ length \in Int /\ slots \in [RowIds -> TidyRows]
         /\ DOMAIN Rows = 1..length
         /\ \A i \in RowIds : i >= length => slots[i].len = 0
<1>1. length \in 0..MaxRows /\ slots \in [RowIds -> TidyRows]
  BY DEF NoStray, Inv
<1>2. Rows = RowsOf(length, slots)
  BY DEF Rows, RowsOf
<1> QED BY <1>1, <1>2, RowsOfType, BoundsAssumption DEF NoStray, Inv, ResidueOnlyByDangling

LEMMA InitRefines == Init => Visible!Init
<1> SUFFICES ASSUME Init PROVE Visible!Init
  OBVIOUS
<1>1. Rows = <<>>
  BY DEF Init, Rows
<1> QED BY <1>1 DEF Init, Visible!Init

LEMMA AssignRefines ==
  ASSUME NoStray, NEW value \in ArrayValues, Assign(value)
  PROVE  Visible!Assign
<1>1. PICK n \in 0..MaxRows : value \in [1..n -> RowValues]
  BY DEF ArrayValues
<1>2. n \in Nat /\ Len(value) = n
  BY <1>1, BoundsAssumption
<1> DEFINE cleared == ClearedRows(slots)
<1>3. length' = n /\ slots' = [i \in RowIds |-> IF i < n THEN WrittenRow(cleared[i], value[i + 1])
                                                ELSE cleared[i]]
      /\ last' = [op |-> "assign", at |-> <<>>, value |-> value, status |-> "ok"]
  BY <1>2 DEF Assign, Report
<1>4. ASSUME NEW k \in 1..n PROVE RowValue(slots'[k - 1]) = value[k]
  <2>1. k - 1 \in RowIds /\ k - 1 < n /\ (k - 1) + 1 = k
    BY <1>2, BoundsAssumption DEF RowIds
  <2>2. cleared[k - 1] \in TidyRows /\ value[k] \in RowValues
    BY <1>1, <2>1, ClearedRowsFacts DEF NoStray
  <2> HIDE DEF cleared
  <2>3. slots'[k - 1] = WrittenRow(cleared[k - 1], value[(k - 1) + 1])
    BY <1>3, <2>1
  <2> QED BY <2>1, <2>2, <2>3, WrittenRowValue
<1>5. Rows' = [k \in 1..n |-> RowValue(slots'[k - 1])]
  BY <1>3 DEF Rows, RowValue
<1>6. Rows' = value
  <2> HIDE DEF cleared
  <2> QED BY <1>1, <1>4, <1>5
<1> QED BY <1>3, <1>6 DEF Visible!Assign, Visible!Request, Visible!Done

LEMMA DeleteRefines ==
  ASSUME NoStray, Delete
  PROVE  Visible!Delete
<1>1. Rows' = <<>>
  BY DEF Delete, Rows
<1> QED BY <1>1 DEF Delete, Report, Visible!Delete, Visible!Request, Visible!Done

LEMMA PushRefines ==
  ASSUME NoStray, NEW value \in RowValues, Push(value)
  PROVE  Visible!Push
<1> DEFINE row == WrittenRow(slots[length], value)
<1>1. length < MaxRows /\ length' = length + 1 /\ slots' = [slots EXCEPT ![length] = row]
      /\ last' = [op |-> "push", at |-> <<>>, value |-> <<value>>, status |-> "ok"]
  BY DEF Push, Report
<1>2. length \in RowIds
  BY <1>1, RowsFacts, BoundsAssumption DEF RowIds
<1>3. row \in TidyRows /\ RowValue(row) = value
  BY <1>2, RowsFacts, WrittenRowTidy, WrittenRowValue
<1> HIDE DEF row
<1>4. slots' \in [RowIds -> TidyRows] /\ slots'[length] = row
      /\ \A i \in RowIds : i # length => slots'[i] = slots[i]
  BY <1>1, <1>2, <1>3, RowsFacts
<1>5. RowsOf(length + 1, slots') = Append(RowsOf(length, slots), value)
  BY <1>1, <1>3, <1>4, RowsFacts, RowsAppended
<1>6. Rows' = Append(Rows, value)
  BY <1>1, <1>5, RowsFacts DEF Rows, RowsOf, RowValue
<1> QED BY <1>1, <1>6 DEF Visible!Push, Visible!Request, Visible!Done

LEMMA GrowRefines ==
  ASSUME NoStray, Grow
  PROVE  Visible!Grow
<1>1. length < MaxRows /\ length' = length + 1 /\ slots' = slots
      /\ last' = [op |-> "grow", at |-> <<>>, value |-> <<>>, status |-> "ok"]
  BY DEF Grow, Report
<1>2. length \in RowIds /\ slots[length].len = 0 /\ slots[length] \in TidyRows
  BY <1>1, RowsFacts, BoundsAssumption DEF RowIds
<1>3. RowValue(slots[length]) = <<>>
  BY <1>2 DEF RowValue
<1>4. RowsOf(length + 1, slots) = Append(RowsOf(length, slots), <<>>)
  BY <1>1, <1>3, RowsFacts, RowsAppended
<1>5. Rows' = Append(Rows, <<>>)
  BY <1>1, <1>4, RowsFacts DEF Rows, RowsOf, RowValue
<1> QED BY <1>1, <1>5 DEF Visible!Grow, Visible!Request, Visible!Done

LEMMA PopRefines ==
  ASSUME NoStray, Pop
  PROVE  Visible!Pop
<1> DEFINE row == ClearedRow(slots[length - 1])
<1>1. length > 0 /\ length' = length - 1 /\ slots' = [slots EXCEPT ![length - 1] = row]
      /\ last' = [op |-> "pop", at |-> <<>>, value |-> <<>>, status |-> "ok"]
  BY DEF Pop, PoppedSlots, Report
<1>2. length - 1 \in RowIds
  BY <1>1, RowsFacts, BoundsAssumption DEF RowIds
<1>3. row \in TidyRows
  BY <1>2, RowsFacts, ClearedRowTidy
<1> HIDE DEF row
<1>4. slots' \in [RowIds -> TidyRows] /\ \A i \in RowIds : i # length - 1 => slots'[i] = slots[i]
  BY <1>1, <1>2, <1>3, RowsFacts
<1>5. RowsOf(length - 1, slots')
        = SubSeq(RowsOf(length, slots), 1, Len(RowsOf(length, slots)) - 1)
  <2>1. length \in 0..MaxRows /\ slots \in [RowIds -> TidyRows]
    BY RowsFacts
  <2> QED BY <1>1, <1>4, <2>1, RowsDropped
<1>6. Rows' = RowsOf(length - 1, slots')
  BY <1>1 DEF Rows, RowsOf, RowValue
<1>7. Rows = RowsOf(length, slots) /\ Rows # <<>>
  BY <1>1, RowsFacts
<1>8. Rows' = SubSeq(Rows, 1, Len(Rows) - 1)
  BY <1>5, <1>6, <1>7
<1> QED BY <1>1, <1>7, <1>8 DEF Visible!Pop, Visible!Request, Visible!Done, Visible!Front

(* Rewriting a row that is in the array replaces the row that is seen.     *)
LEMMA RewriteSeen ==
  ASSUME NoStray, stray' = {}, NEW i \in RowIds, NEW row \in TidyRows,
         NEW op, NEW at, NEW value, Rewrite(i, row, op, at, value)
  PROVE  /\ i + 1 \in DOMAIN Rows /\ Rows[i + 1] = RowValue(slots[i])
         /\ Rows' = [Rows EXCEPT ![i + 1] = RowValue(row)]
<1>1. i < length /\ length' = length /\ slots' = [slots EXCEPT ![i] = row]
  BY DEF Rewrite
<1>2. /\ Rows \in Seq(RowValues) /\ Len(Rows) = length /\ DOMAIN Rows = 1..length
      /\ length \in 0..MaxRows /\ slots \in [RowIds -> TidyRows] /\ Rows = RowsOf(length, slots)
  BY RowsFacts
<1>3. length \in Nat /\ i + 1 \in 1..length /\ (i + 1) - 1 = i
  BY <1>1, <1>2, BoundsAssumption DEF RowIds
<1>4. \A k \in 1..length : Rows[k] = RowValue(slots[k - 1])
  BY DEF Rows
<1> DEFINE x == RowValue(row)
<1>5. x \in RowValues /\ slots' \in [RowIds -> TidyRows]
  BY <1>1, <1>2, RowValueType
<1>6. Rows' = RowsOf(length, slots')
  BY <1>1 DEF Rows, RowsOf, RowValue
<1>7. Rows' \in Seq(RowValues) /\ Len(Rows') = length
      /\ \A k \in 1..length : Rows'[k] = RowValue(slots'[k - 1]) /\ k - 1 \in RowIds
  BY <1>2, <1>5, <1>6, RowsOfType
<1>8. \A k \in 1..length : slots'[k - 1] = IF k = i + 1 THEN row ELSE slots[k - 1]
  <2>1. \A k \in 1..length : k = i + 1 <=> k - 1 = i
    BY <1>3 DEF RowIds
  <2> QED BY <1>1, <1>2, <1>7, <2>1
<1>9. /\ [Rows EXCEPT ![i + 1] = x] \in Seq(RowValues) /\ Len([Rows EXCEPT ![i + 1] = x]) = length
      /\ \A k \in 1..length : [Rows EXCEPT ![i + 1] = x][k] = IF k = i + 1 THEN x ELSE Rows[k]
  <2> HIDE DEF x
  <2> QED BY <1>2, <1>3, <1>5, ExceptSeq
<1>10. ASSUME NEW k \in 1..length PROVE Rows'[k] = [Rows EXCEPT ![i + 1] = x][k]
  <2>1. Rows'[k] = RowValue(IF k = i + 1 THEN row ELSE slots[k - 1])
    BY <1>7, <1>8
  <2>2. Rows[k] = RowValue(slots[k - 1])
    BY <1>4
  <2> QED BY <1>9, <2>1, <2>2
<1> HIDE DEF x
<1>11. Rows' = [Rows EXCEPT ![i + 1] = x]
  BY <1>7, <1>9, <1>10, SeqEqual
<1>12. Rows[i + 1] = RowValue(slots[i])
  BY <1>3, <1>4
<1> QED BY <1>2, <1>3, <1>11, <1>12 DEF x

LEMMA RowRefines ==
  ASSUME NoStray, stray' = {}, NEW i \in RowIds, RowNext(i)
  PROVE  Visible!RowRequest \/ Visible!Revert \/ UNCHANGED Visible!vars
<1> DEFINE r == slots[i]
<1>1. r \in TidyRows /\ i \in Int
  BY RowsFacts, InvFacts DEF NoStray
<1>2. CASE Bind(i)
  BY <1>2 DEF Bind, Rows, RowValue, Visible!vars
<1>3. ASSUME NEW value \in RowValues, AssignRow(i, value) PROVE Visible!RowRequest
  <2> DEFINE row == WrittenRow(r, value)
  <2>1. row \in TidyRows /\ RowValue(row) = value
    BY <1>1, WrittenRowTidy, WrittenRowValue
  <2>2. Reaches(i) /\ Rewrite(i, row, "assignRow", <<i>>, <<value>>)
    BY <1>3 DEF AssignRow
  <2> HIDE DEF row
  <2>3. /\ i + 1 \in DOMAIN Rows /\ Rows[i + 1] = RowValue(r)
        /\ Rows' = [Rows EXCEPT ![i + 1] = RowValue(row)]
    BY <2>1, <2>2, RewriteSeen
  <2>4. last' = [op |-> "assignRow", at |-> <<i>>, value |-> <<value>>, status |-> "ok"]
    BY <2>2 DEF Rewrite, Report
  <2> HIDE DEF r
  <2> QED BY <2>1, <2>3, <2>4
          DEF Visible!RowRequest, Visible!AssignRow, Visible!Request, Visible!Done, Visible!Row
<1>4. CASE DeleteRow(i)
  <2> DEFINE row == ClearedRow(r)
  <2>1. row \in TidyRows /\ RowValue(row) = <<>>
    BY <1>1, ClearedRowTidy, ClearedRowValue
  <2>2. Reaches(i) /\ Rewrite(i, row, "assignRow", <<i>>, << <<>> >>)
    BY <1>4 DEF DeleteRow
  <2> HIDE DEF row
  <2>3. /\ i + 1 \in DOMAIN Rows /\ Rows[i + 1] = RowValue(r)
        /\ Rows' = [Rows EXCEPT ![i + 1] = RowValue(row)]
    BY <2>1, <2>2, RewriteSeen
  <2>4. last' = [op |-> "assignRow", at |-> <<i>>, value |-> << <<>> >>, status |-> "ok"]
    BY <2>2 DEF Rewrite, Report
  <2> HIDE DEF r
  <2> QED BY <2>1, <2>3, <2>4
          DEF Visible!RowRequest, Visible!AssignRow, Visible!Request, Visible!Done, Visible!Row
<1>5. ASSUME NEW x \in Data, PushCell(i, x) PROVE Visible!RowRequest
  <2> DEFINE row == PushedRow(r, x)
  <2>1. row \in TidyRows /\ RowValue(row) = RowValue(r) \o <<x>>
    BY <1>1, <1>5, EditedRowTidy, EditedRowValue DEF PushCell
  <2>2. Reaches(i) /\ Rewrite(i, row, "pushCell", <<i>>, << <<x>> >>)
    BY <1>5 DEF PushCell
  <2> HIDE DEF row
  <2>3. /\ i + 1 \in DOMAIN Rows /\ Rows[i + 1] = RowValue(r)
        /\ Rows' = [Rows EXCEPT ![i + 1] = RowValue(row)]
    BY <2>1, <2>2, RewriteSeen
  <2>4. last' = [op |-> "pushCell", at |-> <<i>>, value |-> << <<x>> >>, status |-> "ok"]
    BY <2>2 DEF Rewrite, Report
  <2> HIDE DEF r
  <2> QED BY <2>1, <2>3, <2>4
          DEF Visible!RowRequest, Visible!PushCell, Visible!Request, Visible!Done, Visible!Row
<1>6. CASE GrowCells(i)
  <2> DEFINE row == GrownRow(r)
  <2>1. row \in TidyRows /\ RowValue(row) = Append(RowValue(r), Zero)
    BY <1>1, <1>6, EditedRowTidy, EditedRowValue, DataAssumption DEF GrowCells
  <2>2. Reaches(i) /\ Rewrite(i, row, "growCells", <<i>>, <<>>)
    BY <1>6 DEF GrowCells
  <2> HIDE DEF row
  <2>3. /\ i + 1 \in DOMAIN Rows /\ Rows[i + 1] = RowValue(r)
        /\ Rows' = [Rows EXCEPT ![i + 1] = RowValue(row)]
    BY <2>1, <2>2, RewriteSeen
  <2>4. last' = [op |-> "growCells", at |-> <<i>>, value |-> <<>>, status |-> "ok"]
    BY <2>2 DEF Rewrite, Report
  <2> HIDE DEF r
  <2> QED BY <2>1, <2>3, <2>4
          DEF Visible!RowRequest, Visible!GrowCells, Visible!Request, Visible!Done, Visible!Row
<1>7. CASE PopCell(i)
  <2> DEFINE row == PoppedRow(r)
  <2>1. row \in TidyRows /\ RowValue(row) = SubSeq(RowValue(r), 1, Len(RowValue(r)) - 1)
    BY <1>1, <1>7, EditedRowTidy, EditedRowValue, DataAssumption DEF PopCell
  <2>2. RowValue(r) # <<>>
    BY <1>1, <1>7, RowValueType DEF PopCell
  <2>3. Reaches(i) /\ Rewrite(i, row, "popCell", <<i>>, <<>>)
    BY <1>7 DEF PopCell
  <2> HIDE DEF row
  <2>4. /\ i + 1 \in DOMAIN Rows /\ Rows[i + 1] = RowValue(r)
        /\ Rows' = [Rows EXCEPT ![i + 1] = RowValue(row)]
    BY <2>1, <2>3, RewriteSeen
  <2>5. last' = [op |-> "popCell", at |-> <<i>>, value |-> <<>>, status |-> "ok"]
    BY <2>3 DEF Rewrite, Report
  <2> HIDE DEF r
  <2> QED BY <2>1, <2>2, <2>4, <2>5
          DEF Visible!RowRequest, Visible!PopCell, Visible!Request, Visible!Done, Visible!Row,
              Visible!Front
<1>8. ASSUME NEW j \in CellIds, NEW x \in Data, AssignCell(i, j, x) PROVE Visible!RowRequest
  <2> DEFINE row == [r EXCEPT !.cells[j] = x]
  <2>1. row \in TidyRows /\ RowValue(row) = [RowValue(r) EXCEPT ![j + 1] = x]
    BY <1>1, <1>8, EditedRowTidy, EditedRowValue DEF AssignCell
  <2>2. j + 1 \in DOMAIN RowValue(r)
    BY <1>1, <1>8, RowValueType, BoundsAssumption DEF AssignCell, CellIds
  <2>3. Reaches(i) /\ Rewrite(i, row, "assignCell", <<i, j>>, << <<x>> >>)
    BY <1>8 DEF AssignCell
  <2> HIDE DEF row
  <2>4. /\ i + 1 \in DOMAIN Rows /\ Rows[i + 1] = RowValue(r)
        /\ Rows' = [Rows EXCEPT ![i + 1] = RowValue(row)]
    BY <2>1, <2>3, RewriteSeen
  <2>5. last' = [op |-> "assignCell", at |-> <<i, j>>, value |-> << <<x>> >>, status |-> "ok"]
    BY <2>3 DEF Rewrite, Report
  <2> HIDE DEF r
  <2> QED BY <2>1, <2>2, <2>4, <2>5
          DEF Visible!RowRequest, Visible!AssignCell, Visible!Request, Visible!Done, Visible!Row,
              Visible!Cell
<1>9. ASSUME NEW op, NEW at, RowRevert(i, op, at), at[1] = i, at # <<>>,
             op = "assignCell" => \E j \in CellIds : at[2] = j
      PROVE  Visible!Revert
  <2>1. last' = [op |-> op, at |-> at, value |-> <<>>, status |-> "revert"]
        /\ Rows' = Rows
    BY <1>9 DEF RowRevert, Report, Rows, RowValue
  <2>2. CASE i >= length
    <3>1. i + 1 \notin DOMAIN Rows
      BY <1>1, <2>2, RowsFacts
    <3> QED BY <1>9, <2>1, <3>1 DEF Visible!Revert, Visible!Empty, Visible!Row
  <2>3. CASE i < length /\ op = "popCell" /\ r.len = 0
    <3>1. Rows[i + 1] = <<>>
      <4>1. i + 1 \in 1..length /\ (i + 1) - 1 = i /\ RowValue(r) = <<>>
        BY <1>1, <2>3, RowsFacts, BoundsAssumption DEF RowValue, RowIds
      <4> QED BY <4>1 DEF Rows
    <3> QED BY <1>9, <2>1, <2>3, <3>1
            DEF Visible!Revert, Visible!Empty, Visible!Row, Visible!Request
  <2>4. CASE i < length /\ op = "assignCell" /\ at[2] >= r.len
    <3>1. i + 1 \in 1..length /\ (i + 1) - 1 = i
      BY <1>1, <2>4, RowsFacts, BoundsAssumption DEF RowIds
    <3>2. Rows[i + 1] = RowValue(r)
      BY <3>1 DEF Rows
    <3>3. PICK j \in CellIds : at[2] = j
      BY <1>9, <2>4
    <3>4. at[2] + 1 \notin DOMAIN RowValue(r)
      BY <1>1, <2>4, <3>3, RowValueType DEF CellIds
    <3> QED BY <1>9, <2>1, <2>4, <3>2, <3>4
            DEF Visible!Revert, Visible!Empty, Visible!Row, Visible!Cell, Visible!Request
  <2>5. i < length \/ i >= length
    BY <1>1, RowsFacts
  <2> QED BY <1>9, <2>2, <2>3, <2>4, <2>5 DEF RowRevert
<1>10. ASSUME RowRevert(i, "popCell", <<i>>) PROVE Visible!Revert
  BY <1>9, <1>10
<1>11. ASSUME NEW j \in CellIds, RowRevert(i, "assignCell", <<i, j>>) PROVE Visible!Revert
  BY <1>9, <1>11
<1> QED BY <1>2, <1>3, <1>4, <1>5, <1>6, <1>7, <1>8, <1>10, <1>11, Zenon DEF RowNext

LEMMA StepRefines ==
  ASSUME Inv, stray' = {}, [Next]_vars
  PROVE  [Visible!Next]_(Visible!vars)
<1>1. NoStray
  BY StrayGrows DEF NoStray
<1>2. CASE Next
  <2>1. ASSUME PopEmpty PROVE Visible!Revert
    <3>1. Rows = <<>> /\ Rows' = Rows /\ last'.op = "pop" /\ last'.status = "revert"
      BY <2>1 DEF PopEmpty, Report, Rows, RowValue
    <3> QED BY <3>1 DEF Visible!Revert, Visible!Empty, Visible!Request
  <2> QED BY <1>1, <1>2, <2>1, AssignRefines, DeleteRefines, PushRefines, GrowRefines, PopRefines,
             RowRefines, Zenon DEF Next, Visible!Next
<1>3. CASE UNCHANGED vars
  BY <1>3 DEF vars, Rows, RowValue, Visible!vars
<1> QED BY <1>2, <1>3

(* Until a contract writes through a reference to a removed row, it sees   *)
(* an array of rows: a deleted row, or one that is pushed without a value, *)
(* is empty, an assignment replaces what it names and nothing else, and a  *)
(* pop or an index past an end reverts.                                    *)
THEOREM Refinement == Spec => ImplementsRowList
<1>1. Init => Inv /\ Visible!Init
  BY InvInit, InitRefines
<1>2. Inv /\ [Next]_vars => Inv'
  BY InvStep
<1>3. Inv /\ [Next]_vars => [stray' = {} => Visible!Next]_(Visible!vars)
  BY StepRefines
<1> QED BY <1>1, <1>2, <1>3, PTL DEF Spec, ImplementsRowList
=============================================================================
