---------------------------- MODULE SolidityArray ----------------------------
(***************************************************************************)
(* A dynamic array of dynamic arrays in Solidity storage, as               *)
(* src/Stele/SolidityStorage.lean reads, writes, clears, grows and shrinks *)
(* it, with the references to its rows that Stele's letStorage binds.      *)
(*                                                                         *)
(* The array owns a length slot, and each of its rows, present or not, a   *)
(* length slot and cells of its own (distinct slots hash apart).  Nothing  *)
(* wipes a slot but the operations below, so what lies past a length is    *)
(* whatever was left there, and a push makes it visible.                   *)
(***************************************************************************)
EXTENDS Integers, Sequences

CONSTANTS
  Data,      \* the values of a cell
  Zero,      \* the zero value
  MaxRows,   \* TLC's bounds on the lengths
  MaxCells,
  DanglingWrites  \* do contracts write through references to removed rows?

ASSUME DataAssumption   == Zero \in Data
ASSUME BoundsAssumption == MaxRows \in Nat /\ MaxCells \in Nat
ASSUME DanglingAssumption == DanglingWrites \in BOOLEAN

VARIABLES
  length,    \* the length slot
  slots,     \* the slots of every possible row: [len, cells]
  refs,      \* rows that local storage references name
  stray,     \* history: rows written while they were not in the array
  last       \* the last request and its outcome

vars == <<length, slots, refs, stray, last>>

RowIds  == 0..MaxRows - 1
CellIds == 0..MaxCells - 1
RowValues   == UNION {[1..n -> Data] : n \in 0..MaxCells}
ArrayValues == UNION {[1..n -> RowValues] : n \in 0..MaxRows}
RowSlots == [len : 0..MaxCells, cells : [CellIds -> Data]]
EmptyRow == [len |-> 0, cells |-> [c \in CellIds |-> Zero]]

Report(op, at, value, status) ==
  last' = [op |-> op, at |-> at, value |-> value, status |-> status]

Init ==
  /\ length = 0
  /\ slots = [i \in RowIds |-> EmptyRow]
  /\ refs = {} /\ stray = {}
  /\ last = [op |-> "none", at |-> <<>>, value |-> <<>>, status |-> "ok"]

(***************************************************************************)
(* Clearing, writing and reading one row.                                  *)
(***************************************************************************)
(* Fault: only the length goes.                                            *)
ForgottenRow(r) == [r EXCEPT !.len = 0]

(* solidityClearStorage?: the cells up to the length, then the length.     *)
ClearedRow(r) ==
  [len |-> 0, cells |-> [c \in CellIds |-> IF c < r.len THEN Zero ELSE r.cells[c]]]

(* solidityWriteStorage?: clear first, then write the cells and the length.*)
WrittenRow(r, value) ==
  [len   |-> Len(value),
   cells |-> [c \in CellIds |-> IF c < Len(value) THEN value[c + 1]
                                ELSE ClearedRow(r).cells[c]]]

PushedRow(r, x) == [len |-> r.len + 1, cells |-> [r.cells EXCEPT ![r.len] = x]]
GrownRow(r)     == [r EXCEPT !.len = @ + 1]
PoppedRow(r)    == [len |-> r.len - 1, cells |-> [r.cells EXCEPT ![r.len - 1] = Zero]]

(* solidityReadStorage?                                                    *)
RowValue(r) == [k \in 1..r.len |-> r.cells[k - 1]]

(***************************************************************************)
(* The array itself.                                                       *)
(***************************************************************************)
(* Fault: a new value is written over the old one.                         *)
UnclearedRows(s) == s

ClearedRows(s) ==
  [i \in RowIds |-> IF i < length THEN ClearedRow(s[i]) ELSE s[i]]

Assign(value) ==
  LET cleared == ClearedRows(slots)
  IN  /\ slots' = [i \in RowIds |-> IF i < Len(value)
                                    THEN WrittenRow(cleared[i], value[i + 1])
                                    ELSE cleared[i]]
      /\ length' = Len(value)
      /\ Report("assign", <<>>, value, "ok")
      /\ UNCHANGED <<refs, stray>>

Delete ==
  /\ slots' = ClearedRows(slots)
  /\ length' = 0
  /\ Report("delete", <<>>, <<>>, "ok")
  /\ UNCHANGED <<refs, stray>>

(* push(value) sets the length first and then writes the new last row.     *)
Push(value) ==
  /\ length < MaxRows
  /\ length' = length + 1
  /\ slots' = [slots EXCEPT ![length] = WrittenRow(@, value)]
  /\ Report("push", <<>>, <<value>>, "ok")
  /\ UNCHANGED <<refs, stray>>

(* push() sets the length.                                                 *)
Grow ==
  /\ length < MaxRows
  /\ length' = length + 1
  /\ Report("grow", <<>>, <<>>, "ok")
  /\ UNCHANGED <<slots, refs, stray>>

(* Fault: pop shortens the array and leaves the row.                       *)
KeptSlots(i) == slots

PoppedSlots(i) == [slots EXCEPT ![i] = ClearedRow(@)]

(* Fault: popping does not look at the length.                             *)
UncheckedPop ==
  /\ slots' = PoppedSlots(length - 1)
  /\ length' = length - 1
  /\ Report("pop", <<>>, <<>>, "ok")
  /\ UNCHANGED <<refs, stray>>

Pop ==
  /\ length > 0
  /\ slots' = PoppedSlots(length - 1)
  /\ length' = length - 1
  /\ Report("pop", <<>>, <<>>, "ok")
  /\ UNCHANGED <<refs, stray>>

PopEmpty ==
  /\ length = 0
  /\ Report("pop", <<>>, <<>>, "revert")
  /\ UNCHANGED <<length, slots, refs, stray>>

(***************************************************************************)
(* One row.  An index is checked against the length; a reference was       *)
(* checked when it was bound, and is not checked again.                    *)
(***************************************************************************)
(* letStorage                                                              *)
Bind(i) ==
  /\ i < length
  /\ refs' = refs \cup {i}
  /\ UNCHANGED <<length, slots, stray, last>>

Reaches(i) == i < length \/ (DanglingWrites /\ i \in refs)

Rewrite(i, row, op, at, value) ==
  /\ slots' = [slots EXCEPT ![i] = row]
  /\ stray' = IF i < length THEN stray ELSE stray \cup {i}
  /\ Report(op, at, value, "ok")
  /\ UNCHANGED <<length, refs>>

AssignRow(i, value) ==
  /\ Reaches(i)
  /\ Rewrite(i, WrittenRow(slots[i], value), "assignRow", <<i>>, <<value>>)

DeleteRow(i) ==
  /\ Reaches(i)
  /\ Rewrite(i, ClearedRow(slots[i]), "assignRow", <<i>>, << <<>> >>)

PushCell(i, x) ==
  /\ Reaches(i) /\ slots[i].len < MaxCells
  /\ Rewrite(i, PushedRow(slots[i], x), "pushCell", <<i>>, << <<x>> >>)

GrowCells(i) ==
  /\ Reaches(i) /\ slots[i].len < MaxCells
  /\ Rewrite(i, GrownRow(slots[i]), "growCells", <<i>>, <<>>)

PopCell(i) ==
  /\ Reaches(i) /\ slots[i].len > 0
  /\ Rewrite(i, PoppedRow(slots[i]), "popCell", <<i>>, <<>>)

AssignCell(i, j, x) ==
  /\ Reaches(i) /\ j < slots[i].len
  /\ Rewrite(i, [slots[i] EXCEPT !.cells[j] = x], "assignCell", <<i, j>>, << <<x>> >>)

(* Popping an empty row, or an index past an end.                          *)
RowRevert(i, op, at) ==
  /\ \/ i >= length
     \/ Reaches(i) /\ op = "popCell" /\ slots[i].len = 0
     \/ Reaches(i) /\ op = "assignCell" /\ at[2] >= slots[i].len
  /\ Report(op, at, <<>>, "revert")
  /\ UNCHANGED <<length, slots, refs, stray>>

RowNext(i) ==
  \/ Bind(i)
  \/ \E value \in RowValues : AssignRow(i, value)
  \/ DeleteRow(i)
  \/ \E x \in Data : PushCell(i, x)
  \/ GrowCells(i)
  \/ PopCell(i) \/ RowRevert(i, "popCell", <<i>>)
  \/ \E j \in CellIds, x \in Data : AssignCell(i, j, x)
  \/ \E j \in CellIds : RowRevert(i, "assignCell", <<i, j>>)

Next ==
  \/ \E value \in ArrayValues : Assign(value)
  \/ Delete
  \/ \E value \in RowValues : Push(value)
  \/ Grow
  \/ Pop \/ PopEmpty
  \/ \E i \in RowIds : RowNext(i)

Spec == Init /\ [][Next]_vars

(***************************************************************************)
(* Properties.                                                             *)
(***************************************************************************)
(* Lengths stay within the bounds: no pop takes one below zero.            *)
TypeOK ==
  /\ length \in 0..MaxRows
  /\ slots \in [RowIds -> RowSlots]
  /\ refs \in SUBSET RowIds /\ stray \in SUBSET RowIds

(* No operation, through a dangling reference or not, leaves data behind   *)
(* the end of a row, where a push of that row would find it.               *)
NoHiddenCells ==
  \A i \in RowIds, c \in CellIds : c >= slots[i].len => slots[i].cells[c] = Zero

(* A row past the end of the array holds something only if it was written  *)
(* through a reference that outlived it.                                   *)
ResidueOnlyByDangling ==
  \A i \in RowIds : i >= length /\ i \notin stray => slots[i].len = 0

(* Valueless push as Syntax/Basic.lean:304-305 describes it: grow-only,    *)
(* the new slots are zero.                                                 *)
GrownRowIsZero == [][Grow => RowValue(slots[length]) = <<>>]_vars

(* Until the first write through a reference that outlived its row, a       *)
(* contract sees an array of arrays: what the slots hide is unobservable.   *)
Rows == [k \in 1..length |-> RowValue(slots[k - 1])]
Visible == INSTANCE RowList WITH rows <- Rows
ImplementsRowList ==
  Visible!Init /\ [][stray' = {} => Visible!Next]_(Visible!vars)
==============================================================================
