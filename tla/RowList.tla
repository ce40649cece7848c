------------------------------- MODULE RowList -------------------------------
(***************************************************************************)
(* What a contract sees of a storage array of arrays, uint[][] say: a      *)
(* sequence of rows and what each request does to it.  Requests count from *)
(* zero; the members a push adds without a value are empty or zero.        *)
(***************************************************************************)
EXTENDS Integers, Sequences

CONSTANT Zero

VARIABLES
  rows,      \* the array
  last       \* the last request and its outcome: [op, at, value, status]

vars == <<rows, last>>

Front(s) == SubSeq(s, 1, Len(s) - 1)

Request(op) == last'.op = op
Row == last'.at[1] + 1
Cell == last'.at[2] + 1
Done(after) == rows' = after /\ last'.status = "ok"

Init == rows = <<>> /\ last.op = "none"

Assign == Request("assign") /\ Done(last'.value)
Delete == Request("delete") /\ Done(<<>>)
Push   == Request("push") /\ Done(Append(rows, last'.value[1]))
Grow   == Request("grow") /\ Done(Append(rows, <<>>))
Pop    == Request("pop") /\ rows # <<>> /\ Done(Front(rows))

AssignRow == Request("assignRow") /\ Done([rows EXCEPT ![Row] = last'.value[1]])
PushCell  == Request("pushCell") /\ Done([rows EXCEPT ![Row] = @ \o last'.value[1]])
GrowCells == Request("growCells") /\ Done([rows EXCEPT ![Row] = Append(@, Zero)])
PopCell   == Request("popCell") /\ rows[Row] # <<>>
             /\ Done([rows EXCEPT ![Row] = Front(@)])
AssignCell == Request("assignCell") /\ Cell \in DOMAIN rows[Row]
              /\ Done([rows EXCEPT ![Row][Cell] = last'.value[1][1]])

RowRequest ==
  /\ last'.at # <<>> /\ Row \in DOMAIN rows
  /\ AssignRow \/ PushCell \/ GrowCells \/ PopCell \/ AssignCell

(* Popping what is empty, or reaching past an end, reverts.                *)
Empty ==
  \/ Request("pop") /\ rows = <<>>
  \/ last'.at # <<>> /\ Row \notin DOMAIN rows
  \/ Request("popCell") /\ rows[Row] = <<>>
  \/ Request("assignCell") /\ Cell \notin DOMAIN rows[Row]
Revert == Empty /\ last'.status = "revert" /\ UNCHANGED rows

Next == Assign \/ Delete \/ Push \/ Grow \/ Pop \/ RowRequest \/ Revert

Spec == Init /\ [][Next]_vars
==============================================================================
