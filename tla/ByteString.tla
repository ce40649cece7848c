----------------------------- MODULE ByteString -----------------------------
(***************************************************************************)
(* What a contract sees of one storage variable of type bytes or string:   *)
(* a byte array that is read, measured, assigned, indexed, grown, shrunk   *)
(* and deleted.  Nothing here says how the array is laid out in slots.     *)
(*                                                                         *)
(* The variable may also hold no byte array at all (valid is FALSE): the   *)
(* account's storage was written by other code and its length header       *)
(* cannot be decoded.  Every operation then reverts and the variable stays *)
(* as it is.                                                               *)
(***************************************************************************)
EXTENDS Integers, Sequences

CONSTANTS
  Byte,     \* the values of one byte
  Zero,     \* the zero byte
  MaxLen    \* TLC's bound on the length of a byte array


VARIABLES
  str,      \* the variable: [valid, bytes]
  result    \* the outcome of the last operation

vars == <<str, result>>

(* The byte arrays a program can write: every one up to the bound.         *)
ByteArrays == UNION {[1..n -> Byte] : n \in 0..MaxLen}

Holds(s) == [valid |-> TRUE, bytes |-> s]
Corrupted == [valid |-> FALSE, bytes |-> <<>>]

(* The indices a program may use; -1 and MaxLen are never in bounds.        *)
Indices == -1..MaxLen

Operations == {"read", "length", "write", "push", "pop", "delete", "index"}

(* The outcome of an operation: what it was, whether it went through, the  *)
(* bytes it returned and the number it returned (or was given).            *)
Outcome(op, status, bytes, num) ==
  [op |-> op, status |-> status, bytes |-> bytes, num |-> num]
Done(op)       == Outcome(op, "ok", <<>>, 0)
Returned(op,s) == Outcome(op, "ok", s, 0)
Counted(n)     == Outcome("length", "ok", <<>>, n)
Reverted(op,i) == Outcome(op, "revert", <<>>, i)

-----------------------------------------------------------------------------

Init ==
  /\ str \in {Holds(s) : s \in ByteArrays} \cup {Corrupted}
  /\ result = Done("delete")

Read == /\ str.valid
        /\ result' = Returned("read", str.bytes)
        /\ UNCHANGED str

Length == /\ str.valid
          /\ result' = Counted(Len(str.bytes))
          /\ UNCHANGED str

Become(op, s) == /\ str.valid
                 /\ str' = Holds(s)
                 /\ result' = Done(op)

Write(s) == Become("write", s)
Delete   == Become("delete", <<>>)

Push(b) == /\ Len(str.bytes) < MaxLen
           /\ Become("push", Append(str.bytes, b))

Pop == /\ Len(str.bytes) > 0
       /\ Become("pop", SubSeq(str.bytes, 1, Len(str.bytes) - 1))

(* Byte i, counted from zero as the program does.                          *)
GetByte(i) == /\ str.valid
              /\ 0 <= i /\ i < Len(str.bytes)
              /\ result' = Returned("index", <<str.bytes[i + 1]>>)
              /\ UNCHANGED str

SetByte(i, b) == /\ 0 <= i /\ i < Len(str.bytes)
                 /\ Become("index", [str.bytes EXCEPT ![i + 1] = b])

(* An operation reverts, and changes nothing, in three cases only: a pop   *)
(* of an empty array, an index out of bounds, and a variable that holds no *)
(* byte array.                                                             *)
Revert ==
  /\ UNCHANGED str
  /\ \/ \E op \in Operations \ {"index"} : ~str.valid /\ result' = Reverted(op, 0)
     \/ str.bytes = <<>> /\ result' = Reverted("pop", 0)
     \/ \E i \in Indices : /\ ~str.valid \/ i < 0 \/ i >= Len(str.bytes)
                           /\ result' = Reverted("index", i)

Next ==
  \/ Read \/ Length \/ Pop \/ Delete \/ Revert
  \/ \E s \in ByteArrays : Write(s)
  \/ \E b \in Byte : Push(b)
  \/ \E i \in Indices : GetByte(i) \/ \E b \in Byte : SetByte(i, b)

Spec == Init /\ [][Next]_vars
=============================================================================
