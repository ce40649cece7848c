--------------------------- MODULE MCBlockGenerator ---------------------------
(* Inputs for model checking BlockGenerator.  Codes: control flow with     *)
(* payloads, a jump destination inside one, an unsupported opcode (50) and *)
(* metadata (two length bytes behind a map marker); and returned data      *)
(* copies.  Pieces: up to MaxPiece instructions over one theme (stack and  *)
(* branches; memory; world and gas; returned data), with two inputs of     *)
(* several values each.                                                    *)
EXTENDS BlockGenerator

CONSTANTS ControlLength, CopyLength, MaxPiece

MCCodes ==
  [1..ControlLength -> {STOP, JUMP, JUMPI, JUMPDEST, PUSH1, PUSH2, 50}]
  \cup [1..CopyLength -> {RETURNDATASIZE, PUSH0, DUP1, RETURNDATACOPY}]
  \cup {c \o <<161, PUSH1, JUMPDEST, 0, 3>> :
          c \in [1..3 -> {JUMPDEST, JUMPI, PUSH1, PUSH2}]}
  \cup {<<a, RETURNDATASIZE, PUSH1, b, PUSH0, RETURNDATACOPY, c>> :
          a \in {JUMPDEST, PUSH0}, b \in {0, 1}, c \in {STOP, REVERT, 50}}

MCOptions ==
  [keepMetadata : BOOLEAN, failOnUnsupported : {FALSE}, maxInstructions : {1, 3, 5}]
  \cup [keepMetadata : {FALSE}, failOnUnsupported : {TRUE}, maxInstructions : {2}]

MCSupported ==
  {STOP, RETURNDATASIZE, RETURNDATACOPY, JUMP, JUMPI, JUMPDEST, PUSH0, PUSH1,
   PUSH2, DUP1, RETURN, REVERT, INVALID}
-----------------------------------------------------------------------------
I(op, arg) == [op |-> op, arg |-> arg]
O(op)      == I(op, 0)

Themes ==
  { {I("PUSH", 1), I("DUP", 2), I("SWAP", 1), O("SUB"), O("ISZERO"), O("POP"),
     O("JUMPI"), O("JUMP"), O("JUMPDEST")},
    {I("PUSH", 1), O("MLOAD"), O("MSTORE"), I("DUP", 1), I("SWAP", 1), O("GAS"),
     O("RETURN"), O("INVALID")},
    {O("SLOAD"), O("SSTORE"), O("TLOAD"), O("TSTORE"), O("GAS"), I("DUP", 2),
     O("LOG0"), O("STOP")},
    {O("RETURNDATASIZE"), I("PUSH", 0), I("PUSH", 1), I("DUP", 1),
     O("RETURNDATACOPY"), O("REVERT")} }

Terminators == {"STOP", "JUMP", "JUMPI", "RETURN", "REVERT", "INVALID"}

MCSummarised ==
  UNION { { p \in [1..n -> T] : \A k \in 1..n - 1 : p[k].op \notin Terminators }
          : T \in Themes, n \in 1..MaxPiece }

(* Two inputs vary, what is below them is fixed.                           *)
MCEnvs ==
  { [words |-> <<a, b, 2, 0, 1, 3, 2, 0>>, rest |-> r,
     mem |-> [k \in 0..2 * Size |-> k % 3], aw |-> 1,
     rdata |-> [k \in 0..r - 1 |-> k + 1], rdsize |-> r,
     world |-> [store \in {"storage", "transient"} |->
                  [s \in 0..Size - 1 |-> IF store = "storage" THEN s ELSE 1]],
     perm |-> p, warm |-> {1}, gas |-> 9000, used |-> 5] :
       a \in {0, 1}, b \in {0, 3}, r \in {0, 2}, p \in BOOLEAN }
===============================================================================
