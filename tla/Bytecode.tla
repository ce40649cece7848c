------------------------------- MODULE Bytecode -------------------------------
(***************************************************************************)
(* What the generator scripts read off a byte array of EVM code: its       *)
(* instructions, its jump destinations, its metadata (the pure functions   *)
(* of src/scripts/generate_rd_blocks.py and src/scripts/evm_tools.py).     *)
(*                                                                         *)
(* A code is a sequence of bytes; program counters count from 0, so the    *)
(* byte at pc is code[pc + 1].                                             *)
(***************************************************************************)
EXTENDS Integers, Sequences, FiniteSets

STOP == 0
RETURNDATASIZE == 61
RETURNDATACOPY == 62
JUMP == 86
JUMPI == 87
JUMPDEST == 91
PUSH0 == 95
PUSH1 == 96
PUSH2 == 97
DUP1 == 128
RETURN == 243
REVERT == 253
INVALID == 254
SELFDESTRUCT == 255

TERMINATORS == {STOP, JUMP, JUMPI, RETURN, REVERT, INVALID, SELFDESTRUCT}

(* A push carries 1 to 32 bytes behind its opcode.                         *)
Width(op) == IF op \in 96..127 THEN op - 95 ELSE 0

(* The instruction at pc.  Of a payload we keep whether it is zero; one    *)
(* that runs past the end of the code is padded with zeros and marked.     *)
Decode(code, pc) ==
  LET op   == code[pc + 1]
      data == SubSeq(code, pc + 2,
                     IF pc + 1 + Width(op) > Len(code) THEN Len(code)
                     ELSE pc + 1 + Width(op))
  IN [pc |-> pc, opcode |-> op, size |-> Width(op) + 1,
      zero |-> \A k \in DOMAIN data : data[k] = 0,
      complete |-> Len(data) = Width(op)]

(* The instructions of the code, one after the other.                      *)
Disassemble(code) ==
  LET from[pc \in 0..Len(code)] ==
        IF pc = Len(code) THEN <<>>
        ELSE LET ins  == Decode(code, pc)
                 next == pc + ins.size
             IN <<ins>> \o IF next < Len(code) THEN from[next] ELSE <<>>
  IN from[0]

(* The second scan, of jump_dests: D_J of the EVM.                         *)
JumpDests(code) ==
  LET from[pc \in 0..Len(code)] ==
        IF pc = Len(code) THEN {}
        ELSE LET next == pc + 1 + Width(code[pc + 1])
             IN (IF code[pc + 1] = JUMPDEST THEN {pc} ELSE {})
                \cup IF next < Len(code) THEN from[next] ELSE {}
  IN from[0]

(* The last two bytes give the length of a CBOR map in front of them.      *)
StripMetadata(code) ==
  LET length == 256 * code[Len(code) - 1] + code[Len(code)]
      start  == Len(code) - length - 2
  IN IF \/ Len(code) < 3
        \/ start < 0 \/ start >= Len(code) - 2
        \/ code[start + 1] \notin 160..191
     THEN code
     ELSE SubSeq(code, 1, start)

ZeroPush(ins) ==
  ins.opcode = PUSH0 \/ (Width(ins.opcode) > 0 /\ ins.zero)

(* A copy of everything returned to address zero begins at position s.     *)
MatchReturnDataCopyFull(run, s) ==
  /\ s \in 1..Len(run) - 3
  /\ run[s].opcode = RETURNDATASIZE /\ run[s + 3].opcode = RETURNDATACOPY
  /\ ZeroPush(run[s + 1])
  /\ ZeroPush(run[s + 2]) \/ run[s + 2].opcode = DUP1
=============================================================================
