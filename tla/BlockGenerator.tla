---------------------------- MODULE BlockGenerator ----------------------------
(***************************************************************************)
(* src/scripts/generate_rd_blocks.py: a code is cut into pieces            *)
(* (CodeBlocks), and every piece gets a theorem from its symbolic          *)
(* execution (BlockSummary).  All a piece hands on is its instructions, so *)
(* an execution follows either one code through the cutting and then along *)
(* its theorems, or one piece through its summary, over pieces of          *)
(* instructions where a code has bytes.                                    *)
(***************************************************************************)
EXTENDS CodeBlocks

CONSTANTS
  Size,          \* words are 0..Size-1
  ValidDests,    \* the jump destinations of the piece's program
  Summarised,    \* the pieces that are summarised
  Envs,          \* the valuations of the inputs
  StackLimit     \* the EVM's limit on the height of the stack

ASSUME SizeAssumption == Size \in Nat \ {0} /\ StackLimit \in Nat

VARIABLES piece, branch, env, at, sym, evm

Summary == INSTANCE BlockSummary

summary == <<piece, branch, env, at, sym, evm>>

NoCode ==
  /\ code = <<>> /\ opts = CHOOSE o \in Options : TRUE
  /\ phase = "halted" /\ pc = 0
  /\ instructions = <<>> /\ todo = <<>> /\ current = <<>>
  /\ found = <<>> /\ run = <<>> /\ units = <<>>
NoPiece == Summary!Starts(<<>>, CHOOSE v \in Envs : TRUE)

GeneratorInit == (Init /\ NoPiece) \/ (NoCode /\ Summary!Init)

GeneratorNext ==
  \/ Next /\ UNCHANGED summary
  \/ Summary!Next /\ UNCHANGED vars

GeneratorSpec == GeneratorInit /\ [][GeneratorNext]_<<vars, summary>>

(* A block theorem is true of every machine that meets its hypotheses      *)
(* (simulate).                                                             *)
SummarySound == Summary!SummarySound

(* It asks for nothing that an execution through the piece lacks.          *)
HypothesesExact == Summary!HypothesesExact
=============================================================================
