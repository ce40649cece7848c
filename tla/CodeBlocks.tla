------------------------------ MODULE CodeBlocks ------------------------------
(***************************************************************************)
(* How generate_unit_records of src/scripts/generate_rd_blocks.py cuts a   *)
(* code into the pieces it states theorems about: basic blocks, split at   *)
(* instructions without a stepper and at a maximal length, but not inside  *)
(* a full copy of returned data.  A proof about the code chains these      *)
(* theorems along an execution, which the model runs after the generator.  *)
(***************************************************************************)
EXTENDS Bytecode, FiniteSetsExt

CONSTANTS
  Codes,       \* the codes given to the generator
  Options,     \* records [keepMetadata, failOnUnsupported, maxInstructions]
  Supported    \* the opcodes with an RD stepper

ASSUME OptionsAssumption == \A o \in Options : o.maxInstructions \in Nat \ {0}

VARIABLES
  code,      \* the code
  opts,      \* the command line
  phase,     \* "blocks", "pieces", "running", "halted" or "error"
  instructions,   \* what the generator takes for executable, disassembled
  todo,      \* instructions not yet put into a block
  current,   \* the block being collected
  found,     \* the finished blocks, cut from the front by the next phase
  run,       \* the supported run being cut
  units,     \* the pieces with theorems, and the unsupported boundaries
  pc         \* where an execution of the code is

vars == <<code, opts, instructions, phase, todo, current, found, run, units, pc>>

Analyzed == IF opts.keepMetadata THEN code ELSE StripMetadata(code)

IsSupported(ins) == ins.complete /\ ins.opcode \in Supported

Init ==
  /\ code \in Codes /\ opts \in Options
  /\ instructions = Disassemble(Analyzed)
  /\ todo = instructions
  /\ current = <<>> /\ found = <<>> /\ run = <<>> /\ units = <<>> /\ pc = 0
  /\ phase = IF opts.failOnUnsupported
                /\ \E k \in DOMAIN todo : ~IsSupported(todo[k])
             THEN "error" ELSE "blocks"

-----------------------------------------------------------------------------
(* blocks *)

(* Fault: what is jumped to does not begin a block.                        *)
SequentialStart(k) ==
  k = 1 \/ instructions[k - 1].opcode \in TERMINATORS

(* A block begins at the front, at a JUMPDEST and after a terminator.      *)
StartsBlock(k) ==
  \/ k = 1
  \/ instructions[k].opcode = JUMPDEST
  \/ instructions[k - 1].opcode \in TERMINATORS

(* Fault: a block that ends with the code is dropped.                      *)
DropOpenBlock(blocks, block) == blocks
CloseBlock(blocks, block) == IF block = <<>> THEN blocks ELSE Append(blocks, block)

TakeInstruction ==
  /\ phase = "blocks" /\ todo # <<>>
  /\ LET ins   == Head(todo)
         split == StartsBlock(Len(instructions) - Len(todo) + 1)
         block == Append(IF split THEN <<>> ELSE current, ins)
         done  == IF split THEN CloseBlock(found, current) ELSE found
     IN IF ins.opcode \in TERMINATORS
        THEN found' = Append(done, block) /\ current' = <<>>
        ELSE found' = done /\ current' = block
  /\ todo' = Tail(todo)
  /\ UNCHANGED <<code, opts, instructions, phase, run, units, pc>>

EndOfCode ==
  /\ phase = "blocks" /\ todo = <<>>
  /\ found' = CloseBlock(found, current)
  /\ current' = <<>>
  /\ phase' = "pieces"
  /\ UNCHANGED <<code, opts, instructions, todo, run, units, pc>>

-----------------------------------------------------------------------------
(* supported_segments and bounded_supported_segments *)

Rest(seq, n) == SubSeq(seq, n + 1, Len(seq))

(* How many instructions at the front of the block are supported.          *)
SupportedPrefix(block) ==
  Max({n \in 0..Len(block) : \A k \in 1..n : IsSupported(block[k])})

(* What follows of the blocks once n instructions of the first are taken.  *)
AfterTaking(n) ==
  IF n = Len(Head(found)) THEN Tail(found)
  ELSE <<Rest(Head(found), n)>> \o Tail(found)

NextRun ==
  /\ phase = "pieces" /\ run = <<>> /\ found # <<>>
  /\ LET n == SupportedPrefix(Head(found)) IN
     /\ n > 0
     /\ run' = SubSeq(Head(found), 1, n)
     /\ found' = AfterTaking(n)
  /\ UNCHANGED <<code, opts, instructions, phase, todo, current, units, pc>>

(* An instruction without a stepper only leaves a comment.                 *)
UnsupportedBoundary ==
  /\ phase = "pieces" /\ run = <<>> /\ found # <<>>
  /\ SupportedPrefix(Head(found)) = 0
  /\ units' = Append(units, [instructions |-> <<Head(Head(found))>>,
                             theorems |-> {}])
  /\ found' = AfterTaking(1)
  /\ UNCHANGED <<code, opts, instructions, phase, todo, current, run, pc>>

(* Fault: a copy whose last instruction is just cut off is overlooked.     *)
LateCrossing(seq, end) ==
  {s \in 1..end : MatchReturnDataCopyFull(seq, s) /\ s + 2 > end}
Crossing(seq, end) ==
  {s \in 1..end : MatchReturnDataCopyFull(seq, s) /\ s + 3 > end}

(* Where the next piece of the run ends.                                   *)
PieceEnd(seq, max) ==
  LET end == IF Len(seq) < max THEN Len(seq) ELSE max
      cut == IF end < Len(seq) /\ Crossing(seq, end) # {}
             THEN Min(Crossing(seq, end)) - 1 ELSE end
  IN IF cut > 0 THEN cut
     ELSE IF MatchReturnDataCopyFull(seq, 1) THEN 4 ELSE max

Branches(piece) ==
  IF piece[Len(piece)].opcode = JUMPI THEN {"taken", "fallthrough"} ELSE {"none"}
Terminal(piece) == piece[Len(piece)].opcode \in {STOP, RETURN, REVERT, INVALID}

(* The theorems of a piece: one for each way out, with a packed sibling    *)
(* unless the piece halts.                                                 *)
Theorems(piece) ==
  {[pc |-> piece[1].pc, branch |-> b, packed |-> packed] :
     b \in Branches(piece), packed \in IF Terminal(piece) THEN {FALSE} ELSE BOOLEAN}

CutPiece ==
  /\ phase = "pieces" /\ run # <<>>
  /\ LET end   == PieceEnd(run, opts.maxInstructions)
         piece == SubSeq(run, 1, end)
     IN /\ units' = Append(units, [instructions |-> piece,
                                   theorems |-> Theorems(piece)])
        /\ run' = Rest(run, end)
  /\ UNCHANGED <<code, opts, instructions, phase, todo, current, found, pc>>

Generated ==
  /\ phase = "pieces" /\ run = <<>> /\ found = <<>>
  /\ phase' = "running"
  /\ UNCHANGED <<code, opts, instructions, todo, current, found, run, units, pc>>

-----------------------------------------------------------------------------
(* An execution of the whole code, metadata included.                      *)

At(p) == Decode(code, p)

FlowsTo(p) ==
  LET next == {p + At(p).size} IN
  CASE At(p).opcode = JUMP  -> JumpDests(code)
    [] At(p).opcode = JUMPI -> JumpDests(code) \cup next
    [] At(p).opcode \in TERMINATORS \ {JUMP, JUMPI} -> {}
    [] OTHER -> next

Execute ==
  /\ phase = "running" /\ pc < Len(code)
  /\ pc' \in FlowsTo(pc)
  /\ UNCHANGED <<code, opts, instructions, phase, todo, current, found, run, units>>

ExecutionEnds ==
  /\ phase = "running"
  /\ pc < Len(code) => FlowsTo(pc) = {}
  /\ phase' = "halted"
  /\ UNCHANGED <<code, opts, instructions, todo, current, found, run, units, pc>>

Next ==
  \/ TakeInstruction \/ EndOfCode
  \/ NextRun \/ UnsupportedBoundary \/ CutPiece \/ Generated
  \/ Execute \/ ExecutionEnds

Spec == Init /\ [][Next]_vars

-----------------------------------------------------------------------------
(* Properties.                                                             *)

Joined(parts) ==
  LET upto[n \in 0..Len(parts)] ==
        IF n = 0 THEN <<>> ELSE upto[n - 1] \o parts[n]
  IN upto[Len(parts)]

Pieces == [n \in DOMAIN units |-> units[n].instructions]

(* No instruction of the analysed code is lost, repeated or moved on the   *)
(* way into blocks, runs and pieces.                                       *)
NothingLost ==
  phase # "error" =>
    Joined(Pieces) \o run \o Joined(found) \o current \o todo = instructions

(* The bounds check of a full copy is discharged by the three instructions *)
(* before it, so no piece may separate them; nothing else makes a piece    *)
(* longer than asked for.                                                  *)
FullCopiesWhole ==
  phase \in {"running", "halted"} =>
    /\ \A n \in DOMAIN units :
         \/ Len(Pieces[n]) <= opts.maxInstructions
         \/ Len(Pieces[n]) = 4 /\ MatchReturnDataCopyFull(Pieces[n], 1)
    /\ \A s \in DOMAIN instructions :
         (/\ MatchReturnDataCopyFull(instructions, s)
          /\ \A k \in s..s + 3 : IsSupported(instructions[k]))
         => \E n \in DOMAIN units : \E j \in DOMAIN Pieces[n] :
              Pieces[n][j] = instructions[s] /\ MatchReturnDataCopyFull(Pieces[n], j)

(* The theorem that carries an execution from the end of a piece to p.     *)
WayOut(u, p) ==
  LET last == u.instructions[Len(u.instructions)] IN
  \E t \in u.theorems :
    t.branch = CASE last.opcode # JUMPI         -> "none"
                 [] p = last.pc + last.size     -> "fallthrough"
                 [] OTHER                       -> "taken"

(* An execution comes to the middle of a piece only from the instruction   *)
(* before it, and leaves a supported piece only from its last one and by a *)
(* way it has a theorem for: wherever control goes, a piece begins (or the *)
(* metadata does), so the theorems can be chained.                         *)
TheoremsChain ==
  [][pc' # pc =>
       \/ pc >= Len(Analyzed)
       \/ \E n \in DOMAIN units : \E k \in 1..Len(Pieces[n]) - 1 :
            Pieces[n][k].pc = pc /\ Pieces[n][k + 1].pc = pc'
       \/ /\ pc' < Len(Analyzed) => \E n \in DOMAIN units : Pieces[n][1].pc = pc'
          /\ \E n \in DOMAIN units :
               /\ Pieces[n][Len(Pieces[n])].pc = pc
               /\ IsSupported(Pieces[n][1]) => WayOut(units[n], pc')
    ]_vars

=============================================================================
