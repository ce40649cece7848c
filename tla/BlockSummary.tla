---------------------------- MODULE BlockSummary ----------------------------
(***************************************************************************)
(* Symbolic execution of one piece of a basic block, as simulate of        *)
(* src/scripts/generate_rd_blocks.py does it to state a block theorem,     *)
(* side by side with the EVM executing the same instructions.              *)
(*                                                                         *)
(* A summary starts from named inputs (the words x on top of an unknown    *)
(* rest of the stack, the memory, the world), describes the final state by *)
(* terms over these names, and states hypotheses under which the           *)
(* description is right.  The EVM runs with one valuation env of the       *)
(* names.  The properties say that, for every valuation, the description   *)
(* is right if the hypotheses hold, and that the hypotheses ask for no     *)
(* more than the execution needs.                                          *)
(*                                                                         *)
(* Memory, returned data and storage are addressed by words 0..Size-1; one *)
(* instruction stands for each class the code treats alike (SUB for the    *)
(* binary operations, ISZERO for the unary ones, RETURNDATASIZE for the    *)
(* environment reads, SLOAD for the warm and cold accesses).               *)
(***************************************************************************)
EXTENDS Integers, Sequences, FiniteSets, TLC

CONSTANTS
  Size,        \* words are 0..Size-1
  ValidDests,  \* the valid jump destinations of the program
  Summarised,  \* the instruction sequences that are summarised
  Envs,        \* the valuations of the inputs
  StackLimit   \* the EVM's limit on the height of the stack

VARIABLES
  piece,   \* the instructions being summarised
  branch,  \* which way a final JUMPI goes: "taken", "fallthrough" or "none"
  env,     \* the valuation of the inputs the EVM starts from
  at,      \* how many instructions both sides have executed
  sym,     \* the summary so far
  evm      \* the machine

vars == <<piece, branch, env, at, sym, evm>>

Word == 0..Size - 1
Ins  == piece[at + 1]

-----------------------------------------------------------------------------
(* Stack effect of an instruction: how deep it looks, what it removes and  *)
(* what it adds (stack_shape).                                             *)
StackShape(i) ==
  CASE i.op \in {"STOP", "JUMPDEST", "INVALID"}        -> <<0, 0, 0>>
    [] i.op \in {"PUSH", "RETURNDATASIZE", "GAS"}      -> <<0, 0, 1>>
    [] i.op = "DUP"                                    -> <<i.arg, 0, 1>>
    [] i.op = "SWAP"                                   -> <<i.arg + 1, 0, 0>>
    [] i.op \in {"ISZERO", "MLOAD", "SLOAD", "TLOAD"}  -> <<1, 1, 1>>
    [] i.op \in {"POP", "JUMP"}                        -> <<1, 1, 0>>
    [] i.op = "SUB"                                    -> <<2, 2, 1>>
    [] i.op \in {"MSTORE", "SSTORE", "TSTORE", "JUMPI", "LOG0",
                 "RETURN", "REVERT"}                   -> <<2, 2, 0>>
    [] i.op = "RETURNDATACOPY"                         -> <<3, 3, 0>>

Need(i)  == StackShape(i)[1]
Rise(i)  == StackShape(i)[3] - StackShape(i)[2]

(* The height of the stack after n instructions, relative to the start.    *)
Height(p, n) ==
  LET h[k \in 0..n] == IF k = 0 THEN 0 ELSE h[k - 1] + Rise(p[k]) IN h[n]

(* How many words of the caller's stack the piece looks at.                *)
RequiredInputDepth(p) ==
  LET needs == {Need(p[k]) - Height(p, k - 1) : k \in DOMAIN p} \cup {0}
  IN CHOOSE d \in needs : \A e \in needs : e <= d

ZeroPush(i) == i.op = "PUSH" /\ i.arg = 0

(* Fault: the offset of the copy is not looked at.                         *)
LooseFullCopy(p, s) ==
  /\ s >= 1 /\ s + 3 <= Len(p)
  /\ p[s].op = "RETURNDATASIZE" /\ p[s + 3].op = "RETURNDATACOPY"
  /\ ZeroPush(p[s + 2]) \/ p[s + 2] = [op |-> "DUP", arg |-> 1]

(* A copy of all returned data to address zero of offset zero: its bounds  *)
(* check needs no hypothesis.                                              *)
MatchReturnDataCopyFull(p, s) ==
  /\ s >= 1 /\ s + 3 <= Len(p)
  /\ p[s].op = "RETURNDATASIZE" /\ p[s + 3].op = "RETURNDATACOPY"
  /\ ZeroPush(p[s + 1])
  /\ ZeroPush(p[s + 2]) \/ p[s + 2] = [op |-> "DUP", arg |-> 1]

-----------------------------------------------------------------------------
(* Gas.  A cost is a number or depends on the state.                       *)

StaticCost(i) ==
  CASE i.op \in {"DUP", "SWAP", "SUB", "ISZERO", "MLOAD", "MSTORE"} -> 3
    [] i.op = "PUSH"                        -> IF i.arg = 0 THEN 2 ELSE 3
    [] i.op \in {"POP", "RETURNDATASIZE", "GAS"}                    -> 2
    [] i.op = "JUMPDEST"                                            -> 1
    [] i.op = "JUMP"                                                -> 8
    [] i.op = "JUMPI"                                               -> 10
    [] OTHER                                                        -> 0

(* Active words of the memory after touching len words at address a, and   *)
(* what extending it costs.                                                *)
Active(aw, a, len) == IF len = 0 \/ a + len <= aw THEN aw ELSE a + len
Expansion(aw, a, len) == 3 * (Active(aw, a, len) - aw)

AccessCost == 100       \* TLOAD, TSTORE, and a warm SLOAD or SSTORE
ColdCost   == 2000      \* added to a first access

Written(m, a, w) == [m EXCEPT ![a] = w]
Copied(m, a, source, b, len) ==
  [k \in DOMAIN m |-> IF a <= k /\ k < a + len /\ (k - a) + b \in DOMAIN source
                      THEN source[(k - a) + b]
                      ELSE m[k]]

-----------------------------------------------------------------------------
(* Terms and what they stand for in a valuation v.                         *)

X(n)     == <<"x", n>>
Const(c) == <<"const", c>>

RECURSIVE Eval(_, _), EvalMem(_, _), EvalWorld(_, _), EvalActive(_, _),
          EvalCosts(_, _)

Eval(t, v) ==
  CASE t[1] = "x"       -> v.words[t[2]]
    [] t[1] = "const"   -> t[2]
    [] t[1] = "sub"     -> (Eval(t[2], v) - Eval(t[3], v)) % Size
    [] t[1] = "isZero"  -> IF Eval(t[2], v) = 0 THEN 1 ELSE 0
    [] t[1] = "memLoad" -> EvalMem(t[3], v)[Eval(t[2], v)]
    [] t[1] = "rdsize"  -> v.rdsize
    [] t[1] = "slot"    -> EvalWorld(t[3], v)[t[2]][Eval(t[4], v)]
    [] t[1] = "gas"     -> (v.gas - (v.used + EvalCosts(t[2], v) + 2)) % Size
    [] t[1] = "gasWord" -> v.gasWords[t[2]]

EvalMem(t, v) ==
  CASE t[1] = "mem"   -> v.mem
    [] t[1] = "write" -> Written(EvalMem(t[2], v), Eval(t[3], v), Eval(t[4], v))
    [] t[1] = "rcopy" -> Copied(EvalMem(t[2], v), Eval(t[3], v),
                                v.rdata, Eval(t[4], v), Eval(t[5], v))

EvalWorld(t, v) ==
  CASE t[1] = "world" -> v.world
    [] t[1] = "put"   ->
         [EvalWorld(t[3], v) EXCEPT ![t[2]][Eval(t[4], v)] = Eval(t[5], v)]

EvalActive(t, v) ==
  CASE t[1] = "aw"    -> v.aw
    [] t[1] = "touch" -> Active(EvalActive(t[2], v), Eval(t[3], v), Eval(t[4], v))

EvalCosts(costs, v) ==
  IF costs = <<>> THEN 0
  ELSE LET c == Head(costs) IN
       EvalCosts(Tail(costs), v)
       + (CASE c[1] = "lit"    -> c[2]
            [] c[1] = "expand" -> Expansion(EvalActive(c[2], v), Eval(c[3], v),
                                            Eval(c[4], v))
            [] c[1] = "copy"   -> 3 + 3 * Eval(c[2], v)
            [] c[1] = "log"    -> 375 + 8 * Eval(c[2], v))

Holds(h, v) ==
  CASE h[1] = "hcond"  -> (Eval(h[2], v) # 0) = h[3]
    [] h[1] = "hvalid" -> Eval(h[2], v) \in ValidDests
    [] h[1] = "hperm"  -> v.perm
    [] h[1] = "hguard" -> Eval(h[2], v) + Eval(h[3], v) <= v.rdsize

-----------------------------------------------------------------------------
(* The machine: an external package, as the theorems about it are used.    *)

Fault(m) == [m EXCEPT !.status = "fault"]

(* Execute one instruction with valuation v as the environment.            *)
EvmStep(m, i, v) ==
  LET s    == m.stack
      top  == SubSeq(s, 1, Need(i))
      keep == SubSeq(s, StackShape(i)[2] + 1, Len(s))
      next == [m EXCEPT !.used = @ + StaticCost(i), !.pc = @ + 1,
                        !.steps = @ + 1, !.stack = keep]
      put(w)        == [next EXCEPT !.stack = <<w>> \o keep]
      touch(n, a, len) == [n EXCEPT !.aw = Active(m.aw, a, len),
                                    !.used = @ + Expansion(m.aw, a, len)]
      access(n, slot) ==
        [n EXCEPT !.warm = @ \cup {slot},
                  !.used = @ + AccessCost + IF slot \in m.warm THEN 0 ELSE ColdCost]
      halt(n, how)  == [n EXCEPT !.status = how]
      gas           == (v.gas - (m.used + 2)) % Size
  IN IF m.status # "run" THEN m
     ELSE IF \/ Len(s) < Need(i)
             \/ Len(s) + Rise(i) > StackLimit
             \/ i.op \in {"SSTORE", "TSTORE", "LOG0"} /\ ~v.perm
             \/ i.op = "RETURNDATACOPY" /\ s[2] + s[3] > v.rdsize
             \/ i.op = "JUMP" /\ s[1] \notin ValidDests
             \/ i.op = "JUMPI" /\ s[2] # 0 /\ s[1] \notin ValidDests
     THEN Fault(m)
     ELSE CASE i.op = "PUSH"           -> put(i.arg)
            [] i.op = "DUP"            -> put(s[i.arg])
            [] i.op = "SWAP"           -> [next EXCEPT !.stack =
                                             [s EXCEPT ![1] = s[i.arg + 1],
                                                       ![i.arg + 1] = s[1]]]
            [] i.op = "SUB"            -> put((s[1] - s[2]) % Size)
            [] i.op = "ISZERO"         -> put(IF s[1] = 0 THEN 1 ELSE 0)
            [] i.op = "POP"            -> next
            [] i.op = "RETURNDATASIZE" -> put(v.rdsize)
            [] i.op = "GAS"            -> [put(gas) EXCEPT
                                             !.gasRead = Append(@, gas)]
            [] i.op = "MLOAD"          -> touch(put(m.mem[s[1]]), s[1], 1)
            [] i.op = "MSTORE"         -> touch([next EXCEPT !.mem =
                                             Written(@, s[1], s[2])], s[1], 1)
            [] i.op = "RETURNDATACOPY" ->
                 touch([next EXCEPT !.mem = Copied(@, s[1], v.rdata, s[2], s[3]),
                                    !.used = @ + 3 + 3 * s[3]], s[1], s[3])
            [] i.op = "SLOAD"          -> access(put(m.world["storage"][s[1]]), s[1])
            [] i.op = "SSTORE"         -> access([next EXCEPT
                                            !.world["storage"][s[1]] = s[2]], s[1])
            [] i.op = "TLOAD"          -> [put(m.world["transient"][s[1]])
                                             EXCEPT !.used = @ + AccessCost]
            [] i.op = "TSTORE"         -> [next EXCEPT
                                            !.world["transient"][s[1]] = s[2],
                                            !.used = @ + AccessCost]
            [] i.op = "LOG0"           -> touch([next EXCEPT
                                            !.used = @ + 375 + 8 * s[2]], s[1], s[2])
            [] i.op = "JUMPDEST"       -> next
            [] i.op = "JUMP"           -> [next EXCEPT !.pc = s[1]]
            [] i.op = "JUMPI"          -> [next EXCEPT
                                            !.pc = IF s[2] = 0 THEN @ ELSE s[1],
                                            !.way = IF s[2] = 0 THEN "fallthrough"
                                                    ELSE "taken"]
            [] i.op = "STOP"           -> halt(m, "return")
            [] i.op = "INVALID"        -> halt(m, "invalid")
            [] i.op = "REVERT"         -> halt([m EXCEPT !.window = <<s[1], s[2]>>],
                                               "revert")
            [] i.op = "RETURN"         -> halt([m EXCEPT !.window = <<s[1], s[2]>>],
                                               "return")

-----------------------------------------------------------------------------
(* The generator.                                                          *)

Starts(p, v) ==
  /\ piece = p /\ env = v
  /\ branch \in IF p # <<>> /\ p[Len(p)].op = "JUMPI" THEN {"taken", "fallthrough"}
                ELSE {"none"}
  /\ at = 0
  /\ sym = [stack |-> [n \in 1..RequiredInputDepth(p) |-> X(n)],
            mem |-> <<"mem">>, aw |-> <<"aw">>, world |-> <<"world">>,
            pc |-> Const(0), costs |-> <<>>, existential |-> FALSE,
            terminal |-> <<>>, hyps |-> {}, gasWords |-> 0,
            maxPrefix |-> RequiredInputDepth(p)]
  /\ evm = [stack |-> SubSeq(v.words, 1, RequiredInputDepth(p) + v.rest),
            mem |-> v.mem, aw |-> v.aw, world |-> v.world, pc |-> 0,
            used |-> v.used, steps |-> 0, warm |-> v.warm, status |-> "run",
            way |-> "none", window |-> <<>>, gasRead |-> <<>>]

Init ==
  \E p \in Summarised, v \in Envs :
    RequiredInputDepth(p) + v.rest <= StackLimit /\ Starts(p, v)

S(n)    == sym.stack[n]
Left(n) == SubSeq(sym.stack, n + 1, Len(sym.stack))

Tallest(tallest, stack) == IF Len(stack) > tallest THEN Len(stack) ELSE tallest

(* What every branch of the loop ends with: the cost, the program counter, *)
(* the tallest stack so far.  extra are the costs that are not static.     *)
Advance(next, extra, dest) ==
  /\ sym' = [next EXCEPT
       !.costs = @ \o extra \o <<<<"lit", StaticCost(Ins)>>>>,
       !.pc = dest,
       !.maxPrefix = Tallest(@, next.stack)]
  /\ evm' = EvmStep(evm, Ins, env)
  /\ at' = at + 1
  /\ UNCHANGED <<piece, branch, env>>

Following == Const(at + 1)
Executing(op) ==
  /\ at < Len(piece) /\ sym.terminal = <<>>
  /\ Ins.op = op /\ Len(sym.stack) >= Need(Ins)

(* A hypothesis of the enclosing theorem; a repeated one is shared.        *)
Require(s, h) == [s EXCEPT !.hyps = @ \cup {h}]

Push ==
  /\ Executing("PUSH")
  /\ Advance([sym EXCEPT !.stack = <<Const(Ins.arg)>> \o @], <<>>, Following)

Dup ==
  /\ Executing("DUP")
  /\ Advance([sym EXCEPT !.stack = <<S(Ins.arg)>> \o @], <<>>, Following)

Swap ==
  /\ Executing("SWAP")
  /\ Advance([sym EXCEPT !.stack[1] = S(Ins.arg + 1), !.stack[Ins.arg + 1] = S(1)],
             <<>>, Following)

BinaryTerm(a, b) == <<"sub", a, b>>

Binary ==
  /\ Executing("SUB")
  /\ Advance([sym EXCEPT !.stack = <<BinaryTerm(S(1), S(2))>> \o Left(2)],
             <<>>, Following)

Unary ==
  /\ Executing("ISZERO")
  /\ Advance([sym EXCEPT !.stack = <<<<"isZero", S(1)>>>> \o Left(1)],
             <<>>, Following)

Pop ==
  /\ Executing("POP")
  /\ Advance([sym EXCEPT !.stack = Left(1)], <<>>, Following)

EnvironmentRead ==
  /\ Executing("RETURNDATASIZE")
  /\ Advance([sym EXCEPT !.stack = <<<<"rdsize">>>> \o @], <<>>, Following)

One == Const(1)     \* a word, the unit of memory here

(* The load is a term over the memory as it is now.                        *)
MemoryLoad ==
  /\ Executing("MLOAD")
  /\ Advance([sym EXCEPT !.stack = <<<<"memLoad", S(1), sym.mem>>>> \o Left(1),
                         !.aw = <<"touch", @, S(1), One>>],
             <<<<"expand", sym.aw, S(1), One>>>>, Following)

MemoryStore ==
  /\ Executing("MSTORE")
  /\ Advance([sym EXCEPT !.stack = Left(2),
                         !.mem = <<"write", @, S(1), S(2)>>,
                         !.aw = <<"touch", @, S(1), One>>],
             <<<<"expand", sym.aw, S(1), One>>>>, Following)

FullCopies == {s \in DOMAIN piece : MatchReturnDataCopyFull(piece, s)}

ReturnDataCopy ==
  /\ Executing("RETURNDATACOPY")
  /\ LET copied == [sym EXCEPT !.stack = Left(3),
                               !.mem = <<"rcopy", @, S(1), S(2), S(3)>>,
                               !.aw = <<"touch", @, S(1), S(3)>>]
     IN Advance(IF at + 1 - 3 \in FullCopies THEN copied
                ELSE Require(copied, <<"hguard", S(2), S(3)>>),
                <<<<"expand", sym.aw, S(1), S(3)>>, <<"copy", S(3)>>>>, Following)

(* What a warm or cold access costs is not known statically.               *)
UnknownCost(s) == [s EXCEPT !.existential = TRUE]

StorageLoad ==
  /\ Executing("SLOAD")
  /\ Advance(UnknownCost([sym EXCEPT
               !.stack = <<<<"slot", "storage", sym.world, S(1)>>>> \o Left(1)]),
             <<>>, Following)

StorageStore ==
  /\ Executing("SSTORE")
  /\ Advance(UnknownCost(Require(
               [sym EXCEPT !.stack = Left(2),
                           !.world = <<"put", "storage", @, S(1), S(2)>>],
               <<"hperm">>)),
             <<>>, Following)

TransientLoad ==
  /\ Executing("TLOAD")
  /\ Advance([sym EXCEPT
               !.stack = <<<<"slot", "transient", sym.world, S(1)>>>> \o Left(1)],
             <<<<"lit", AccessCost>>>>, Following)

TransientStore ==
  /\ Executing("TSTORE")
  /\ Advance(Require([sym EXCEPT !.stack = Left(2),
                                 !.world = <<"put", "transient", @, S(1), S(2)>>],
                     <<"hperm">>),
             <<<<"lit", AccessCost>>>>, Following)

Log ==
  /\ Executing("LOG0")
  /\ Advance(Require([sym EXCEPT !.stack = Left(2),
                                 !.aw = <<"touch", @, S(1), S(2)>>], <<"hperm">>),
             <<<<"expand", sym.aw, S(1), S(2)>>, <<"log", S(2)>>>>, Following)

(* The gas left is known from the counters, or it is a new unknown word.   *)
GasRead ==
  /\ Executing("GAS")
  /\ IF sym.existential
     THEN Advance([sym EXCEPT !.gasWords = @ + 1,
                     !.stack = <<<<"gasWord", Len(evm.gasRead) + 1>>>> \o @],
                  <<>>, Following)
     ELSE Advance([sym EXCEPT !.stack = <<<<"gas", sym.costs>>>> \o @],
                  <<>>, Following)

JumpDest ==
  /\ Executing("JUMPDEST")
  /\ Advance(sym, <<>>, Following)

Jump ==
  /\ Executing("JUMP")
  /\ Advance(Require([sym EXCEPT !.stack = Left(1)], <<"hvalid", S(1)>>), <<>>, S(1))

(* Fault: the destination is required to be valid on both branches.        *)
CautiousBranch(s, dest, cond) ==
  Require(Require(s, <<"hcond", cond, branch = "taken">>), <<"hvalid", dest>>)

Branched(s, dest, cond) ==
  LET decided == Require(s, <<"hcond", cond, branch = "taken">>)
  IN IF branch = "taken" THEN Require(decided, <<"hvalid", dest>>) ELSE decided

JumpIf ==
  /\ Executing("JUMPI")
  /\ Advance(Branched([sym EXCEPT !.stack = Left(2)], S(1), S(2)), <<>>,
             IF branch = "taken" THEN S(1) ELSE Following)

(* A halting instruction leaves the loop: the theorem states how it ends.  *)
Terminate(terminal) ==
  /\ sym' = [sym EXCEPT !.terminal = terminal, !.stack = Left(Need(Ins))]
  /\ evm' = EvmStep(evm, Ins, env)
  /\ at' = at + 1
  /\ UNCHANGED <<piece, branch, env>>

Halt ==
  \/ Executing("STOP") /\ Terminate(<<"return">>)
  \/ Executing("INVALID") /\ Terminate(<<"invalid">>)
  \/ Executing("RETURN") /\ Terminate(<<"return", S(1), S(2)>>)
  \/ Executing("REVERT") /\ Terminate(<<"revert", S(1), S(2)>>)

Next ==
  \/ Push \/ Dup \/ Swap \/ Binary \/ Unary \/ Pop \/ EnvironmentRead
  \/ MemoryLoad \/ MemoryStore \/ ReturnDataCopy
  \/ StorageLoad \/ StorageStore \/ TransientLoad \/ TransientStore
  \/ Log \/ GasRead \/ JumpDest \/ Jump \/ JumpIf \/ Halt

Spec == Init /\ [][Next]_vars

-----------------------------------------------------------------------------
(* Properties.                                                             *)

(* The valuation of all names, the unknown gas words included.             *)
Valuation == env @@ [gasWords |-> evm.gasRead]

(* The stack assumption is left out when every instruction is INVALID.     *)
Hypotheses ==
  /\ \A h \in sym.hyps : Holds(h, Valuation)
  /\ \/ env.rest + sym.maxPrefix <= StackLimit
     \/ \A k \in 1..at : piece[k].op = "INVALID"

(* The generator names enough of the stack never to reach below its inputs *)
(* (required_input_depth), and the theorem it states is true: under its    *)
(* hypotheses the machine does not fail, and stack, memory, active words,  *)
(* world, program counter and (unless they are existential) counters are   *)
(* what the terms say, whatever was loaded, overwritten or spent before.   *)
SummarySound ==
  /\ at < Len(piece) /\ sym.terminal = <<>> => Len(sym.stack) >= Need(Ins)
  /\ Hypotheses =>
    /\ evm.status = IF sym.terminal = <<>> THEN "run" ELSE sym.terminal[1]
    /\ sym.terminal = <<>> =>
         /\ evm.stack = [n \in DOMAIN sym.stack |-> Eval(S(n), Valuation)]
                        \o SubSeq(env.words, RequiredInputDepth(piece) + 1,
                                  RequiredInputDepth(piece) + env.rest)
         /\ evm.pc = Eval(sym.pc, Valuation)
         /\ ~sym.existential =>
              evm.used = env.used + EvalCosts(sym.costs, Valuation)
    /\ evm.mem = EvalMem(sym.mem, Valuation)
    /\ evm.aw = EvalActive(sym.aw, Valuation)
    /\ evm.world = EvalWorld(sym.world, Valuation)
    /\ Len(sym.terminal) = 3 =>
         evm.window = <<Eval(sym.terminal[2], Valuation),
                        Eval(sym.terminal[3], Valuation)>>

(* The hypotheses are not stronger than the execution needs: a machine     *)
(* that gets through the piece the way the theorem is about satisfies      *)
(* them, so chaining summaries never loses an execution.                   *)
HypothesesExact ==
  evm.status # "fault" /\ evm.way \in {"none", branch} => Hypotheses
=============================================================================
