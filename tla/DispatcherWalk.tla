----------------------------- MODULE DispatcherWalk -----------------------------
(***************************************************************************)
(* src/scripts/proof_skeleton.py, class Dispatcher and class ProofGen: the *)
(* lemmas about a contract's dispatcher.  A lemma speaks of all messages   *)
(* of a kind (those with one selector, those with value, short ones, those *)
(* whose selector matches nothing); the generator follows the code with    *)
(* symbols for what is not known of them and writes down the pieces of     *)
(* code and the branches of the path it finds.  On a comparison of an      *)
(* unknown selector it follows both branches.                              *)
(*                                                                         *)
(* Programs are pieces of code, numbered in their order; a jump goes to a  *)
(* piece.                                                                  *)
(***************************************************************************)
EXTENDS Naturals, Sequences, FiniteSets, SequencesExt

CONSTANTS
  Codes,         \* programs: [pieces (sequences of instructions), table (the
                 \* selectors of the transitions), simple (no fallback)]
  Selectors,     \* all selectors
  Limit          \* the number of pieces on a path

ASSUME LimitAssumption == Limit \in Nat \ {0}

VARIABLES
  code,
  arms,          \* the arms found in it: [selector, op, target]
  goals,         \* lemmas to be written
  goal,          \* the one that is being written: [kind, env, stop]
  guard,         \* the global guard, once it is decided
  todo,          \* paths still to be followed, each by its decisions
  decided,       \* the decisions of this path
  given,         \* what is left of them
  walk,          \* [pc, stack, steps]
  leaves,        \* paths of the lemma that are finished
  lemmas         \* lemmas written: [goal, proved, leaves]

vars == <<code, arms, goals, goal, guard, todo, decided, given, walk, leaves, lemmas>>

-----------------------------------------------------------------------------
(* Values.  wei says whether the value is computed from the message's      *)
(* value inside the piece.                                                 *)
Num(n)  == [is |-> "int", n |-> n, wei |-> FALSE]
Sym(s)  == [is |-> s, n |-> 0, wei |-> FALSE]
Unknown == Sym("unk")
IsNum(v) == v.is = "int"
Bit(b)  == Num(IF b THEN 1 ELSE 0)
Same(a, b) == a.is = b.is /\ a.n = b.n

Compared(op, m, n) == CASE op = "eq" -> m = n [] op = "lt" -> m < n [] op = "gt" -> m > n

Error == Sym("error")

(* Calldata that is at least four bytes long, or shorter, against a        *)
(* number.                                                                 *)
BigSize(op, y, swapped) ==
  CASE op = "eq" -> IF y < 4 THEN Bit(FALSE) ELSE Error
    [] op \in {"lt", "gt"} -> Bit((op = "gt") # swapped)
SmallSize(op, swapped) ==
  IF op = "eq" THEN Bit(FALSE) ELSE Bit((op = "lt") # swapped)

Unmatched(op) == IF op = "eq" THEN Bit(FALSE) ELSE Sym("pivot")

(* Dispatcher.compare                                                      *)
Compare(op, a, b, env) ==
  IF IsNum(a) /\ IsNum(b) THEN Bit(Compared(op, a.n, b.n))
  ELSE IF {a.is, b.is} \cap {"cdw", "unk", "cvnz"} # {} THEN Error
  ELSE IF a.is = "big" /\ IsNum(b) /\ b.n <= 4 THEN BigSize(op, b.n, FALSE)
  ELSE IF b.is = "big" /\ IsNum(a) /\ a.n <= 4 THEN BigSize(op, a.n, TRUE)
  ELSE IF a.is = "small" /\ IsNum(b) /\ b.n = 4 THEN SmallSize(op, FALSE)
  ELSE IF b.is = "small" /\ IsNum(a) /\ a.n = 4 THEN SmallSize(op, TRUE)
  ELSE IF {a.is, b.is} = {"nomatch", "int"}
  THEN Unmatched(op)
  ELSE Error

(* What a message is like in a lemma: the instructions of Env.             *)
EnvValue(env, op) ==
  CASE op = "callvalue" -> [env.callvalue EXCEPT !.wei = TRUE]
    [] op = "calldatasize" -> env.calldatasize

(* Dispatcher.execute, one instruction on the stack, its top first.  A     *)
(* concrete message is run by the same operator: with nothing but numbers  *)
(* the rules below are those of the EVM.                                   *)
Pushes == {"push", "push4", "push3"}
Pop(stack, n) == SubSeq(stack, n + 1, Len(stack))

IsZero(a) ==
  IF IsNum(a) THEN [Bit(a.n = 0) EXCEPT !.wei = a.wei]
  ELSE IF a.is = "cvnz" THEN [Bit(FALSE) EXCEPT !.wei = a.wei]
  ELSE Unknown

Shifted(shift, word, env) ==
  IF Same(shift, Num(224)) /\ word.is = "cdw" THEN env.selector ELSE Unknown

Effect(ins, stack, env) ==
  LET op == ins.op IN
  CASE op \in Pushes -> <<Num(ins.arg)>> \o stack
    [] op = "dup"  -> <<stack[ins.arg]>> \o stack
    [] op = "pop"  -> Pop(stack, 1)
    [] op = "swap" -> [stack EXCEPT ![1] = stack[ins.arg + 1], ![ins.arg + 1] = stack[1]]
    [] op \in {"callvalue", "calldatasize"} -> <<EnvValue(env, op)>> \o stack
    [] op = "calldataload" ->
         <<IF Same(stack[1], Num(0)) THEN Sym("cdw") ELSE Unknown>> \o Pop(stack, 1)
    [] op = "shr" -> <<Shifted(stack[1], stack[2], env)>> \o Pop(stack, 2)
    [] op = "iszero" -> <<IsZero(stack[1])>> \o Pop(stack, 1)
    [] op \in {"eq", "lt", "gt"} -> <<Compare(op, stack[1], stack[2], env)>> \o Pop(stack, 2)
    [] op = "mstore" -> Pop(stack, 2)
    [] OTHER -> stack            \* a jump destination; the jumps are below

Terminators == {"stop", "revert"}

Instructions(pc) == code.pieces[pc]

(* A piece from its first instruction to the one before a jump; what an    *)
(* earlier piece has left no longer tells where it comes from.             *)
StackAfter(pc, stack, env) ==
  LET body == SelectSeq(Instructions(pc), LAMBDA ins : ins.op \notin {"jump", "jumpi"} \cup Terminators)
      old  == [n \in 1..Len(stack) |-> [stack[n] EXCEPT !.wei = FALSE]]
  IN FoldLeft(LAMBDA s, ins : Effect(ins, s, env), old, body)

Failed(stack) == \E n \in 1..Len(stack) : stack[n].is = "error"

(* Where a piece goes: [to, branch], to = 0 at the end of the code's run.  *)
Fallthrough(pc) == [to |-> pc + 1, branch |-> "fallthrough"]
Taken(dest) == [to |-> dest.n, branch |-> "taken"]
Straight(to) == [to |-> to, branch |-> "none"]

LastOp(pc) == Last(Instructions(pc)).op

Exit(pc, stack) ==
  CASE LastOp(pc) \in Terminators -> Straight(0)
    [] LastOp(pc) = "jump" -> Straight(stack[1].n)
    [] LastOp(pc) = "jumpi" ->
         IF stack[2].is = "cvnz" \/ (IsNum(stack[2]) /\ stack[2].n # 0)
         THEN Taken(stack[1]) ELSE Fallthrough(pc)
    [] OTHER -> Straight(pc + 1)

Left(pc, stack) ==
  CASE LastOp(pc) = "jump" -> Pop(stack, 1)
    [] LastOp(pc) = "jumpi" -> Pop(stack, 2)
    [] OTHER -> stack

(* PathError: a comparison that cannot be made, a jump to or on an         *)
(* unknown.                                                                *)
Stuck(pc, stack) ==
  \/ Failed(stack)
  \/ LastOp(pc) \in {"jump", "jumpi"} /\ ~IsNum(stack[1])
  \/ LastOp(pc) = "jumpi" /\ ~IsNum(stack[2]) /\ stack[2].is \notin {"cvnz", "pivot"}

IsFork(pc, stack) == LastOp(pc) = "jumpi" /\ stack[2].is = "pivot"

StepOf(pc, branch, stack) ==
  [pc |-> pc, branch |-> branch,
   wei |-> LastOp(pc) = "jumpi" /\ stack[2].wei]

-----------------------------------------------------------------------------
(* What a message does when it is run (the EVM).                           *)
Messages == [value : {0, 1}, size : {0, 3, 4, 5}, selector : Selectors]

Concrete(m) ==
  [callvalue |-> Num(m.value), calldatasize |-> Num(m.size), selector |-> Num(m.selector)]

RunsThrough(m, stop) ==
  LET Step(run, n) ==
        IF run.pc \in {0, stop} THEN run
        ELSE LET stack == StackAfter(run.pc, run.stack, Concrete(m))
                 exit  == Exit(run.pc, stack)
             IN [pc |-> exit.to, stack |-> Left(run.pc, stack),
                 path |-> Append(run.path, <<run.pc, exit.branch>>)]
  IN FoldLeft(Step, [pc |-> 1, stack |-> <<>>, path |-> <<>>], [n \in 1..Limit |-> n])

-----------------------------------------------------------------------------
(* evm_tools.py, selector_compares and dispatcher: the arms are the        *)
(* targets of PUSH4 sel ... EQ ... PUSH t JUMPI, read off the code without *)
(* running it.                                                             *)
FirstWhere(listing, from, count, ops) ==
  SelectInSubSeq(listing, from, Min({from + count - 1, Len(listing)}), LAMBDA ins : ins.op \in ops)

CompareAt(listing, n) ==
  LET at    == FirstWhere(listing, n + 1, 3, {"eq", "gt", "lt"})
      push  == FirstWhere(listing, at + 1, 3, Pushes)
      jumpi == FirstWhere(listing, at + 1, 3, {"jumpi"})
  IN IF at = 0 \/ push = 0 \/ jumpi = 0 \/ push > jumpi THEN <<>>
     ELSE <<[selector |-> listing[n].arg, op |-> listing[at].op, target |-> listing[push].arg]>>

SelectorCompares(listing) ==
  FlattenSeq([n \in 1..Len(listing) |->
                IF listing[n].op = "push4" THEN CompareAt(listing, n) ELSE <<>>])

Arms(listing) == SelectSeq(SelectorCompares(listing), LAMBDA c : c.op = "eq")

ArmOf(sel) ==
  LET found == SelectSeq(arms, LAMBDA c : c.selector = sel) IN
  IF found = <<>> THEN 0 ELSE Last(found).target

-----------------------------------------------------------------------------
(* evm_tools.dispatcher, the check of the calldata's size; render_dispatch *)
(* takes its target for the fallback unless it only reverts.               *)
OnlyReverts(pc) ==
  /\ LastOp(pc) = "revert"
  /\ \A n \in 1..Len(Instructions(pc)) :
       Instructions(pc)[n].op \in {"jumpdest", "dup", "revert"} \cup Pushes

SizeTargets(listing) ==
  {listing[FirstWhere(listing, n + 1, 5, Pushes)].arg :
     n \in {m \in 1..Len(listing) : /\ listing[m].op = "calldatasize"
                                    /\ FirstWhere(listing, 1, m, {"push4"}) = 0
                                    /\ FirstWhere(listing, m + 1, 5, {"lt"}) # 0
                                    /\ FirstWhere(listing, m + 1, 5, {"jumpi"}) # 0}}

FallbackEntry ==
  LET entries == {pc \in SizeTargets(FlattenSeq(code.pieces)) : ~OnlyReverts(pc)} IN
  IF code.simple \/ entries = {} THEN 0 ELSE CHOOSE pc \in entries : TRUE

-----------------------------------------------------------------------------
(* The lemmas of a contract in their order: render_dispatch.               *)
Env(callvalue, size, selector) ==
  [callvalue |-> callvalue, calldatasize |-> Sym(size), selector |-> selector]

Goal(kind, env, stop) == [kind |-> kind, env |-> env, stop |-> stop]

GuardGoal == Goal("guard", Env(Sym("cvnz"), "big", Sym("nomatch")), 0)
NoGoal == Goal("none", Env(Num(0), "big", Sym("nomatch")), 0)

ArmGoals ==
  LET served == SelectSeq(code.table, LAMBDA s : ArmOf(s) # 0) IN
  [n \in 1..Len(served) |-> Goal("arm", Env(Num(0), "big", Num(served[n])), ArmOf(served[n]))]

RevertGoals(guarded) ==
  (IF guarded
   THEN <<Goal("value", Env(Sym("cvnz"), "big", Sym("nomatch")), FallbackEntry)>> ELSE <<>>)
  \o (IF code.simple
      THEN <<Goal("short", Env(Num(0), "small", Sym("nomatch")), 0),
             Goal("nomatch", Env(Num(0), "big", Sym("nomatch")), 0)>>
      ELSE <<>>)

AtStart == [pc |-> 1, stack |-> <<>>, steps |-> <<>>]

Init ==
  /\ code \in Codes /\ arms = Arms(FlattenSeq(code.pieces))
  /\ goals = <<>> /\ goal = GuardGoal /\ guard = FALSE
  /\ todo = <<>> /\ decided = <<>> /\ given = <<>>
  /\ walk = AtStart /\ leaves = {} /\ lemmas = {}

(* The goal is settled; the next one starts.                               *)
StartNext(rest) ==
  /\ goals' = IF rest = <<>> THEN <<>> ELSE Tail(rest)
  /\ goal' = IF rest = <<>> THEN NoGoal ELSE Head(rest)
  /\ todo' = <<>> /\ decided' = <<>> /\ given' = <<>>
  /\ walk' = AtStart /\ leaves' = {}
  /\ UNCHANGED <<code, arms>>

(* detect_global_guard, with the path it has found: a branch on the value. *)
BranchesOnValue(steps) == \E n \in 1..Len(steps) : steps[n].wei

SettleGuard(found) ==
  /\ goal.kind = "guard"
  /\ guard' = found
  /\ StartNext(ArmGoals \o RevertGoals(found))
  /\ UNCHANGED lemmas

(* A lemma is written with its paths, or left to be proved by hand.        *)
WriteLemma(proved, paths) ==
  /\ goal.kind \notin {"guard", "none"}
  /\ lemmas' = lemmas \cup {[goal |-> goal, proved |-> proved, leaves |-> paths]}
  /\ StartNext(goals)
  /\ UNCHANGED guard

GiveUp == SettleGuard(FALSE) \/ WriteLemma(FALSE, {})

-----------------------------------------------------------------------------
(* One piece of the path: run, run_with_decisions.                         *)
Running == goal.kind # "none"
AtStop == goal.stop # 0 /\ walk.pc = goal.stop
Exhausted == Len(walk.steps) = Limit
Lost == walk.pc \notin 1..Len(code.pieces)

Here == StackAfter(walk.pc, walk.stack, goal.env)

Walking == Running /\ ~AtStop /\ ~Exhausted /\ ~Lost

MoveTo(exit, stack) ==
  walk' = [pc |-> exit.to, stack |-> Left(walk.pc, stack),
           steps |-> Append(walk.steps, StepOf(walk.pc, exit.branch, stack))]

Execute ==
  /\ Walking /\ LastOp(walk.pc) \notin Terminators
  /\ ~Stuck(walk.pc, Here) /\ ~IsFork(walk.pc, Here)
  /\ MoveTo(Exit(walk.pc, Here), Here)
  /\ UNCHANGED <<code, arms, goals, goal, guard, todo, decided, given, leaves, lemmas>>

(* A fork that the path has a decision for.                                *)
FollowDecision ==
  /\ Walking /\ ~Stuck(walk.pc, Here) /\ IsFork(walk.pc, Here)
  /\ given # <<>>
  /\ MoveTo(IF Head(given) THEN Taken(Here[1]) ELSE Fallthrough(walk.pc), Here)
  /\ given' = Tail(given)
  /\ UNCHANGED <<code, arms, goals, goal, guard, todo, decided, leaves, lemmas>>

Follow(paths) ==
  /\ todo' = Tail(paths)
  /\ decided' = Head(paths) /\ given' = Head(paths)
  /\ walk' = AtStart
  /\ UNCHANGED <<code, arms, goals, goal, guard, lemmas>>

(* fork_tree: a fork that has none.  The search for the guard ends here,   *)
(* with the branches before it; other lemmas are left to be proved.        *)
(* Fault: the path without the jump alone.                                 *)
NotTakenOnly(path) == <<Append(path, FALSE)>>
BothWays(path) == <<Append(path, FALSE), Append(path, TRUE)>>

Splits == goal.kind \in {"value", "short", "nomatch"} /\ goal.stop = 0

Fork ==
  /\ Walking /\ ~Stuck(walk.pc, Here) /\ IsFork(walk.pc, Here)
  /\ given = <<>>
  /\ IF Splits
     THEN Follow(BothWays(decided) \o todo) /\ UNCHANGED leaves
     ELSE \/ SettleGuard(BranchesOnValue(walk.steps))
          \/ WriteLemma(FALSE, {})

(* The path ends where the code does.                                      *)
Path(steps) == [n \in 1..Len(steps) |-> <<steps[n].pc, steps[n].branch>>]
Whole == Append(walk.steps, StepOf(walk.pc, "none", <<>>))

RevertEnd(pc) == LastOp(pc) = "revert"

EndPath ==
  /\ Walking /\ LastOp(walk.pc) \in Terminators
  /\ \/ SettleGuard(BranchesOnValue(walk.steps))
     \/ /\ goal.kind # "guard"
        /\ IF ~Splits \/ ~RevertEnd(walk.pc) THEN GiveUp
           ELSE IF todo = <<>> THEN WriteLemma(TRUE, leaves \cup {Path(Whole)})
           ELSE Follow(todo) /\ leaves' = leaves \cup {Path(Whole)}

(* The path comes to the arm, or to the fallback.                          *)
ReachStop ==
  /\ Running /\ AtStop /\ ~Exhausted
  /\ WriteLemma(TRUE, {Path(walk.steps)})

(* PathError.                                                              *)
PathError ==
  /\ Running
  /\ \/ Exhausted
     \/ ~AtStop /\ (Lost \/ Stuck(walk.pc, Here))
  /\ GiveUp

Next == Execute \/ FollowDecision \/ Fork \/ EndPath \/ ReachStop \/ PathError

Spec == Init /\ [][Next]_vars

-----------------------------------------------------------------------------
(* The messages a lemma is about.                                          *)
MeantBy(g, m) ==
  CASE g.kind = "arm" ->
         m.size >= 4 /\ m.selector = g.env.selector.n /\ (guard => m.value = 0)
    [] g.kind = "value" -> m.value # 0
    [] g.kind = "short" -> m.size < 4 /\ (guard => m.value = 0)
    [] g.kind = "nomatch" ->
         m.size >= 4 /\ m.selector \notin ToSet(code.table) /\ (guard => m.value = 0)

EndsAt(m) == LET end == RunsThrough(m, 0).path IN end[Len(end)][1]
RunReverts(m) == LastOp(EndsAt(m)) = "revert"

(* A lemma written with its proof is true: every message it speaks of      *)
(* takes one of its paths through the compiled code, to the arm it names   *)
(* or to a revert.                                                         *)
LemmasHold ==
  \A l \in lemmas : l.proved =>
    \A m \in Messages : MeantBy(l.goal, m) =>
      LET run == RunsThrough(m, l.goal.stop) IN
      /\ run.path \in l.leaves
      /\ l.goal.stop # 0 => run.pc = l.goal.stop
      /\ l.goal.stop = 0 => RunReverts(m)
=============================================================================
