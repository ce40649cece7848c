------------------------------ MODULE DraftSyntax ------------------------------
(***************************************************************************)
(* Function bodies as src/scripts/sol2stele.py reads them from solc's AST  *)
(* and as it writes them for Stele, with one interpreter for both.         *)
(*                                                                         *)
(* A variable of the source has a name and the declaration it refers to;   *)
(* the draft has names only.  Numbers have two bits and a number other     *)
(* than zero is a true condition.  Calls are to "pure", which returns what *)
(* the world says, to "act", which changes the state variable as well, and *)
(* to the external "send", which returns nothing and may revert or find no *)
(* code at its address.                                                    *)
(***************************************************************************)
EXTENDS Integers, Sequences, FiniteSets

Limit == 4

-----------------------------------------------------------------------------
(* Expressions.                                                            *)

Lit(n)        == [k |-> "lit", n |-> n]
Var(v, d)     == [k |-> "var", name |-> v, decl |-> d]
Named(v)      == Var(v, v)
Call(f)       == [k |-> "call", fn |-> f]
Raw(f)        == [k |-> "raw", fn |-> f]      \* without a check for code
Op(op, a, b)  == [k |-> op, l |-> a, r |-> b]
Not(e)        == [k |-> "not", of |-> e]
Neg(e)        == [k |-> "neg", of |-> e]
Cond(c, a, b) == [k |-> "cond", test |-> c, l |-> a, r |-> b]
Set(v, e)     == [k |-> "set", var |-> v, of |-> e]
HasCode       == [k |-> "hascode"]
AsType(e)     == [k |-> "as", of |-> e]
Cast(e)       == [k |-> "cast", of |-> e]

(* Statements.                                                             *)

Assign(v, e)         == [k |-> "assign", op |-> "", var |-> v, e |-> e]
AddAssign(v, e)      == [k |-> "assign", op |-> "add", var |-> v, e |-> e]
TupleAssign(vs, es)  == [k |-> "tuple", vars |-> vs, es |-> es]
Declare(v, e)        == [k |-> "declare", var |-> v, e |-> e]
DeclareZero(v)       == [k |-> "zero", var |-> v]
DeclareTuple(vs, es) == [k |-> "declareTuple", vars |-> vs, es |-> es]
Increment(v)         == [k |-> "increment", var |-> v]
If(c, a, b)          == [k |-> "if", e |-> c, then |-> a, else |-> b]
While(c, b)          == [k |-> "while", e |-> c, body |-> b]
DoWhile(b, c)        == [k |-> "dowhile", e |-> c, body |-> b]
For(i, c, p, b)      == [k |-> "for", init |-> i, e |-> c, post |-> p, body |-> b]
Block(b)             == [k |-> "block", body |-> b]
Unchecked(b)         == [k |-> "unchecked", body |-> b]
Return(es)           == [k |-> "return", es |-> es]
Require(e)           == [k |-> "require", e |-> e]
ExprCall(f)          == [k |-> "exprcall", e |-> Call(f)]
Try(f, a, b)         == [k |-> "try", fn |-> f, ok |-> a, catches |-> b, checkscode |-> TRUE]
Emit(e)              == [k |-> "emit", e |-> e]
Simple(kind)         == [k |-> kind]   \* break, continue, revert, assembly,
                                       \* placeholder, and the draft's hole

-----------------------------------------------------------------------------
(* What a statement or an expression consists of.                          *)

RECURSIVE Parts(_)
Parts(e) ==
  {e} \cup
  CASE e.k \in {"lit", "var", "call", "raw", "hascode"} -> {}
    [] e.k \in {"not", "neg", "set", "as", "cast"} -> Parts(e.of)
    [] e.k = "cond" -> Parts(e.test) \cup Parts(e.l) \cup Parts(e.r)
    [] OTHER -> Parts(e.l) \cup Parts(e.r)

Bodies(s) ==
  CASE s.k = "if"  -> <<s.then, s.else>>
    [] s.k = "for" -> <<s.init, s.post, s.body>>
    [] s.k = "try" -> Append(s.catches, s.ok)
    [] s.k \in {"while", "dowhile", "block", "unchecked"} -> <<s.body>>
    [] OTHER -> <<>>

Expressions(s) ==
  (IF "e" \in DOMAIN s THEN {s.e} ELSE {})
  \cup (IF "es" \in DOMAIN s THEN {s.es[i] : i \in DOMAIN s.es} ELSE {})

RECURSIVE Within(_)
Within(body) ==    \* the statements of a body at any depth
  UNION {{body[i]} \cup UNION {Within(Bodies(body[i])[j]) : j \in DOMAIN Bodies(body[i])}
         : i \in DOMAIN body}

(* The statements a loop in the body does not keep to itself.              *)
RECURSIVE Exposed(_)
Exposed(body) ==
  UNION {{body[i]} \cup
         (IF body[i].k \in {"while", "dowhile", "for"} THEN {}
          ELSE UNION {Exposed(Bodies(body[i])[j]) : j \in DOMAIN Bodies(body[i])})
         : i \in DOMAIN body}

-----------------------------------------------------------------------------
(* Running.  A state has the variables, the storage, the calls and logs so *)
(* far, how control left the last statement, the value returned, the loop  *)
(* iterations left, and whether arithmetic is checked.                     *)

State(locals, s) ==
  [locals |-> locals, s |-> s, log |-> <<>>, at |-> "ok", ret |-> <<>>,
   fuel |-> 6, checked |-> TRUE]

(* A local hides the state variable of its name.                           *)
Read(v, st) == IF v.decl \in DOMAIN st.locals THEN st.locals[v.decl] ELSE st.s

Bind(v, n, st) ==
  [st EXCEPT !.locals = [d \in DOMAIN @ \cup {v.decl} |-> IF d = v.decl THEN n ELSE @[d]]]

Write(v, n, st) ==
  IF v.decl \in DOMAIN st.locals THEN Bind(v, n, st) ELSE [st EXCEPT !.s = n]

Value(n, st) == [v |-> n, st |-> st]
Revert(st)   == Value(0, [st EXCEPT !.at = "revert"])

(* A call as the world answers it.                                         *)
Answer(f, w, st) ==
  LET called == [st EXCEPT !.log = Append(@, f)] IN
  CASE f = "pure" -> Value(w.pure, called)
    [] f = "act"  -> Value(w.pure, [called EXCEPT !.s = (@ + 1) % Limit])
    [] f = "send" -> IF w.code /\ ~w.accepts THEN Revert(called) ELSE Value(0, called)

Arith(n, st) ==
  IF n \in 0..(Limit - 1) THEN Value(n, st)
  ELSE IF st.checked THEN Revert(st) ELSE Value(n % Limit, st)

Bool(b) == IF b THEN 1 ELSE 0

Reverted(a) == a.st.at = "revert"

(* The rest, unless evaluation reverted.                                   *)
Then(a, F(_, _)) == IF Reverted(a) THEN a ELSE F(a.v, a.st)

Unary(e, n, st) ==
  CASE e.k = "not"  -> Value(Bool(n = 0), st)
    [] e.k = "neg"  -> Arith(0 - n, st)
    [] e.k = "set"  -> Value(n, Write(e.var, n, st))
    \* Stele computes with integers, and casts or wraps the result
    [] e.k = "as"   -> IF n \in 0..(Limit - 1) THEN Value(n, st) ELSE Revert(st)
    [] e.k = "cast" -> Value(n % Limit, st)

Binary(op, m, n, st) ==
  CASE op = "lt"    -> Value(Bool(m < n), st)
    [] op = "ge"    -> Value(Bool(m >= n), st)
    [] op = "add"   -> Arith(m + n, st)
    [] op = "sub"   -> Arith(m - n, st)
    [] op = "plus"  -> Value(m + n, st)
    [] op = "minus" -> Value(m - n, st)

RECURSIVE Eval(_, _, _), Operands(_, _, _)
Eval(e, w, st) ==
  CASE e.k = "lit"  -> Value(e.n, st)
    [] e.k = "var"  -> Value(Read(e, st), st)
    [] e.k = "call" -> IF e.fn = "send" /\ ~w.code THEN Revert(st) ELSE Answer(e.fn, w, st)
    [] e.k = "raw"  -> Answer(e.fn, w, st)
    [] e.k = "hascode" -> Value(Bool(w.code), st)
    [] e.k = "cond" -> Then(Eval(e.test, w, st), LAMBDA n, s1 : Eval(IF n # 0 THEN e.l ELSE e.r, w, s1))
    [] e.k = "and"  -> Then(Eval(e.l, w, st), LAMBDA n, s1 : IF n = 0 THEN Value(0, s1) ELSE Eval(e.r, w, s1))
    [] e.k = "or"   -> Then(Eval(e.l, w, st), LAMBDA n, s1 : IF n # 0 THEN Value(1, s1) ELSE Eval(e.r, w, s1))
    [] e.k \in {"not", "neg", "set", "as", "cast"} ->
         Then(Eval(e.of, w, st), LAMBDA n, s1 : Unary(e, n, s1))
    [] OTHER -> Operands(e, w, st)

(* Solidity leaves the order of two operands to the compiler: solc         *)
(* evaluates the right one first, and the left one when it goes via IR.    *)
Operands(e, w, st) ==
  IF w.rightfirst
  THEN Then(Eval(e.r, w, st), LAMBDA n, s1 :
         Then(Eval(e.l, w, s1), LAMBDA m, s2 : Binary(e.k, m, n, s2)))
  ELSE Then(Eval(e.l, w, st), LAMBDA m, s1 :
         Then(Eval(e.r, w, s1), LAMBDA n, s2 : Binary(e.k, m, n, s2)))

(* Expressions one after the other: their values and the state after them. *)
RECURSIVE EvalFrom(_, _, _)
EvalFrom(es, w, a) ==
  IF es = <<>> \/ Reverted(a) THEN a
  ELSE EvalFrom(Tail(es), w,
         Then(Eval(es[1], w, a.st), LAMBDA n, s1 : Value(Append(a.v, n), s1)))

EvalAll(es, w, st) == EvalFrom(es, w, Value(<<>>, st))

RECURSIVE BindAll(_, _, _), WriteAll(_, _, _)
BindAll(vs, ns, st) ==
  IF vs = <<>> THEN st ELSE BindAll(Tail(vs), Tail(ns), Bind(vs[1], ns[1], st))
WriteAll(vs, ns, st) ==
  IF vs = <<>> THEN st ELSE WriteAll(Tail(vs), Tail(ns), Write(vs[1], ns[1], st))

(* Control that left a loop or a modifier's body by "how" goes on.        *)
Caught(how, st) == IF st.at = how THEN [st EXCEPT !.at = "ok"] ELSE st

(* A function's own return gives it its values and leaves its body only.   *)
Results == <<Named("result"), Named("result2")>>

Returned(st) ==
  IF st.at = "return" /\ st.ret # <<>>
  THEN [BindAll(SubSeq(Results, 1, Len(st.ret)), st.ret, st) EXCEPT !.at = "ok", !.ret = <<>>]
  ELSE Caught("return", st)

(* What a statement does with the value n, or the values, of its own       *)
(* expressions.                                                            *)
Use(s, n, st) ==
  CASE s.k \in {"assign", "increment"} -> Write(s.var, n, st)
    [] s.k = "declare"      -> Bind(s.var, n, st)
    [] s.k = "tuple"        -> WriteAll(s.vars, n, st)
    [] s.k = "declareTuple" -> BindAll(s.vars, n, st)
    [] s.k = "return"       -> [st EXCEPT !.at = "return", !.ret = n]
    [] s.k = "require"      -> IF n = 0 THEN [st EXCEPT !.at = "revert"] ELSE st
    [] s.k = "exprcall"     -> st
    [] s.k = "emit"         -> [st EXCEPT !.log = Append(@, "emit")]

Operand(s) ==
  CASE s.k = "increment" -> Op("add", s.var, Lit(1))
    [] s.k = "assign" /\ s.op = "add" -> Op("add", s.e, s.var)
    [] OTHER -> s.e

(* The rest of a statement, unless evaluation reverted.                    *)
Upon(a, F(_, _)) == IF Reverted(a) THEN a.st ELSE F(a.v, a.st)

(* Statements.  "inner" is what a modifier's placeholder stands for: the   *)
(* modifiers below it, outermost first, and the function's own body.       *)
RECURSIVE Run(_, _, _, _), RunOne(_, _, _, _), Loop(_, _, _, _, _), RunModified(_, _, _)

Run(body, inner, w, st) ==
  IF body = <<>> \/ st.at # "ok" THEN st
  ELSE Run(Tail(body), inner, w, RunOne(body[1], inner, w, st))

(* After one turn of a loop: the update, unless the loop was left.         *)
Turn(c, post, body, w, st) ==
  IF st.at \in {"ok", "continue"}
  THEN Loop(c, post, body, w, Run(post, <<>>, w, Caught("continue", st)))
  ELSE Caught("break", st)

Loop(c, post, body, w, st) ==
  IF st.at # "ok" THEN st
  ELSE Upon(Eval(c, w, st), LAMBDA n, s1 :
         IF n = 0 THEN s1
         ELSE IF s1.fuel = 0 THEN [s1 EXCEPT !.at = "stuck"]
         ELSE Turn(c, post, body, w, Run(body, <<>>, w, [s1 EXCEPT !.fuel = @ - 1])))

RunTry(s, a, inner, w, st) ==
  IF Reverted(a) THEN Run(s.catches[1], inner, w, [a.st EXCEPT !.at = "ok"])
  ELSE IF ~w.code /\ s.checkscode THEN [st EXCEPT !.at = "revert"]
  ELSE Run(s.ok, inner, w, a.st)

RunOne(s, inner, w, st) ==
  CASE s.k \in {"assign", "increment", "declare", "require", "exprcall", "emit"} ->
         Upon(Eval(Operand(s), w, st), LAMBDA n, s1 : Use(s, n, s1))
    [] s.k \in {"tuple", "declareTuple", "return"} ->
         Upon(EvalAll(s.es, w, st), LAMBDA ns, s1 : Use(s, ns, s1))
    [] s.k = "zero"      -> Bind(s.var, 0, st)
    [] s.k = "if"        ->
         Upon(Eval(s.e, w, st), LAMBDA n, s1 : Run(IF n # 0 THEN s.then ELSE s.else, inner, w, s1))
    [] s.k = "while"     -> Loop(s.e, <<>>, s.body, w, st)
    [] s.k = "dowhile"   -> Turn(s.e, <<>>, s.body, w, Run(s.body, <<>>, w, st))
    [] s.k = "for"       -> Loop(s.e, s.post, s.body, w, Run(s.init, <<>>, w, st))
    [] s.k = "block"     -> Run(s.body, inner, w, st)
    [] s.k = "unchecked" ->
         [Run(s.body, inner, w, [st EXCEPT !.checked = FALSE]) EXCEPT !.checked = st.checked]
    [] s.k = "try"       -> RunTry(s, Answer(s.fn, w, st), inner, w, st)
    [] s.k \in {"break", "continue", "revert"} -> [st EXCEPT !.at = s.k]
    [] s.k = "placeholder" -> RunModified(inner, w, st)

RunModified(inner, w, st) ==
  IF Len(inner) = 1 THEN Returned(Run(inner[1], <<>>, w, st))
  ELSE Upon(EvalAll(inner[1].args, w, st), LAMBDA ns, s1 :
         Caught("return", Run(inner[1].body, Tail(inner), w, BindAll(inner[1].params, ns, s1))))
=============================================================================
