----------------------------- MODULE DraftFunction -----------------------------
(***************************************************************************)
(* src/scripts/sol2stele.py: a function of the source becomes a function   *)
(* of the draft.  Statements are translated one at a time, each by the     *)
(* handler of its kind; at the end the modifiers, or a constructor's base  *)
(* contracts, are put around the body.  What has no translation is a hole. *)
(***************************************************************************)
EXTENDS DraftSyntax, SequencesExt, TLC

CONSTANTS
  Statements,   \* the statements of bodies
  MaxLength,    \* statements in a body
  Functions,    \* [mods: Seq, returns: Seq of names, bases: Seq]
  Worlds        \* [x, s, pure: 0..Limit-1, accepts, code, rightfirst: BOOLEAN]

VARIABLES
  fn,        \* the function at hand
  statements,    \* its body so far
  draft,     \* the translation
  tmp,       \* temporaries used
  notes,     \* warnings for the reader of the draft
  drafted

vars == <<fn, statements, draft, tmp, notes, drafted>>

Hole == Simple("hole")

(* What translating an expression gives: the expression, the statements to *)
(* run before it, the next temporary.                                      *)
Res(e, pre, t) == [e |-> e, pre |-> pre, t |-> t, hole |-> FALSE]
Unsupported(t) == [e |-> Lit(0), pre |-> <<>>, t |-> t, hole |-> TRUE]

(* What translating statements gives.                                      *)
Out(lines, t) == [out |-> lines, t |-> t, notes |-> {}]
OrHole(r, lines) == Out(IF r.hole THEN <<Hole>> ELSE lines, r.t)

Temporary(t) == Named("__c" \o ToString(t))

-----------------------------------------------------------------------------
(* Expressions.  The context c: how many unchecked blocks are open, and    *)
(* what the modifiers' parameters are called.                              *)

Renamed(v, c) ==
  IF v.decl \in DOMAIN c.renames THEN Named(c.renames[v.decl]) ELSE Named(v.name)

Typed(e, c) == IF c.unchecked = 0 THEN AsType(e) ELSE Cast(e)

(* solc checks for code before a call that returns nothing.                *)
CodeGuard(f) == IF f = "send" THEN <<Require(HasCode)>> ELSE <<>>

HoistCall(f, t) ==
  Res(Temporary(t), Append(CodeGuard(f), Declare(Temporary(t), Raw(f))), t + 1)

(* The parts a and b of one expression, which is what f makes of them.     *)
Both(a, b, f(_, _)) ==
  [e |-> f(a.e, b.e), pre |-> a.pre \o b.pre, t |-> b.t, hole |-> a.hole \/ b.hole]

(* An assignment used as a value: made before, then its target is read.    *)
AssignFirst(a, target) ==
  [a EXCEPT !.e = target, !.pre = Append(@, Assign(target, a.e))]

RECURSIVE Expr(_, _, _)
Expr(e, c, t) ==
  LET Pair(a, r, f(_, _)) == Both(a, Expr(r, c, a.t), f) IN
  CASE e.k = "lit"  -> Res(e, <<>>, t)
    [] e.k = "var"  -> Res(Renamed(e, c), <<>>, t)
    [] e.k = "call" -> HoistCall(e.fn, t)
    [] e.k = "not"  -> [Expr(e.of, c, t) EXCEPT !.e = Not(@)]
    [] e.k = "neg"  -> [Expr(e.of, c, t) EXCEPT !.e = Typed(Op("minus", Lit(0), @), c)]
    [] e.k = "set"  -> AssignFirst(Expr(e.of, c, t), Renamed(e.var, c))
    [] e.k = "cond" ->
         Pair(Pair(Expr(e.test, c, t), e.l, LAMBDA m, x : <<m, x>>),
              e.r, LAMBDA mx, y : Cond(mx[1], mx[2], y))
    [] e.k \in {"add", "sub"} ->
         Pair(Expr(e.l, c, t), e.r,
              LAMBDA x, y : Typed(Op(IF e.k = "add" THEN "plus" ELSE "minus", x, y), c))
    [] e.k \in {"lt", "ge", "and", "or"} ->
         Pair(Expr(e.l, c, t), e.r, LAMBDA x, y : Op(e.k, x, y))
    [] OTHER -> Unsupported(t)     \* an increment, assembly, a conversion

(* Fault: a negated comparison keeps its boundary on the wrong side.       *)
SwappedNegation(e, c, t) ==
  [Expr(e, c, t) EXCEPT !.e = IF e.k = "lt" THEN Op("lt", @.r, @.l) ELSE Not(@)]

Negate(e, c, t) ==
  IF e.k = "not" THEN Expr(e.of, c, t)
  ELSE [Expr(e, c, t) EXCEPT !.e = CASE e.k = "lt" -> Op("ge", @.l, @.r)
                                     [] e.k = "ge" -> Op("lt", @.l, @.r)
                                     [] OTHER -> Not(@)]

(* Like Expr, with a sequence for the expression: Keep(n, r) makes of what *)
(* translating the n-th one gives what stands for it.                      *)
RECURSIVE ExprsFrom(_, _, _, _)
ExprsFrom(es, c, Keep(_, _), a) ==
  IF Len(a.e) = Len(es) THEN a
  ELSE LET n == Len(a.e) + 1 IN
       ExprsFrom(es, c, Keep, Both(a, Keep(n, Expr(es[n], c, a.t)), Append))

ExprAll(es, c, t) == ExprsFrom(es, c, LAMBDA n, r : r, Res(<<>>, <<>>, t))

-----------------------------------------------------------------------------
(* Statements.                                                             *)

(* The statement that line makes of an expression, after what comes first. *)
WithPre(r, line(_)) == OrHole(r, Append(r.pre, line(r.e)))

Evaluated(r) == OrHole(r, r.pre)

IsRevert(body) == Len(body) = 1 /\ body[1].k = "revert"

AssignDraft(s, c, t) ==
  LET target == Renamed(s.var, c) IN
  WithPre(Expr(s.e, c, t), LAMBDA e :
    Assign(target, IF s.op = "" THEN e ELSE Typed(Op("plus", target, e), c)))

(* Every component is evaluated before the first is assigned, the calls of *)
(* each right before it is kept in a temporary.                            *)
InTemporary(r) ==
  LET kept == Named("__t" \o ToString(r.t)) IN
  [r EXCEPT !.e = kept, !.pre = Append(@, Declare(kept, r.e)), !.t = @ + 1]

TupleLines(s, c, r) ==
  OrHole(r, r.pre \o [i \in DOMAIN s.vars |-> Assign(Renamed(s.vars[i], c), r.e[i])])

(* Fault: the calls of all components come first.                          *)
CallsFirst(s, c, t) ==
  LET r == ExprAll(s.es, c, t)
      kept(i) == Named("__t" \o ToString(r.t + i))
  IN OrHole([r EXCEPT !.t = @ + Len(s.vars) + 1],
            r.pre \o [i \in DOMAIN s.vars |-> Declare(kept(i), r.e[i])]
                  \o [i \in DOMAIN s.vars |-> Assign(Renamed(s.vars[i], c), kept(i))])
TupleDraft(s, c, t) ==
  TupleLines(s, c, ExprsFrom(s.es, c, LAMBDA n, r : InTemporary(r), Res(<<>>, <<>>, t)))

(* A call is bound under the declared name instead of a temporary.         *)
DeclareDraft(s, c, t) ==
  LET target == Renamed(s.var, c) IN
  IF s.e.k = "call"
  THEN Out(Append(CodeGuard(s.e.fn), Declare(target, Raw(s.e.fn))), t + 1)
  ELSE WithPre(Expr(s.e, c, t), LAMBDA e : Declare(target, e))

(* A component is declared right after its calls.                          *)
DeclareTupleDraft(s, c, t) ==
  LET Declared(n, r) == [r EXCEPT !.pre = Append(@, Declare(Renamed(s.vars[n], c), r.e))]
  IN Evaluated(ExprsFrom(s.es, c, Declared, Res(<<>>, <<>>, t)))

IncrementDraft(s, c, t) ==
  LET target == Renamed(s.var, c) IN
  Out(<<Assign(target, Typed(Op("plus", target, Lit(1)), c))>>, t)

(* A return without values returns the named results.                      *)
ReturnDraft(s, c, t) ==
  IF s.es = <<>> THEN Out(<<Return([i \in DOMAIN c.returns |-> Named(c.returns[i])])>>, t)
  ELSE WithPre(ExprAll(s.es, c, t), Return)

Holes(lines) == {u \in Within(lines) : u.k = "hole"}
Continues(lines) == \E u \in Within(lines) : u.k = "continue"

(* One translation after another, which starts at the first one's next     *)
(* temporary.                                                              *)
Joined(a, b) == [out |-> a.out \o b.out, t |-> b.t, notes |-> a.notes \cup b.notes]
AndThen(a, rest(_)) == Joined(a, rest(a.t))

RECURSIVE Stmt(_, _, _), Stmts(_, _, _)

Stmts(body, c, t) ==
  IF body = <<>> THEN Out(<<>>, t)
  ELSE AndThen(Stmt(body[1], c, t), LAMBDA u : Stmts(Tail(body), c, u))

Branches(r, a, b) ==
  [OrHole([r EXCEPT !.t = b.t], Append(r.pre, If(r.e, a.out, b.out)))
   EXCEPT !.notes = a.notes \cup b.notes]

IfDraft(s, c, t) ==
  LET Else(r, a) == Branches(r, a, Stmts(s.else, c, a.t))
      Whole(r) == Else(r, Stmts(s.then, c, r.t))
  IN IF s.else = <<>> /\ IsRevert(s.then)
     THEN WithPre(Negate(s.e, c, t), Require)
     ELSE Whole(Expr(s.e, c, t))

(* A condition that needs statements before it would need them each time.  *)
WhileLines(r, b) ==
  [OrHole([r EXCEPT !.t = b.t, !.hole = @ \/ r.pre # <<>>], <<While(r.e, b.out)>>)
   EXCEPT !.notes = b.notes]

WhileDraft(s, c, t) ==
  LET Body(r) == WhileLines(r, Stmts(s.body, c, r.t)) IN Body(Expr(s.e, c, t))

DoWhileDraft(s, c, t) == AndThen(Stmts(s.body, c, t), LAMBDA u : WhileDraft(s, c, u))

LoweringNotes(body) ==
  IF Continues(body) THEN {"continue in a for loop lowered to while"} ELSE {}

(* With one initial statement and an update the loop stays a for loop,     *)
(* otherwise the update goes to the end of a while loop's body.            *)
ForLines(s, init, r, post, b, again) ==
  IF r.hole \/ r.pre # <<>> \/ (s.post # <<>> /\ Len(post.out) # 1)
  THEN Out(<<Hole>>, post.t)
  ELSE IF Len(init.out) = 1 /\ s.post # <<>>
  THEN [b EXCEPT !.out = <<For(init.out, r.e, post.out, @)>>]
  ELSE [out |-> Append(init.out, While(r.e, b.out \o again.out)), t |-> again.t,
        notes |-> b.notes \cup LoweringNotes(b.out)]

ForDraft(s, c, t) ==
  LET Body(init, r, post, b) == ForLines(s, init, r, post, b, Stmts(s.post, c, b.t))
      Update(init, r, post) == Body(init, r, post, Stmts(s.body, c, post.t))
      Test(init, r) == Update(init, r, Stmts(s.post, c, r.t))
      Start(init) == Test(init, Expr(s.e, c, init.t))
  IN Start(Stmts(s.init, c, t))

TryLines(s, a, b) ==
  [out |-> <<[Try(s.fn, a.out, <<b.out>>) EXCEPT !.checkscode = FALSE]>>, t |-> b.t,
   notes |-> a.notes \cup b.notes \cup
             (IF Len(s.catches) > 1 THEN {"several catch clauses merged into one"} ELSE {})]

TryDraft(s, c, t) ==
  LET Catch(a) == TryLines(s, a, Stmts(FlattenSeq(s.catches), c, a.t))
  IN Catch(Stmts(s.ok, c, t))

Entered(c) == [c EXCEPT !.unchecked = @ + 1]

Stmt(s, c, t) ==
  CASE s.k = "assign"       -> AssignDraft(s, c, t)
    [] s.k = "tuple"        -> TupleDraft(s, c, t)
    [] s.k = "declare"      -> DeclareDraft(s, c, t)
    [] s.k = "zero"         -> Out(<<Declare(Renamed(s.var, c), Lit(0))>>, t)
    [] s.k = "declareTuple" -> DeclareTupleDraft(s, c, t)
    [] s.k = "increment"    -> IncrementDraft(s, c, t)
    [] s.k = "if"           -> IfDraft(s, c, t)
    [] s.k = "while"        -> WhileDraft(s, c, t)
    [] s.k = "dowhile"      -> DoWhileDraft(s, c, t)
    [] s.k = "for"          -> ForDraft(s, c, t)
    [] s.k = "block"        -> Stmts(s.body, c, t)
    [] s.k = "unchecked"    -> Stmts(s.body, Entered(c), t)
    [] s.k = "return"       -> ReturnDraft(s, c, t)
    [] s.k = "require"      -> WithPre(Expr(s.e, c, t), Require)
    [] s.k = "emit"         -> WithPre(Expr(s.e, c, t), Emit)
    [] s.k = "exprcall"     -> Evaluated(Expr(s.e, c, t))
    [] s.k = "try"          -> TryDraft(s, c, t)
    [] s.k = "revert"       -> Out(<<Require(Lit(0))>>, t)
    [] s.k \in {"break", "continue"} -> Out(<<s>>, t)
    [] s.k \in {"assembly", "placeholder"} -> Out(<<Hole>>, t)

-----------------------------------------------------------------------------
(* Functions and constructors.                                             *)

Placeholders(body) == {u \in Within(body) : u.k = "placeholder"}

(* The declarations of parameters ahead of an inlined body, with           *)
(* Rename(v) for what v is called there.                                   *)
Argument(name, r) == OrHole(r, Append(r.pre, Declare(Named(name), r.e)))

RECURSIVE Arguments(_, _, _, _, _)
Arguments(params, args, Rename(_), c, t) ==
  IF params = <<>> THEN Out(<<>>, t)
  ELSE AndThen(Argument(Rename(params[1]), Expr(args[1], c, t)),
               LAMBDA u : Arguments(Tail(params), Tail(args), Rename, c, u))

RECURSIVE CountPlaceholders(_)
CountPlaceholders(body) ==    \* at any depth
  IF body = <<>> THEN 0
  ELSE (IF body[1].k = "placeholder" THEN 1 ELSE 0)
       + CountPlaceholders(FlattenSeq(Bodies(body[1])) \o Tail(body))

PlaceholderNotes(body) ==
  IF CountPlaceholders(body) = 1 THEN {} ELSE {"not one placeholder"}

(* The parameters of a modifier bear its name in the draft.                *)
Qualified(m, v) == m.name \o "_" \o v.name

Inside(m, c) ==    \* the context of the modifier's body
  [c EXCEPT !.renames =
     [d \in {v.decl : v \in ToSet(m.params)} |->
        Qualified(m, CHOOSE v \in ToSet(m.params) : v.decl = d)] @@ @]

RECURSIVE InlineModifiers(_, _, _, _), InlineBlock(_, _, _, _, _)

InlineModifiers(mods, body, c, t) ==
  IF mods = <<>> THEN Stmts(body, c, t)
  ELSE LET m == mods[1] IN
       [AndThen(Arguments(m.params, m.args, LAMBDA v : Qualified(m, v), c, t),
                LAMBDA u : InlineBlock(m.body, Tail(mods), body, Inside(m, c), u))
        EXCEPT !.notes = @ \cup PlaceholderNotes(m.body)]

InlineBlock(block, mods, body, c, t) ==
  IF block = <<>> THEN Out(<<>>, t)
  ELSE LET s == block[1] IN
       AndThen(CASE s.k = "placeholder" -> InlineModifiers(mods, body, c, t)
                 [] s.k = "block" -> InlineBlock(s.body, mods, body, c, t)
                 [] s.k = "if" /\ Placeholders(<<s>>) # {} -> Out(<<Hole>>, t)
                 [] OTHER -> Stmt(s, c, t),
               LAMBDA u : InlineBlock(Tail(block), mods, body, c, u))

EndsWithReturn(body) == body # <<>> /\ Last(body).k = "return"

AllNamed(names) == names # <<>> /\ \A i \in DOMAIN names : names[i] # ""

(* Named results start at zero and are returned at the end.                *)
FunctionBody(mods, body, c, t) ==
  LET zeros == IF AllNamed(c.returns)
               THEN [i \in DOMAIN c.returns |-> Declare(Named(c.returns[i]), Lit(0))] ELSE <<>>
      end == IF AllNamed(c.returns) /\ ~EndsWithReturn(body)
             THEN <<Return([i \in DOMAIN c.returns |-> Named(c.returns[i])])>> ELSE <<>>
  IN [InlineModifiers(mods, body, c, t) EXCEPT !.out = zeros \o @ \o end]

(* The base contracts of a constructor, the most basic first: what they    *)
(* initialise, their parameters and their constructor's body.              *)
RECURSIVE Bases(_, _, _)
Bases(bases, c, t) ==
  IF bases = <<>> THEN Out(<<>>, t)
  ELSE LET base == bases[1]
           Rest(u) == Bases(Tail(bases), c, u)
           Body(u) == AndThen(FunctionBody(<<>>, base.body, c, u), Rest)
           WithArguments(u) ==
             AndThen(Arguments(base.params, base.args, LAMBDA v : v.name, c, u), Body)
       IN AndThen(Stmts(base.init, c, t), WithArguments)

Context(f) == [unchecked |-> 0, renames |-> <<>>, returns |-> f.returns]

-----------------------------------------------------------------------------
(* The translation of one function.                                        *)

Init ==
  /\ fn \in Functions /\ statements = <<>> /\ draft = <<>> /\ tmp = 0
  /\ notes = {} /\ drafted = FALSE

(* The compiler has checked what is returned.                              *)
WellTyped(s) ==
  \A u \in Within(<<s>>) : u.k = "return" =>
    \/ u.es = <<>> /\ (fn.returns = <<>> \/ AllNamed(fn.returns))
    \/ u.es # <<>> /\ Len(u.es) = Len(fn.returns)

Translate(kinds) ==
  /\ ~drafted /\ Len(statements) < MaxLength
  /\ \E s \in {u \in Statements : u.k \in kinds /\ WellTyped(u)} :
       \E r \in {Stmt(s, Context(fn), tmp)} :
         /\ statements' = Append(statements, s)
         /\ draft' = draft \o r.out
         /\ tmp' = r.t
         /\ notes' = notes \cup r.notes
  /\ UNCHANGED <<fn, drafted>>

Assignment  == Translate({"assign", "tuple", "increment"})
Declaration == Translate({"declare", "zero", "declareTuple"})
Branch      == Translate({"if", "try"})
Iteration   == Translate({"while", "dowhile", "for"})
Nested      == Translate({"block", "unchecked"})
Leave       == Translate({"return", "revert"})
Effect      == Translate({"require", "emit", "exprcall"})
Assembly    == Translate({"assembly"})

Finish ==
  /\ ~drafted /\ drafted' = TRUE
  /\ \E r \in {AndThen(Bases(fn.bases, Context(fn), 0),
                       LAMBDA t : FunctionBody(fn.mods, statements, Context(fn), t))} :
       /\ draft' = r.out
       /\ tmp' = r.t
       /\ notes' = r.notes
  /\ UNCHANGED <<fn, statements>>

Next == Assignment \/ Declaration \/ Branch \/ Iteration \/ Nested \/ Leave
        \/ Effect \/ Assembly \/ Finish

Spec == Init /\ [][Next]_vars

-----------------------------------------------------------------------------
(* What the source and the draft do.                                       *)

(* What an observer of a run sees.                                         *)
Outcome(at, s, log, value) ==
  IF at = "revert" THEN [at |-> at]
  ELSE [at |-> "done", s |-> s, log |-> log, value |-> value]

RECURSIVE RunBases(_, _, _)
RunBases(bases, w, st) ==
  IF bases = <<>> \/ st.at # "ok" THEN st
  ELSE LET base == bases[1]
           Body(s1) == Upon(EvalAll(base.args, w, s1), LAMBDA ns, s2 :
                         RunModified(<<base.body>>, w, BindAll(base.params, ns, s2)))
       IN RunBases(Tail(bases), w, Body(Run(base.init, <<>>, w, st)))

RunFunction(w, st) ==
  IF st.at # "ok" THEN st ELSE RunModified(Append(fn.mods, statements), w, st)

SourceRun(w) == RunFunction(w, RunBases(fn.bases, w, State([x |-> w.x, result |-> 0, result2 |-> 0], w.s)))

SourceOutcome(r) ==
  Outcome(r.at, r.s, r.log, [i \in DOMAIN fn.returns |-> Read(Results[i], r)])

(* Leaving the body in any way but a return gives no value.                *)
DraftOutcome(r) == Outcome(r.at, r.s, r.log, r.ret)
DraftRun(w) == Run(draft, <<>>, w, State([x |-> w.x], w.s))

Agree(source, other) ==
  source.at = "stuck" \/ SourceOutcome(source) = DraftOutcome(other)

Same == \A w \in Worlds : Agree(SourceRun(w), DraftRun(w))

Claimed == drafted /\ Holes(draft) = {} /\ notes = {}

-----------------------------------------------------------------------------
(* Where the draft is known to say something else.                         *)

Bodied(set) ==   \* all bodies of a function
  {statements} \cup {fn.mods[i].body : i \in DOMAIN fn.mods}
  \cup {fn.bases[i].body : i \in DOMAIN fn.bases}

Everything == UNION {Within(b) : b \in Bodied(fn)}

Effects(e) == {p \in Parts(e) : p.k \in {"call", "set"}}

(* A call that a short circuit or a branch of a conditional may skip.      *)
SkippedCall ==
  \E s \in Everything : \E e \in Expressions(s) : \E p \in Parts(e) :
    \/ p.k \in {"and", "or"} /\ Effects(p.r) # {}
    \/ p.k = "cond" /\ Effects(p.l) \cup Effects(p.r) # {}

(* What is left of an expression when its calls and assignments are made   *)
(* before it reads these variables, and those change others.               *)
RECURSIVE ReadLate(_)
ReadLate(e) ==
  CASE e.k = "var"  -> {e.decl}
    [] e.k = "set"  -> {e.var.decl}
    [] e.k \in {"lit", "call"} -> {}
    [] e.k \in {"not", "neg"} -> ReadLate(e.of)
    [] e.k = "cond" -> ReadLate(e.test) \cup ReadLate(e.l) \cup ReadLate(e.r)
    [] OTHER -> ReadLate(e.l) \cup ReadLate(e.r)

Changed(e) ==
  {p.var.decl : p \in {q \in Effects(e) : q.k = "set"}}
  \cup {"S" : p \in {q \in Effects(e) : q.k = "call" /\ q.fn = "act"}}

ChangedBy(e, f) == ReadLate(e) \cap Changed(f) # {}

(* A value is read before a call or an assignment in the same expression,  *)
(* or among the values of the same return, that changes it; the two        *)
(* operands of an operator may be evaluated in either order.               *)
ReadBeforeCall ==
  \E s \in Everything :
    \/ \E e \in Expressions(s) : \E p \in Parts(e) :
         p.k \in {"add", "sub", "lt", "ge"} /\ (ChangedBy(p.l, p.r) \/ ChangedBy(p.r, p.l))
    \/ s.k = "return" /\ \E i, j \in DOMAIN s.es : i < j /\ ChangedBy(s.es[i], s.es[j])

(* A return, inlined, leaves the modifiers around it as well.              *)
ReturnUnderModifier ==
  \/ \E i \in DOMAIN fn.mods : \E s \in Within(fn.mods[i].body) : s.k = "return"
  \/ /\ \E s \in Within(statements) : s.k = "return"
     /\ \E i \in DOMAIN fn.mods : Last(fn.mods[i].body).k # "placeholder"

(* The first copy of a do loop's body is not in a loop.                    *)
ExitFromDo ==
  \E s \in Everything : s.k = "dowhile" /\
    \E u \in Exposed(s.body) : u.k \in {"break", "continue"}

(* A try statement has no check for code.                                  *)
TryWithoutCode == \E s \in Everything : s.k = "try"

(* A function with an unnamed result may end without a return.             *)
NoValue == fn.returns # <<>> /\ ~AllNamed(fn.returns) /\ ~EndsWithReturn(statements)

Variables ==
  UNION {UNION {Parts(e) : e \in Expressions(s)} : s \in Everything}
  \cup {s.var : s \in {u \in Everything : "var" \in DOMAIN u}}
  \cup UNION {ToSet(s.vars) : s \in {u \in Everything : "vars" \in DOMAIN u}}
  \cup UNION {ToSet(fn.bases[i].params) : i \in DOMAIN fn.bases}

(* Two declarations of the inlined bodies share a name.                    *)
Captured ==
  LET parameters == {v.decl : v \in UNION {ToSet(fn.mods[i].params) : i \in DOMAIN fn.mods}}
      names == {v \in Variables \cup {Var("x", "x"), Var("s", "S")} : v.k = "var"}
  IN \E v, u \in names : v.name = u.name /\ v.decl # u.decl
                         /\ v.decl \notin parameters /\ u.decl \notin parameters

Divergent == SkippedCall \/ ReadBeforeCall \/ ReturnUnderModifier \/ ExitFromDo
             \/ TryWithoutCode \/ NoValue \/ Captured

-----------------------------------------------------------------------------
(* Properties.                                                             *)

(* Nothing is written that the draft's language lacks.                     *)
Expressible ==
  \A s \in Within(draft) :
    /\ s.k \notin {"increment", "zero", "tuple", "declareTuple", "dowhile", "block",
                   "unchecked", "exprcall", "revert", "placeholder", "assembly"}
    /\ \A e \in Expressions(s) : \A p \in Parts(e) :
         /\ p.k \notin {"call", "set", "add", "sub", "neg"}
         /\ p.k = "raw" => s.k = "declare"

(* A draft is in its language, and without holes and notes it does what    *)
(* the source does, in every world: the same calls in the same order, the  *)
(* same reverts, the same storage and results, whichever operand the       *)
(* compiler evaluates first.  The known exceptions are the seven above.    *)
DraftFaithful == Expressible /\ (Claimed /\ ~Divergent => Same)

=============================================================================
