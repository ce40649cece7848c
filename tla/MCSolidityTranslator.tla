------------------------- MODULE MCSolidityTranslator -------------------------
(* Sources for model checking SolidityTranslator.                          *)
EXTENDS SolidityTranslator, DraftSyntax

(* Two functions of two parameters that call each other and themselves,    *)
(* with all bodies of at most two statements, and some of three.           *)
MCNames == <<"f", "g">>
MCParameters == <<"p", "q">>

Bump(v)      == [k |-> "touch", v |-> v]
Observe(v)   == [k |-> "observe", v |-> v]
Fresh(v)     == [k |-> "fresh", v |-> v]
Alias(v, w)  == [k |-> "alias", v |-> v, w |-> w]
Pass(h, vs)  == [k |-> "call", fn |-> h, args |-> vs]

Accesses ==
  {Bump(v) : v \in {"p", "q", "a"}}
  \cup {Observe("q"), Fresh("p"), Fresh("a"), Alias("p", "q"), Alias("a", "p")}
  \cup {Pass(h, vs) : h \in {"f", "g"}, vs \in {<<"p", "q">>, <<"q", "p">>}}
  \cup {Pass("g", <<"p", "p">>)}

(* A local is bound before it is used.                                     *)
PairsOfAccesses ==
  {<<s, t>> : s \in Accesses \ {Bump("a")}, t \in Accesses \ {Bump("a")}}
  \cup {<<s, Bump("a")>> : s \in {Fresh("a"), Alias("a", "p")}}

MemoryBodies ==
  {<<>>} \cup {<<s>> : s \in Accesses \ {Bump("a")}} \cup PairsOfAccesses
  \cup {<<Alias("a", "p"), Alias("b", "a"), Bump("b")>>,
        <<Fresh("a"), Pass("f", <<"a", "q">>), Observe("a")>>,
        <<Alias("a", "p"), Pass("f", <<"a", "q">>), Observe("p")>>,
        <<Bump("p"), Pass("f", <<"q", "p">>), Bump("q")>>}

MCPrograms == [{"f", "g"} -> MemoryBodies]

-----------------------------------------------------------------------------
(* A contract C with a base B and a library L: overloads of f, an override *)
(* of B's f, functions g that call each other, an overload of them, and a  *)
(* private h beside another.                                               *)
MCLinear == <<"C", "B">>

To(i, how) == [to |-> i, how |-> how]
Fn(owner, name, params, public, private, calls) ==
  [owner |-> owner, name |-> name, params |-> params, public |-> public,
   private |-> private, calls |-> calls]

Derived == {<<>>, <<To(9, "plain"), To(3, "plain")>>, <<To(5, "super")>>,
            <<To(1, "plain"), To(7, "named")>>, <<To(4, "plain"), To(2, "plain")>>}
Overloading == {<<>>, <<To(1, "plain"), To(7, "named")>>}
Inherited == {<<>>, <<To(5, "plain")>>, <<To(6, "plain"), To(3, "plain")>>}

MCSources ==
  {[functions |->
      <<Fn("C", "f", <<"uint">>, TRUE, FALSE, c1), Fn("C", "f", <<"bytes">>, public, FALSE, c2),
        Fn("C", "g", <<>>, FALSE, FALSE, c3), Fn("C", "h", <<>>, FALSE, FALSE, <<>>),
        Fn("B", "f", <<"uint">>, TRUE, FALSE, c5), Fn("B", "h", <<>>, FALSE, TRUE, <<>>),
        Fn("L", "f", <<"address">>, FALSE, FALSE, <<To(7, "plain")>>), Fn("B", "k", <<>>, TRUE, FALSE, c5),
        Fn("C", "g", <<"uint">>, FALSE, FALSE, <<>>)>>,
    constructor |-> c0] :
     public \in BOOLEAN, c1 \in Derived, c2 \in Overloading, c3 \in Derived \cup {<<To(5, "named")>>},
     c5 \in Inherited, c0 \in {<<>>, <<To(3, "plain"), To(8, "plain")>>}}

-----------------------------------------------------------------------------
(* A parameter x, a state variable s, locals y and z, a named result r.    *)
X == Var("x", "x")
S == Var("s", "S")
Y == Var("y", "Y")
Z == Var("z", "Z")
R == Var("r", "result")

XIsZero == Op("lt", X, Lit(1))
StepX == Increment(X)

MCStatements ==
  {Assign(S, e) : e \in {Op("add", X, Lit(1)), Neg(X), Call("act"), Cond(XIsZero, Lit(2), X),
                         Set(X, Op("sub", X, Lit(1))), Op("add", Call("pure"), Lit(3))}}
  \cup {AddAssign(X, Lit(2)), AddAssign(X, Call("act")),
        TupleAssign(<<X, S>>, <<S, X>>), DeclareTuple(<<Y, Z>>, <<X, Call("pure")>>),
        TupleAssign(<<X, S>>, <<S, Call("act")>>), TupleAssign(<<X, S>>, <<Call("act"), S>>),
        Block(<<DeclareTuple(<<Y, Z>>, <<S, Call("act")>>), Assign(S, Y)>>),
        Assign(X, Op("add", S, Call("act"))), Assign(S, Op("sub", X, Call("act"))),
        Assign(S, Op("add", Set(X, Lit(1)), X)),
        Return(<<S, Call("act")>>), Return(<<Call("act"), S>>),
        Increment(S), Declare(Y, Call("pure")), Declare(Z, Op("add", S, Lit(1))), DeclareZero(Y),
        Require(Not(XIsZero)), Require(Op("and", XIsZero, Call("pure"))),
        Emit(S), ExprCall("send"), ExprCall("act"), Simple("revert"), Simple("assembly"),
        Return(<<X>>), Return(<<Call("act")>>), Return(<<>>),
        Unchecked(<<StepX, AddAssign(S, X)>>),
        Block(<<Declare(Y, Lit(1)), Assign(S, Y)>>),
        If(XIsZero, <<Simple("revert")>>, <<>>), If(Call("pure"), <<Simple("revert")>>, <<>>),
        If(Op("ge", X, Lit(2)), <<Block(<<>>)>>, <<Emit(X)>>),
        If(XIsZero, <<Return(<<S>>)>>, <<StepX>>),
        If(Op("or", XIsZero, Call("act")), <<StepX>>, <<>>),
        While(Op("lt", X, Lit(2)), <<StepX, If(Call("pure"), <<Simple("continue")>>, <<>>), Emit(X)>>),
        While(Call("pure"), <<Simple("break")>>),
        DoWhile(<<Emit(X), Unchecked(<<StepX>>)>>, Op("lt", X, Lit(2))),
        DoWhile(<<Emit(X), If(XIsZero, <<Simple("break")>>, <<>>), StepX>>, Lit(1)),
        For(<<Declare(Z, Lit(0))>>, Op("lt", Z, Lit(2)), <<Increment(Z)>>,
            <<If(XIsZero, <<Simple("continue")>>, <<Emit(Z)>>), ExprCall("act")>>),
        For(<<>>, Op("lt", X, Lit(2)), <<StepX>>, <<Emit(X)>>),
        For(<<>>, Op("lt", X, Lit(2)), <<StepX>>, <<If(Call("pure"), <<Simple("continue")>>, <<>>), Emit(X)>>),
        For(<<Declare(Z, Lit(0))>>, Op("lt", Z, Lit(2)), <<>>, <<Increment(Z), ExprCall("send")>>),
        Try("send", <<Emit(X)>>, << <<StepX>> >>),
        Try("send", <<>>, << <<Return(<<X>>)>>, <<Simple("revert")>> >>)}

Plain == [mods |-> <<>>, returns |-> <<>>, bases |-> <<>>]
Placeholder == Simple("placeholder")
Modifier(name, params, args, body) ==
  [name |-> name, params |-> params, args |-> args, body |-> body]

Guarded == Modifier("guarded", <<>>, <<>>,
  <<Require(Op("lt", S, Lit(1))), Assign(S, Lit(1)), Placeholder, Assign(S, Lit(0))>>)
AtLeast == Modifier("atLeast", <<Var("x", "P")>>, <<Op("add", X, Lit(1))>>,
  <<Require(Op("ge", Var("x", "P"), Lit(2))), Block(<<Placeholder>>)>>)
Twice == Modifier("twice", <<>>, <<>>, <<Placeholder, Placeholder>>)
Maybe == Modifier("maybe", <<>>, <<>>, <<If(XIsZero, <<Placeholder>>, <<>>)>>)

Parent == [init |-> <<Assign(S, Lit(2))>>, params |-> <<Var("p", "P")>>,
           args |-> <<Op("add", X, Lit(1))>>, body |-> <<AddAssign(S, Var("p", "P"))>>]

MCFunctions ==
  {Plain, [Plain EXCEPT !.returns = <<"r">>], [Plain EXCEPT !.returns = <<"">>],
   [Plain EXCEPT !.returns = <<"", "">>],
   [Plain EXCEPT !.mods = <<Guarded>>], [Plain EXCEPT !.mods = <<AtLeast, Guarded>>],
   [Plain EXCEPT !.mods = <<AtLeast>>, !.returns = <<"r">>],
   [Plain EXCEPT !.mods = <<Twice>>], [Plain EXCEPT !.mods = <<Maybe>>],
   [Plain EXCEPT !.bases = <<Parent>>]}

MCWorlds ==
  {[x |-> x, s |-> s, pure |-> p, code |-> c[1], accepts |-> c[2], rightfirst |-> r] :
     x \in {0, 3}, s \in {0, 3}, p \in {0, 1}, r \in BOOLEAN,
     c \in {<<FALSE, FALSE>>, <<TRUE, TRUE>>, <<TRUE, FALSE>>}}
=============================================================================
