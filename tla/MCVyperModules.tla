---------------------------- MODULE MCVyperModules ----------------------------
(* A contract with two modules, one of which has a module of its own that  *)
(* it imports under the other's alias; variants, locks, getters, and an    *)
(* exported function, variable or interface.                               *)
EXTENDS VyperModules, TLC

Own(name) == [via |-> <<>>, var |-> name]
Of(alias, name) == [via |-> <<alias>>, var |-> name]
Call(via, fn, args) == [via |-> via, fn |-> fn, args |-> args]

Function(external, locked, params, defaults, calls, seen, locals, used) ==
  [external |-> external, locked |-> locked, params |-> params, defaults |-> defaults,
   calls |-> calls, reads |-> seen, locals |-> locals, structs |-> used]

Var(size, kind) == [size |-> size, kind |-> kind, public |-> FALSE, args |-> 0]
Public(var, args) == [var EXCEPT !.public = TRUE, !.args = args]
Struct(source, name) == [source |-> source, name |-> <<name>>]

(* The variants of move do not follow each other.                          *)
Id(name, arity) == [name |-> <<name>>, arity |-> arity]
Selectors(export) ==
  (Id("move", 2) :> 1) @@ (Id("total", 1) :> 3) @@ (Id("move", 1) :> 4) @@ (Id("fee", 0) :> 5)
  @@ (Id("move", 3) :> 7)
  @@ (IF export = <<"owner">> THEN <<>> ELSE Id("transfer", 1) :> 2)
  @@ (IF export = <<"transfer">> THEN <<>> ELSE Id("owner", 0) :> 6)

Program(mainLock, fallback, export, initFirst, vaultLock, cancun, file) ==
  [main |-> "main", cancun |-> cancun, selectors |-> Selectors(export),
   layout |-> file.layout, lists |-> file.lists, gap |-> file.gap, reversed |-> file.reversed,
   imports |-> [main |-> << [alias |-> "own", source |-> "auth"],
                            [alias |-> "vault", source |-> "vault"] >>,
                auth |-> <<>>, roles |-> <<>>,
                vault |-> << [alias |-> "own", source |-> "roles"] >>],
   body |-> [main |-> (IF initFirst THEN << [init |-> "own"], [init |-> "vault"] >> ELSE <<>>)
                      \o << [var |-> <<"owner">>], [var |-> <<"total">>] >>
                      \o (IF file.lists THEN << [var |-> <<"tmp">>] >> ELSE <<>>)
                      \o (IF initFirst THEN <<>> ELSE << [init |-> "own"], [init |-> "vault"] >>),
             auth |-> << [var |-> <<"owner">>] >>,
             roles |-> << [var |-> <<"role">>] >>,
             vault |-> << [init |-> "own"], [var |-> <<"total">>] >>],
   vars |-> [main |-> (<<"owner">> :> Var(1, "storage"))
                      @@ (<<"total">> :> Public(Var(3, "storage"), 1))
                      @@ (IF file.lists THEN <<"tmp">> :> Var(2, "transient") ELSE <<>>)
                      @@ (<<"fee">> :> Public(Var(1, "immutable"), 0)),
             auth |-> <<"owner">> :> Public(Var(1, "storage"), 0),
             roles |-> <<"role">> :> Var(2, "storage"),
             vault |-> <<"total">> :> Var(2, "storage")],
   exports |-> << [alias |-> "own", member |-> export] >>,
   fns |-> [
     main |->
       (<<"__init__">> :> Function(FALSE, FALSE, 1, 0, {Call(<<"own">>, <<"__init__">>, 0)},
                                   {Own(<<"fee">>)}, {<<"owner">>}, <<>>))
       @@ (<<"move">> :> Function(TRUE, mainLock, 3, 2, {Call(<<"own">>, <<"check">>, 0),
                                                        Call(<<>>, <<"settle">>, 1)},
                                  {Own(<<"owner">>), Own(<<IF file.lists THEN "tmp" ELSE "total">>)},
                                  {<<"owner">>, <<"vault", "total">>},
                                  <<Struct("main", "Info"), Struct("vault", "Info")>>))
       @@ (<<"settle">> :> Function(FALSE, FALSE, 2, 1, {Call(<<"vault">>, <<"add">>, 1)},
                                    {Own(<<"total">>)}, {<<"x">>}, <<>>))
       @@ (IF fallback # "none"
           THEN <<"__default__">> :> Function(TRUE, fallback = "locked", 0, 0,
                                              {Call(<<"vault">>, <<"add">>, 2)}, {}, {}, <<>>)
           ELSE <<>>),
     auth |->
       (<<"__init__">> :> Function(FALSE, FALSE, 0, 0, {}, {Own(<<"owner">>)}, {}, <<>>))
       @@ (<<"check">> :> Function(FALSE, FALSE, 0, 0, {}, {Own(<<"owner">>)}, {<<"own", "owner">>}, <<>>))
       @@ (<<"transfer">> :> Function(TRUE, FALSE, 1, 0, {Call(<<>>, <<"check">>, 0)},
                                      {Own(<<"owner">>)}, {}, <<>>)),
     roles |->
       (<<"check">> :> Function(FALSE, TRUE, 0, 0, {}, {Own(<<"role">>)}, {}, <<>>)),
     vault |->
       (<<"add">> :> Function(FALSE, vaultLock, 2, 1, {Call(<<"own">>, <<"check">>, 0)},
                              {Own(<<"total">>), Of("own", <<"role">>)},
                              {<<"own", "total">>}, <<Struct("vault", "Info")>>))]]

(* A layout that leaves the lock out has no variable of its kind.          *)
NoLayout == [layout |-> FALSE, lists |-> TRUE, gap |-> 0, reversed |-> FALSE]
Layouts ==
  {[layout |-> TRUE, lists |-> TRUE, gap |-> gap, reversed |-> reversed] :
     gap \in {0, 2}, reversed \in BOOLEAN}
Unlisted == [layout |-> TRUE, lists |-> FALSE, gap |-> 0, reversed |-> FALSE]

MCPrograms ==
  {Program(mainLock, fallback, export, initFirst, vaultLock, cancun, file) :
     mainLock \in BOOLEAN, fallback \in {"none", "plain", "locked"},
     export \in {<<"transfer">>, <<"owner">>, <<"__interface__">>}, initFirst \in BOOLEAN,
     vaultLock \in BOOLEAN, cancun \in BOOLEAN, file \in Layouts \cup {NoLayout}}
  \cup
  {Program(mainLock, "none", <<"transfer">>, initFirst, FALSE, TRUE, Unlisted) :
     mainLock \in BOOLEAN, initFirst \in BOOLEAN}
=============================================================================
