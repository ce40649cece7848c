------------------------------ MODULE VyperModules ------------------------------
(***************************************************************************)
(* src/scripts/vy2stele.py: how a Vyper contract and the modules it        *)
(* imports become one Stele contract.  Every module is reached along a     *)
(* path of import aliases, and what it declares carries that path as a     *)
(* prefix.  The external surface is rendered first; it asks for internal   *)
(* functions, which are rendered until none is missing; then the storage   *)
(* declarations follow the compiler's layout.                              *)
(*                                                                         *)
(* A name is the sequence of its words, so that "lib_f" is <<"lib", "f">>  *)
(* whether it is f of the module lib or lib_f of the contract itself.      *)
(***************************************************************************)
EXTENDS Naturals, Sequences, FiniteSets, SequencesExt

CONSTANT
  Programs       \* the contracts to draft

ASSUME ProgramsAssumption ==
  \A p \in Programs :
    /\ p.cancun \in BOOLEAN /\ p.layout \in BOOLEAN /\ p.lists \in BOOLEAN
    /\ p.gap \in Nat /\ p.reversed \in BOOLEAN

(* A program gives for each source file:                                   *)
(*   imports   [source -> sequence of [alias, source]]                     *)
(*   body      [source -> sequence of the variables and the initialized    *)
(*             modules: [var] or [init], in source order]                  *)
(*   vars      [source -> [name -> [size, kind, public, args]]], kind      *)
(*             "storage", "transient" or "immutable", args those that its  *)
(*             getter has                                                  *)
(*   fns       [source -> [name -> function]], a function has external,    *)
(*             locked, params, defaults, calls (a set of [via, fn, args]), *)
(*             reads (a set of [via, var]), locals, structs (a sequence of *)
(*             [source, name]); via is <<>> for self, or <<alias>>         *)
(* and exports, a sequence of [alias, member], main, its own source,       *)
(* selectors, the compiler's method identifiers [[name, arity] -> number], *)
(* cancun (whether the lock is transient), layout (whether                 *)
(* <Name>.storage.json is there), lists (whether it lists the lock), and   *)
(* what an override of the layout does: gap (slots that it leaves free)    *)
(* and reversed (whether it places the last variable first).               *)
VARIABLES
  prog,
  phase,         \* "surface", "default", "internal", "storage", "done"
  surface,       \* what is left of the external surface: [key, name, arity, kind]
  needed,        \* keys of internal functions asked for, [path, fn], in order
  wrapped,       \* keys of functions with a lock around them, in order
  pending,       \* what is left of a round of the worklist: [key, kind]
  out,           \* functions written: [name, params, key, kind, locals]
  refs,          \* calls written: [name, args]
  reads,         \* variables read: [name, key (path and variable)]
  structs,       \* [struct -> name]
  items,         \* layout entries still to be declared
  decls          \* declarations written: [name, key, size, slot, transient]

vars == <<prog, phase, surface, needed, wrapped, pending, out, refs, reads, structs,
          items, decls>>

-----------------------------------------------------------------------------
(* Modules.                                                                *)

Aliases(s) == {prog.imports[s][n].alias : n \in 1..Len(prog.imports[s])}

Imported(s, alias) ==
  (CHOOSE i \in ToSet(prog.imports[s]) : i.alias = alias).source

SourceAt(path) == FoldLeft(Imported, prog.main, path)

(* build_module: one module per path of aliases, in the order they are     *)
(* built.                                                                  *)
RECURSIVE Instances(_, _)
Instances(s, path) ==
  <<path>> \o FlattenSeq([n \in 1..Len(prog.imports[s]) |->
                Instances(prog.imports[s][n].source, Append(path, prog.imports[s][n].alias))])

AllModules == ToSet(Instances(prog.main, <<>>))

(* modules_by_source: the first one built.                                 *)
FirstPath(s) == SelectSeq(Instances(prog.main, <<>>), LAMBDA path : SourceAt(path) = s)[1]

Prefixed(path, name) == path \o name

Fn(key) == prog.fns[SourceAt(key.path)][key.fn]
Key(path, fn) == [path |-> path, fn |-> fn]
WithBody(name) == name \o <<"body">>

LockName == <<"nonreentrant", "lock">>

ReservedNames ==
  {LockName} \cup UNION {{Prefixed(path, v) : v \in DOMAIN prog.vars[SourceAt(path)]} : path \in AllModules}

(* declare_local: x becomes x_.                                            *)
Local(name) == IF name \in ReservedNames THEN name \o <<"">> ELSE name

-----------------------------------------------------------------------------
(* The functions a body calls by name, and what it reads.                  *)

Called(key, call) == Key(key.path \o call.via, call.fn)

(* require_internal *)
InternalName(key) ==
  IF Fn(key).locked THEN WithBody(Prefixed(key.path, key.fn)) ELSE Prefixed(key.path, key.fn)

(* hoist_internal_call: the arguments that are given and then defaults.    *)
(* Fault: the defaults are left to the callee.                             *)
GivenArguments(key, call) == call.args
ArgumentCount(key, call) == call.args + (Fn(Called(key, call)).params - call.args)

CallsOf(key) ==
  {[name |-> InternalName(Called(key, c)), args |-> ArgumentCount(key, c)] : c \in Fn(key).calls}
NeededBy(key) == {Called(key, c) : c \in Fn(key).calls}

(* Those that are not in a list yet.                                       *)
With(list, keys) == list \o SetToSeq(keys \ ToSet(list))
(* Fault: self.x is x, in a module as well.                                *)
ReadsUnprefixed(key) ==
  {[name |-> Prefixed(r.via, r.var),
    var |-> Key(key.path \o r.via, r.var)] : r \in Fn(key).reads}
ReadsOf(key) ==
  {[name |-> Prefixed(key.path \o r.via, r.var),
    var |-> Key(key.path \o r.via, r.var)] : r \in Fn(key).reads}

WithStruct(known, s) ==
  IF s \in DOMAIN known THEN known
  ELSE LET taken == s.name \in {known[t] : t \in DOMAIN known}
           path  == FirstPath(s.source) IN
       known @@ (s :> IF ~taken THEN s.name
                      ELSE IF path # <<>> THEN Prefixed(path, s.name)
                      ELSE s.name \o <<s.source, "node">>)
StructsAfter(key) == FoldLeft(WithStruct, structs, Fn(key).structs)

Written(name, params, key, kind, locals) ==
  [name |-> name, params |-> params, key |-> key, kind |-> kind,
   locals |-> {<<l, Local(l)>> : l \in locals}]

(* The body goes here.                                                     *)
Translated(key) ==
  /\ refs' = refs \cup CallsOf(key)
  /\ needed' = With(needed, NeededBy(key))
  /\ reads' = reads \cup ReadsOf(key)
  /\ structs' = StructsAfter(key)
  /\ UNCHANGED wrapped

(* render_function: a function with a lock calls its body, which is        *)
(* written once, whatever number of variants it has.                       *)
RenderFunction(key, name) ==
  LET f == Fn(key) IN
  IF f.locked
  THEN /\ refs' = refs \cup {[name |-> WithBody(name), args |-> f.params]}
       /\ wrapped' = With(wrapped, {key})
       /\ UNCHANGED <<needed, reads, structs>>
  ELSE Translated(key)

-----------------------------------------------------------------------------
(* The compiler's slots: the variables in the order of their declarations, *)
(* those of a module where it is initialized, or in the order of an        *)
(* override, after the slot of the lock and the ones that are left free.   *)

RECURSIVE SourceOrder(_, _)
SourceOrder(path, body) ==
  IF body = <<>> THEN <<>>
  ELSE (IF "var" \in DOMAIN Head(body) THEN <<Key(path, Head(body).var)>>
        ELSE LET below == path \o <<Head(body).init>> IN
             SourceOrder(below, prog.body[SourceAt(below)]))
       \o SourceOrder(path, Tail(body))

VarAt(key) == prog.vars[SourceAt(key.path)][key.fn]

StoredIn(kind) ==
  SelectSeq(SourceOrder(<<>>, prog.body[prog.main]), LAMBDA key : VarAt(key).kind = kind)

LockKey == Key(<<>>, LockName)

LockUsed == wrapped # <<>>

LockTransient == prog.cancun

Entry(key, slot, transient) ==
  [name |-> Prefixed(key.path, key.fn), key |-> key,
   size |-> IF key = LockKey THEN 1 ELSE VarAt(key).size,
   slot |-> slot, transient |-> transient]

(* Slots from the first one that is free, in the order of keys; the        *)
(* entries are listed as they are declared.                                *)
Placed(keys, first, transient) ==
  LET order == IF prog.reversed THEN Reverse(keys) ELSE keys
      before(key) == SubSeq(order, 1, (CHOOSE n \in 1..Len(order) : order[n] = key) - 1)
  IN [n \in 1..Len(keys) |->
        Entry(keys[n],
              first + FoldLeft(LAMBDA sum, k : sum + VarAt(k).size, 0, before(keys[n])),
              transient)]

LockEntry(transient) ==
  IF LockUsed /\ transient = LockTransient THEN <<Entry(LockKey, 0, transient)>> ELSE <<>>

CompilerSlots(transient) ==
  LET first == (IF transient = LockTransient THEN 1 ELSE 0) + (IF transient THEN 0 ELSE prog.gap) IN
  Placed(StoredIn(IF transient THEN "transient" ELSE "storage"), first, transient)
  \o LockEntry(transient)

(* <Name>.storage.json                                                     *)
Layout(transient) ==
  SelectSeq(CompilerSlots(transient), LAMBDA e : prog.lists \/ e.key # LockKey)

-----------------------------------------------------------------------------
(* external_entries: the getters of public variables, then the functions,  *)
(* one variant for each number of default arguments left out; those of the *)
(* contract, then the exported ones.                                       *)
Getter(key) ==
  [key |-> key, name |-> key.fn, arity |-> VarAt(key).args, kind |-> "getter"]

Getters(path) ==
  LET declared == prog.vars[SourceAt(path)] IN
  LET public == SetToSeq({v \in DOMAIN declared : declared[v].public}) IN
  [n \in 1..Len(public) |-> Getter(Key(path, public[n]))]

Variants(key) ==
  LET required == Fn(key).params - Fn(key).defaults IN
  [n \in 1..Fn(key).defaults + 1 |->
     [key |-> key, name |-> key.fn, arity |-> required + n - 1, kind |-> "external"]]

Exposed(path) ==
  LET declared == prog.fns[SourceAt(path)] IN
  LET external == SetToSeq({f \in DOMAIN declared : declared[f].external /\ f # <<"__default__">>}) IN
  FlattenSeq([n \in 1..Len(external) |-> Variants(Key(path, external[n]))])

OfInterface(e) == e.member = <<"__interface__">>
OfFunction(e) == e.member \in DOMAIN prog.fns[SourceAt(<<e.alias>>)]

ExportedGetters(e) ==
  IF OfInterface(e) THEN Getters(<<e.alias>>)
  ELSE IF OfFunction(e) THEN <<>> ELSE <<Getter(Key(<<e.alias>>, e.member))>>

ExportedFunctions(e) ==
  IF OfInterface(e) THEN Exposed(<<e.alias>>)
  ELSE IF OfFunction(e) THEN Variants(Key(<<e.alias>>, e.member)) ELSE <<>>

ForExports(Of(_)) == FlattenSeq([n \in 1..Len(prog.exports) |-> Of(prog.exports[n])])

Surface ==
  Getters(<<>>) \o ForExports(ExportedGetters) \o Exposed(<<>>) \o ForExports(ExportedFunctions)

Signature(f) == [name |-> f.name, arity |-> f.params]

BySelector(entries) ==
  SortSeq(entries, LAMBDA e, f : prog.selectors[Signature(e)] < prog.selectors[Signature(f)])

(* The end of external_entries: "selector order, with the variants of one  *)
(* source name adjacent at the first one's position".                      *)
(* Fault: the selectors' order alone.                                      *)
Ungrouped(entries) == BySelector(entries)
Grouped(entries) ==
  LET sorted == BySelector(entries)
      names  == FoldLeft(LAMBDA seen, e : With(seen, {e.name}), <<>>, sorted)
  IN FlattenSeq([n \in 1..Len(names) |-> SelectSeq(sorted, LAMBDA e : e.name = names[n])])

NoStructs == [s \in {} |-> <<>>]

Init ==
  /\ prog \in Programs
  /\ phase = "surface"
  /\ surface = Surface
  /\ needed = <<>> /\ wrapped = <<>> /\ pending = <<>>
  /\ out = <<>> /\ refs = {} /\ reads = {} /\ structs = NoStructs
  /\ items = <<>> /\ decls = <<>>

(* render_getter *)
RenderGetter(key) ==
  /\ reads' = reads \cup {[name |-> Prefixed(key.path, key.fn), var |-> key]}
  /\ UNCHANGED <<needed, wrapped, refs, structs>>

RenderEntry ==
  /\ phase = "surface" /\ surface # <<>>
  /\ LET e == Head(surface)
         locals == IF e.kind = "getter" THEN {} ELSE Fn(e.key).locals
         entries == Append(out, Written(e.name, e.arity, e.key, e.kind, locals))
     IN /\ IF e.kind = "getter" THEN RenderGetter(e.key) ELSE RenderFunction(e.key, e.name)
        /\ out' = IF Len(surface) = 1 THEN Grouped(entries) ELSE entries
  /\ surface' = Tail(surface)
  /\ UNCHANGED <<prog, phase, pending, items, decls>>

(* render_constructor; the functions of the modules that it calls are      *)
(* internal ones.  Without parameters and lines it is not written.         *)
RenderConstructor ==
  LET key == Key(<<>>, <<"__init__">>)
      lines == Fn(key).calls \cup Fn(key).reads \cup Fn(key).locals
  IN
  /\ phase = "surface" /\ surface = <<>>
  /\ IF key.fn \in DOMAIN prog.fns[prog.main]
     THEN /\ Translated(key)
          /\ out' = IF Fn(key).params = 0 /\ lines = {} THEN out
                    ELSE Append(out, Written(key.fn, Fn(key).params, key, "constructor", Fn(key).locals))
     ELSE UNCHANGED <<needed, wrapped, out, refs, reads, structs>>
  /\ phase' = "default"
  /\ UNCHANGED <<prog, surface, pending, items, decls>>

(* render_default *)
RenderDefault ==
  LET key == Key(<<>>, <<"__default__">>) IN
  /\ phase = "default"
  /\ IF key.fn \in DOMAIN prog.fns[prog.main]
     THEN /\ RenderFunction(key, key.fn)
          /\ out' = Append(out, Written(key.fn, 0, key, "fallback", Fn(key).locals))
     ELSE UNCHANGED <<needed, wrapped, out, refs, reads, structs>>
  /\ phase' = "internal"
  /\ UNCHANGED <<prog, surface, pending, items, decls>>

WrittenAs(kind) == {out[n].key : n \in {m \in 1..Len(out) : out[m].kind = kind}}

Round ==
  LET functions == SelectSeq(needed, LAMBDA key : key \notin WrittenAs("internal"))
      bodies    == SelectSeq(wrapped, LAMBDA key : key \notin WrittenAs("body"))
  IN [n \in 1..Len(functions) |-> [key |-> functions[n], kind |-> "internal"]]
     \o [n \in 1..Len(bodies) |-> [key |-> bodies[n], kind |-> "body"]]

NextRound ==
  /\ phase = "internal" /\ pending = <<>> /\ Round # <<>>
  /\ pending' = Round
  /\ UNCHANGED <<prog, phase, surface, needed, wrapped, out, refs, reads, structs, items, decls>>

RenderInternal ==
  /\ phase = "internal" /\ pending # <<>> /\ Head(pending).kind = "internal"
  /\ LET key == Head(pending).key  name == Prefixed(key.path, key.fn) IN
     /\ RenderFunction(key, name)
     /\ out' = Append(out, Written(name, Fn(key).params, key, "internal", Fn(key).locals))
  /\ pending' = Tail(pending)
  /\ UNCHANGED <<prog, phase, surface, items, decls>>

(* render_body_function                                                    *)
RenderBody ==
  /\ phase = "internal" /\ pending # <<>> /\ Head(pending).kind = "body"
  /\ LET key == Head(pending).key IN
     /\ out' = Append(out, Written(WithBody(Prefixed(key.path, key.fn)), Fn(key).params,
                                   key, "body", Fn(key).locals))
     /\ Translated(key)
  /\ pending' = Tail(pending)
  /\ UNCHANGED <<prog, phase, surface, items, decls>>

(* storage_items: the layout's entries by slot, or the source order.       *)
InSourceOrder(kind) ==
  [n \in 1..Len(StoredIn(kind)) |-> Entry(StoredIn(kind)[n], 0, kind = "transient")]

BySlot(entries) == SortSeq(entries, LAMBDA d, e : d.slot < e.slot)

StartStorage ==
  /\ phase = "internal" /\ pending = <<>> /\ Round = <<>>
  /\ IF prog.layout
     THEN items' = BySlot(Layout(FALSE)) \o BySlot(Layout(TRUE)) /\ decls' = <<>>
     ELSE items' = <<>> /\ decls' = InSourceOrder("storage") \o InSourceOrder("transient")
  /\ phase' = "storage"
  /\ UNCHANGED <<prog, surface, needed, wrapped, pending, out, refs, reads, structs>>

(* The slot behind the last declaration.                                   *)
NextSlot(transient) ==
  FoldLeft(LAMBDA next, d : IF d.transient = transient THEN d.slot + d.size ELSE next, 0, decls)

Reserved(slot, transient) ==
  LET name == <<"__reserved", ToString(slot)>> IN
  [name |-> name, key |-> Key(<<>>, name), size |-> 1, slot |-> slot, transient |-> transient]

(* fill_gaps *)
(* Fault: no padding.                                                      *)
Unpadded ==
  /\ phase = "storage" /\ items # <<>>
  /\ decls' = Append(decls, Head(items))
  /\ items' = Tail(items)
  /\ UNCHANGED <<prog, phase, surface, needed, wrapped, pending, out, refs, reads, structs>>
Declare ==
  /\ phase = "storage" /\ items # <<>>
  /\ LET item == Head(items)  next == NextSlot(item.transient) IN
     IF next < item.slot
     THEN decls' = Append(decls, Reserved(next, item.transient)) /\ UNCHANGED items
     ELSE decls' = Append(decls, item) /\ items' = Tail(items)
  /\ UNCHANGED <<prog, phase, surface, needed, wrapped, pending, out, refs, reads, structs>>

(* A lock that is used and not listed goes to the front of its kind.       *)
Finish ==
  /\ phase = "storage" /\ items = <<>>
  /\ decls' = IF \E n \in 1..Len(decls) : decls[n].key = LockKey THEN decls
              ELSE LockEntry(LockTransient) \o decls
  /\ phase' = "done"
  /\ UNCHANGED <<prog, surface, needed, wrapped, pending, out, refs, reads, structs, items>>

Next == \/ RenderEntry \/ RenderConstructor \/ RenderDefault
        \/ NextRound \/ RenderInternal \/ RenderBody
        \/ StartStorage \/ Declare \/ Finish

Spec == Init /\ [][Next]_vars

-----------------------------------------------------------------------------
(* Properties.                                                             *)

(* Every name in the finished draft stands for one thing: of a call there  *)
(* is one function with its name and as many parameters as the call has    *)
(* arguments, and no two structs share a name.                             *)
Callable(f) == f.kind \notin {"constructor", "fallback"}

NamesResolve ==
  /\ phase = "done" =>
       \A r \in refs :
         Cardinality({n \in 1..Len(out) :
                        Callable(out[n]) /\ out[n].name = r.name /\ out[n].params = r.args}) = 1
  /\ \A s, t \in DOMAIN structs : structs[s] = structs[t] => s = t

(* The selector table that src/scripts/scaffold.py (selector_table) makes  *)
(* of the compiler's method identifiers and of the names in the draft,     *)
(* once for each transition, in the draft's order.                         *)
External == SelectSeq(out, LAMBDA f : f.kind \in {"getter", "external"})

SelectorTable ==
  LET found  == FoldLeft(LAMBDA seen, f : With(seen, {f.name}), <<>>, External)
      sorted == SetToSortSeq(DOMAIN prog.selectors,
                             LAMBDA c, d : prog.selectors[c] < prog.selectors[d])
      of(name) == SelectSeq(sorted, LAMBDA c : c.name = name)
      rest   == SelectSeq(sorted, LAMBDA c : c.name \notin ToSet(found))
  IN FlattenSeq([n \in 1..Len(found) |-> of(found[n])]) \o rest

(* The table and the draft agree at every index, so that each selector of  *)
(* the compiler, those of variants, getters and exports included, has one  *)
(* transition and the dispatcher's arm is compared with it.                *)
TableIsSurface ==
  phase = "done" =>
    SelectorTable = [n \in 1..Len(External) |-> Signature(External[n])]

(* What a function reads is declared under that name once, by the module   *)
(* that it means, and no local hides it: "a name that shadows a            *)
(* contract-level declaration is renamed", and the new name is neither     *)
(* that of a declaration nor that of another local.                        *)
Immutables(path) ==
  LET declared == prog.vars[SourceAt(path)] IN
  {[name |-> Prefixed(path, v), var |-> Key(path, v)] :
     v \in {w \in DOMAIN declared : declared[w].kind = "immutable"}}

Declared ==
  {[name |-> decls[n].name, var |-> decls[n].key] : n \in 1..Len(decls)}
  \cup UNION {Immutables(path) : path \in AllModules}

ReadsDeclared ==
  phase = "done" =>
    /\ \A r \in reads : {d \in Declared : d.name = r.name} = {r}
    /\ \A n \in 1..Len(out) : \A l \in out[n].locals :
         /\ \A d \in Declared : d.name # l[2]
         /\ \A m \in out[n].locals : m[2] = l[2] => m = l

(* Where Stele puts a declaration: behind those of its kind before it.     *)
OffsetOf(n) ==
  FoldLeft(LAMBDA sum, d : sum + d.size, 0,
           SelectSeq(SubSeq(decls, 1, n - 1), LAMBDA d : d.transient = decls[n].transient))

(* Where a variable is in the sources: the places of the initializations   *)
(* on its path, and its own.                                               *)
PlaceIn(path, item) ==
  LET body == prog.body[SourceAt(path)] IN CHOOSE n \in 1..Len(body) : body[n] = item

Place(key) ==
  [n \in 1..Len(key.path) |-> PlaceIn(SubSeq(key.path, 1, n - 1), [init |-> key.path[n]])]
  \o <<PlaceIn(key.path, [var |-> key.fn])>>

Earlier(p, q) ==
  \E n \in 1..Len(p) : /\ n <= Len(q) /\ p[n] < q[n]
                       /\ \A m \in 1..n - 1 : p[m] = q[m]

InPlace(key) ==
  \E n \in 1..Len(decls) : decls[n].key = key /\ decls[n].transient = (VarAt(key).kind = "transient")

Before(k, l) ==
  \E m, n \in 1..Len(decls) : m < n /\ decls[m].key = k /\ decls[n].key = l

(* With the layout, the lock and every variable get the slots that the     *)
(* compiler has given them, whatever the order of its entries and wherever *)
(* slots are left free; without it, two variables of a kind keep the order *)
(* of the sources and follow the lock.                                     *)
Variables(kind) ==
  UNION {{Key(path, v) : v \in {w \in DOMAIN prog.vars[SourceAt(path)] :
                                  prog.vars[SourceAt(path)][w].kind = kind}} : path \in AllModules}

StorageKept ==
  phase = "done" =>
    IF prog.layout
    THEN \A transient \in BOOLEAN : \A e \in ToSet(CompilerSlots(transient)) :
           \E n \in 1..Len(decls) :
             decls[n].name = e.name /\ decls[n].transient = transient /\ OffsetOf(n) = e.slot
    ELSE /\ \A kind \in {"storage", "transient"} : \A k, l \in Variables(kind) :
              /\ InPlace(k)
              /\ Earlier(Place(k), Place(l)) => Before(k, l)
         /\ LockUsed => decls[1] = Entry(LockKey, 0, LockTransient)
=============================================================================
