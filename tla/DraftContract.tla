----------------------------- MODULE DraftContract -----------------------------
(***************************************************************************)
(* src/scripts/sol2stele.py: which functions of a contract, its bases and  *)
(* its libraries the draft has, under which names, and what their calls    *)
(* refer to.  The external functions are translated first, those that are  *)
(* called internally as well once more, then the constructor, then every   *)
(* internal function that a translated body has asked for.                 *)
(***************************************************************************)
EXTENDS Naturals, Sequences, FiniteSets, SequencesExt, FiniteSetsExt

CONSTANTS
  Linear,        \* the contract and its bases, most derived first
  Sources        \* [functions: Seq of functions in the order of the AST,
                 \*  constructor: the calls its body and initialisers make]
                 \* a function: [owner, name, params, public, private, calls],
                 \* a call: [to, how] with how one of "plain", "super",
                 \* "named" (with the contract's or the library's name)

VARIABLES
  source,
  names,         \* surface names given so far, to functions by position
  needed,        \* internal functions to translate, in order of demand
  split,         \* public functions that are called internally
  texts,         \* the calls in each function translated, so far
  entry, todo,   \* the function being translated, its calls to come
  turn,          \* "externals", "again", "constructor", "internals", "done"
  at             \* the next function of this turn

contractVars == <<source, names, needed, split, texts, entry, todo, turn, at>>
work == <<names, needed, split>>

Ids       == DOMAIN source.functions
F(i)      == source.functions[i]
Key(i)    == <<F(i).name, F(i).params>>

(* What solc has made sure of: the hierarchy is one without repetition, no *)
(* contract has two functions of a signature, calls are to functions, and  *)
(* those of super to a base's that is not private.                         *)
ASSUME SourcesAssumption ==
  /\ Linear \in Seq(ToSet(Linear)) /\ Linear # <<>> /\ IsInjective(Linear)
  /\ \A s \in Sources :
       LET fs == s.functions
           calls == Seq([to : DOMAIN fs, how : {"plain", "super", "named"}])
       IN /\ \A i, j \in DOMAIN fs :
               fs[i].owner = fs[j].owner /\ fs[i].name = fs[j].name
                 /\ fs[i].params = fs[j].params => i = j
          /\ s.constructor \in calls
          /\ \A i \in DOMAIN fs : fs[i].calls \in calls
          /\ \A i \in DOMAIN fs : \A c \in ToSet(fs[i].calls) :
               c.how = "super" =>
                 /\ ~fs[c.to].private
                 /\ \E m, n \in DOMAIN Linear :
                      m < n /\ Linear[m] = fs[i].owner /\ Linear[n] = fs[c.to].owner

Position(c) == CHOOSE n \in DOMAIN Linear : Linear[n] = c
InHierarchy(i) == F(i).owner \in ToSet(Linear)

-----------------------------------------------------------------------------
(* What a call refers to.                                                  *)

(* The implementations of i's signature from position n on, and the first. *)
Implementations(i, n) ==
  {j \in Ids : InHierarchy(j) /\ Key(j) = Key(i) /\ Position(F(j).owner) >= n}

FirstFrom(i, n) ==
  IF Implementations(i, n) = {} THEN i
  ELSE CHOOSE j \in Implementations(i, n) :
         \A l \in Implementations(i, n) : Position(F(j).owner) <= Position(F(l).owner)

(* Fault: super finds the caller's own function again.                     *)
SuperFromSelf(call, owner) ==
  IF call.how = "super" /\ owner \in ToSet(Linear) THEN FirstFrom(call.to, Position(owner))
  ELSE FirstFrom(call.to, 1)

Effective(call, owner) ==
  IF call.how = "super" /\ owner \in ToSet(Linear) THEN FirstFrom(call.to, Position(owner) + 1)
  ELSE FirstFrom(call.to, 1)

-----------------------------------------------------------------------------
(* Names.                                                                  *)

(* The parts that a name is put together from: functions that are not the  *)
(* most derived show their owner, overloads their parameters, the bodies   *)
(* of public functions a suffix.  (Parts that read alike when they are     *)
(* joined, a name with an underscore and an owner before it, say, are told *)
(* apart here.)                                                            *)
MostDerived(i) == InHierarchy(i) /\ FirstFrom(i, 1) = i

(* Fault: the owner never shows.                                           *)
Unqualified(i) == <<>>
Qualifier(i)   == IF MostDerived(i) THEN <<>> ELSE <<F(i).owner>>

Name(i, params, suffix) ==
  [owner |-> Qualifier(i), name |-> F(i).name, params |-> params, suffix |-> suffix]
Base(i) == Name(i, <<>>, "")

Clashes(i, ns) == \E j \in DOMAIN ns : ns[j] = Base(i) /\ Key(j) # Key(i)

NewName(i, ns, sp) ==
  Name(i, IF Clashes(i, ns) THEN <<F(i).params>> ELSE <<>>, IF i \in sp THEN "body" ELSE "")

Forget(i, ns) == [j \in DOMAIN ns \ {i} |-> ns[j]]

Give(i, ns, sp) ==
  [j \in DOMAIN ns \cup {i} |-> IF j \in DOMAIN ns THEN ns[j] ELSE NewName(i, ns, sp)]

Owner(e) == IF e[1] = "constructor" THEN Linear[1] ELSE F(e[2]).owner

WithNeeded(t) == IF t \in ToSet(needed) THEN needed ELSE Append(needed, t)

(* hoist_internal_call: the target is needed, and split if it is public as *)
(* well.                                                                   *)
HoistCall ==
  /\ todo # <<>>
  /\ LET t == Effective(Head(todo), Owner(entry)) IN
     /\ split' = IF F(t).public THEN split \cup {t} ELSE split
     /\ names' = Give(t, IF F(t).public THEN Forget(t, names) ELSE names, split')
     /\ needed' = WithNeeded(t)
     /\ texts' = [texts EXCEPT ![entry] =
                    Append(@, [call |-> Head(todo), name |-> names'[t], target |-> t])]
  /\ todo' = Tail(todo)
  /\ UNCHANGED <<source, entry, turn, at>>

(* render_function: the text of e starts, with these calls to come.        *)
Render(e, sites, calls) ==
  /\ entry' = e /\ todo' = calls
  /\ texts' = [t \in DOMAIN texts \cup {e} |-> IF t = e THEN sites ELSE texts[t]]

Wrapper == [to |-> 0, how |-> "wrapper"]

RenderWrapper(i) ==
  /\ names' = Give(i, names, split)
  /\ Render(<<"external", i>>, <<[call |-> Wrapper, name |-> names'[i], target |-> i]>>, <<>>)
  /\ UNCHANGED <<needed, split>>

-----------------------------------------------------------------------------
(* The most derived implementation of every public function, and which of  *)
(* them is the next.                                                       *)
Externals == {FirstFrom(i, 1) : i \in {j \in Ids : InHierarchy(j) /\ F(j).public}}
Ahead     == {i \in Externals : i >= at}
Coming    == {i \in Ahead : \A j \in Ahead : i <= j}

ContractInit ==
  /\ source \in Sources
  /\ names = <<>> /\ needed = <<>> /\ split = {}
  /\ texts = <<>> /\ entry = <<>> /\ todo = <<>>
  /\ turn = "externals" /\ at = 1

(* A turn comes to a position, once the calls of the one before are        *)
(* translated.                                                             *)
Begin(which, position) ==
  /\ turn = which /\ todo = <<>>
  /\ at' = position + 1
  /\ UNCHANGED <<source, turn>>

External ==
  \E i \in Coming :
    /\ Begin("externals", i)
    /\ IF i \in split THEN RenderWrapper(i)
       ELSE Render(<<"external", i>>, <<>>, F(i).calls) /\ UNCHANGED work

Again ==
  \E i \in Coming :
    /\ Begin("again", i)
    /\ IF i \in split THEN RenderWrapper(i)
       ELSE UNCHANGED <<texts, entry, todo, work>>

Constructor ==
  /\ at = 1 /\ Begin("constructor", at)
  /\ Render(<<"constructor", 0>>, <<>>, source.constructor)
  /\ UNCHANGED work

Internal ==
  /\ at <= Len(needed) /\ Begin("internals", at)
  /\ LET i == needed[at] IN
     /\ names' = Give(i, names, split)
     /\ Render(<<"internal", i, names'[i]>>, <<>>, F(i).calls)
     /\ UNCHANGED <<needed, split>>

(* Fault: the work list is gone through again as long as it is not empty.  *)
RestartedTurn == [externals |-> "again", again |-> "constructor",
                  constructor |-> "internals",
                  internals |-> IF needed = <<>> THEN "done" ELSE "internals"]
TurnAfter == [externals |-> "again", again |-> "constructor",
              constructor |-> "internals", internals |-> "done"]

NextTurn ==
  /\ turn # "done" /\ todo = <<>>
  /\ CASE turn \in {"externals", "again"} -> Coming = {}
       [] turn = "constructor" -> at > 1
       [] turn = "internals" -> at > Len(needed)
  /\ turn' = TurnAfter[turn] /\ at' = 1
  /\ UNCHANGED <<source, texts, entry, todo, work>>

ContractNext == External \/ Again \/ Constructor \/ Internal \/ HoistCall \/ NextTurn

ContractSpec == ContractInit /\ [][ContractNext]_contractVars

-----------------------------------------------------------------------------
(* Properties.                                                             *)

Done == turn = "done"
Sites == UNION {ToSet(texts[t]) : t \in DOMAIN texts}
Internals == {t \in DOMAIN texts : t[1] = "internal"}

(* Functions that the naming cannot keep apart: overloads, where one is a  *)
(* public function that is called internally.                              *)
Overloaded == \E i \in split, j \in ToSet(needed) : F(i).name = F(j).name /\ Key(i) # Key(j)

Defined(site) ==
  LET defining == {t \in Internals : t[3] = site.name} IN
  defining # {} /\ \A t \in defining : t[2] = site.target

(* Every call of the draft names one internal function of the draft, the   *)
(* one it is meant for, although names are given on demand and taken back  *)
(* when a public function turns out to be called internally.               *)
CallsDefined == Done /\ ~Overloaded => \A site \in Sites : Defined(site)

(* A call by the name of a base or a library, of a library's function or   *)
(* of a private one does not take part in virtual dispatch.                *)
Statically(call) == call.how = "named" \/ F(call.to).private \/ ~InHierarchy(call.to)
Hidden(call) == Statically(call) /\ FirstFrom(call.to, 1) # call.to

(* Calls go where Solidity's go; those of super to the next implementation *)
(* after the caller's, in the order of the whole hierarchy.                *)
SolidityTarget(call, owner) ==
  IF Statically(call) THEN call.to
  ELSE LET n == IF call.how = "super" THEN Position(owner) + 1 ELSE 1 IN
       CHOOSE j \in Ids :
         /\ InHierarchy(j) /\ Key(j) = Key(call.to) /\ Position(F(j).owner) >= n
         /\ \A l \in Ids : InHierarchy(l) /\ Key(l) = Key(call.to) /\ Position(F(l).owner) >= n
                             => Position(F(j).owner) <= Position(F(l).owner)

(* But for those, every call goes where Solidity's does.                   *)
DispatchFaithful ==
  \A t \in DOMAIN texts : t[1] # "constructor" =>
    \A site \in ToSet(texts[t]) :
      site.call = Wrapper \/ Hidden(site.call)
      \/ site.target = SolidityTarget(site.call, F(t[2]).owner)

=============================================================================
