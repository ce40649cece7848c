----------------------------- MODULE MemoryEffects -----------------------------
(***************************************************************************)
(* src/scripts/sol2stele.py: Solidity passes memory structs and arrays by  *)
(* reference, Stele by value.  The translator looks for the parameters     *)
(* that a function may modify, itself or through the functions it calls,   *)
(* in passes over all functions until one finds nothing new.               *)
(*                                                                         *)
(* Here an object has one field.  A body is a sequence of                  *)
(*   touch v      v.f = v.f + 1          observe v    the field's value    *)
(*   fresh v      v = a new object       alias v w    v = w, both names of *)
(*   call g vs                                        objects in memory    *)
(***************************************************************************)
EXTENDS Naturals, Sequences, FiniteSets, SequencesExt, Functions

CONSTANTS
  Names,         \* the functions, in the order of the AST: a sequence
  Parameters,    \* a sequence of variables, the same for all functions
  Programs       \* a set of functions from ToSet(Names) to bodies

VARIABLES
  program,
  writebacks,    \* per function, the indices of modified parameters
  next,          \* the function the pass looks at
  changed,       \* whether this pass has changed one
  finished

memoryVars == <<program, writebacks, next, changed, finished>>

Indices == DOMAIN Parameters
Params  == ToSet(Parameters)
Index(v) == CHOOSE i \in Indices : Parameters[i] = v

(* Parameters have names of their own, and calls are to these functions.   *)
ASSUME ProgramsAssumption ==
  /\ Names \in Seq(ToSet(Names)) /\ IsInjective(Parameters)
  /\ \A p \in Programs, f \in ToSet(Names) :
       \A s \in ToSet(p[f]) : s.k = "call" => s.fn \in ToSet(Names)

-----------------------------------------------------------------------------
(* What a body does to its parameters, as far as found in "found".         *)

Body(f) == program[f]

(* The variables whose objects are written in place, here or by a callee.  *)
InPlace(body, found) ==
  {s.v : s \in {u \in ToSet(body) : u.k = "touch"}}
  \cup UNION {{s.args[i] : i \in found[s.fn]} : s \in {u \in ToSet(body) : u.k = "call"}}

Rebound(body) == {s.v : s \in {u \in ToSet(body) : u.k \in {"fresh", "alias"}}} \cap Params

(* Names given to a parameter's object.                                    *)
Aliases(body) == {s.v : s \in {u \in ToSet(body) : u.k = "alias" /\ u.w \in Params}}

Modified(body, found) == {Index(v) : v \in InPlace(body, found) \cap Params}

Problems(body, found) ==
  (IF \E v \in Rebound(body) : Index(v) \in Modified(body, found)
   THEN {"reassigned and modified"} ELSE {})
  \cup (IF Aliases(body) \cap (InPlace(body, found) \ Params) # {}
        THEN {"modified through a local alias"} ELSE {})

(* Two arguments that the callee modifies are the same path.               *)
Overlap(s, found) ==
  \E i, j \in found[s.fn] : i < j /\ s.args[i] = s.args[j]

(* A function that is called is drafted as an internal one; one that is    *)
(* not is drafted if it is external, and has no caller's objects.          *)
IsInternal(f) == \E g \in ToSet(Names) : \E s \in ToSet(Body(g)) : s.k = "call" /\ s.fn = f

HasHole(f, found) ==
  \/ IsInternal(f) /\ Problems(Body(f), found) # {}
  \/ \E s \in ToSet(Body(f)) : s.k = "call" /\ Overlap(s, found)

-----------------------------------------------------------------------------
(* The fixed point.                                                        *)

PassesInit ==
  /\ program \in Programs
  /\ writebacks = [f \in ToSet(Names) |-> {}]
  /\ next = 1 /\ changed = FALSE /\ finished = FALSE

Scan ==
  /\ ~finished /\ next <= Len(Names)
  /\ LET f == Names[next]
         found == Modified(Body(f), writebacks)
     IN /\ writebacks' = [writebacks EXCEPT ![f] = found]
        /\ changed' = (changed \/ found # writebacks[f])
  /\ next' = next + 1
  /\ UNCHANGED <<program, finished>>

(* Fault: one pass is enough.                                              *)
OnePass == FALSE
AnotherPass == changed

Repeat ==
  /\ ~finished /\ next > Len(Names) /\ AnotherPass
  /\ next' = 1 /\ changed' = FALSE
  /\ UNCHANGED <<program, writebacks, finished>>

Finish ==
  /\ ~finished /\ next > Len(Names) /\ ~AnotherPass
  /\ finished' = TRUE
  /\ UNCHANGED <<program, writebacks, next, changed>>

PassesNext == Scan \/ Repeat \/ Finish
PassesSpec == PassesInit /\ [][PassesNext]_memoryVars

-----------------------------------------------------------------------------
(* Properties.                                                             *)

Pairs == ToSet(Names) \X Indices

(* A function hands a parameter of its own to a callee, as that parameter  *)
(* of it.                                                                  *)
Hands(p) ==
  {q \in Pairs : \E s \in ToSet(Body(p[1])) :
                  s.k = "call" /\ s.fn = q[1] /\ s.args[q[2]] = Parameters[p[2]]}

Writes(p) == \E s \in ToSet(Body(p[1])) : s.k = "touch" /\ s.v = Parameters[p[2]]

(* A function may modify a parameter exactly if a chain of calls hands it  *)
(* to a body that writes to it: one is in every set that such chains do    *)
(* not lead out of.                                                        *)
MayModify(f) ==
  {i \in Indices : \A pairs \in SUBSET Pairs :
     <<f, i>> \in pairs /\ (\A p \in pairs : Hands(p) \subseteq pairs)
       => \E p \in pairs : Writes(p)}

(* The passes find no parameter that is not modified, and in the end all   *)
(* that are, in whatever order the functions come and however they call    *)
(* each other.                                                             *)
LeastFixedPoint ==
  \A f \in ToSet(Names) :
    /\ writebacks[f] \subseteq MayModify(f)
    /\ finished => writebacks[f] = MayModify(f)
=============================================================================
