-------------------------- MODULE MemoryEffectsProofs --------------------------
(***************************************************************************)
(* Proofs about MemoryEffects, for any number of functions, parameters and *)
(* statements, in any order and however the functions call each other.     *)
(***************************************************************************)
EXTENDS MemoryEffects, TLAPS

Callables == ToSet(Names)

TypeOK ==
  /\ program \in Programs
  /\ writebacks \in [Callables -> SUBSET Indices]
  /\ next \in 1..(Len(Names) + 1)
  /\ changed \in BOOLEAN /\ finished \in BOOLEAN

(* No pass finds what is not there, ...                                    *)
Sound == \A f \in Callables : writebacks[f] \subseteq MayModify(f)

(* ... nor takes back what one has found, ...                              *)
Settled(f) == writebacks[f] = Modified(Body(f), writebacks)
Growing    == \A f \in Callables : writebacks[f] \subseteq Modified(Body(f), writebacks)

(* ... and while a pass finds nothing new, what it has been over is as it  *)
(* would find it again.                                                    *)
Quiet ==
  /\ ~changed => \A n \in 1..(next - 1) : Settled(Names[n])
  /\ finished => ~changed /\ next = Len(Names) + 1

PassInv == TypeOK /\ Sound /\ Growing /\ Quiet

-----------------------------------------------------------------------------
(***************************************************************************)
(* The parameters that Modified returns: those a touch writes, and those   *)
(* that a call hands to a callee that is known to modify them.             *)
(***************************************************************************)
Found(f, i, found) ==
  \/ \E s \in ToSet(Body(f)) : s.k = "touch" /\ s.v = Parameters[i]
  \/ \E s \in ToSet(Body(f)) : s.k = "call" /\ \E m \in found[s.fn] : s.args[m] = Parameters[i]

LEMMA ModifiedFacts ==
  ASSUME NEW f, NEW found
  PROVE  Modified(Body(f), found) = {i \in Indices : Found(f, i, found)}
<1>1. \A i \in Indices : Index(Parameters[i]) = i
  BY ProgramsAssumption DEF IsInjective, Index, Indices
<1>2. \A v \in Params : \E i \in Indices : v = Parameters[i] /\ Index(v) = i
  BY <1>1 DEF Params, ToSet, Indices
<1>3. \A i \in Indices : Parameters[i] \in Params
  BY DEF Params, ToSet, Indices
<1>4. \A i \in Indices : Parameters[i] \in InPlace(Body(f), found) <=> Found(f, i, found)
  BY DEF InPlace, Found
<1> QED BY <1>1, <1>2, <1>3, <1>4 DEF Modified

(***************************************************************************)
(* Knowing more, a body is found to modify no less.                        *)
(***************************************************************************)
LEMMA ModifiedMonotonic ==
  ASSUME TypeOK, NEW f \in Callables, NEW found,
         \A g \in Callables : writebacks[g] \subseteq found[g]
  PROVE  Modified(Body(f), writebacks) \subseteq Modified(Body(f), found)
<1>1. \A s \in ToSet(Body(f)) : s.k = "call" => s.fn \in Callables
  BY ProgramsAssumption DEF TypeOK, Body, Callables
<1>2. \A i : Found(f, i, writebacks) => Found(f, i, found)
  BY <1>1 DEF Found
<1> QED BY <1>2, ModifiedFacts

(***************************************************************************)
(* What is found from sound findings is sound: the chain of calls from the *)
(* callee is one from the caller.                                          *)
(***************************************************************************)
LEMMA ModifiedSound ==
  ASSUME TypeOK, Sound, NEW f \in Callables
  PROVE  Modified(Body(f), writebacks) \subseteq MayModify(f)
<1> SUFFICES ASSUME NEW i \in Indices, Found(f, i, writebacks),
                    NEW pairs \in SUBSET Pairs, <<f, i>> \in pairs,
                    \A p \in pairs : Hands(p) \subseteq pairs
             PROVE  \E p \in pairs : Writes(p)
  BY ModifiedFacts DEF MayModify
<1>1. CASE \E s \in ToSet(Body(f)) : s.k = "touch" /\ s.v = Parameters[i]
  BY <1>1 DEF Writes
<1>2. ASSUME NEW s \in ToSet(Body(f)), s.k = "call",
             NEW m \in writebacks[s.fn], s.args[m] = Parameters[i]
      PROVE  \E p \in pairs : Writes(p)
  <2>1. s.fn \in Callables
    BY <1>2, ProgramsAssumption DEF TypeOK, Body, Callables
  <2>2. m \in Indices
    BY <2>1 DEF TypeOK
  <2>3. <<s.fn, m>> \in Hands(<<f, i>>)
    BY <1>2, <2>1, <2>2 DEF Hands, Pairs, Callables
  <2>4. <<s.fn, m>> \in pairs
    BY <2>3
  <2>5. m \in MayModify(s.fn)
    BY <2>1 DEF Sound
  <2> QED BY <2>4, <2>5 DEF MayModify
<1> QED BY <1>1, <1>2 DEF Found

(***************************************************************************)
(* Findings that no body adds to are complete: what is not found makes up  *)
(* a set of pairs that no call leads out of and no body writes to.         *)
(***************************************************************************)
LEMMA SettledComplete ==
  ASSUME TypeOK, \A f \in Callables : Settled(f)
  PROVE  \A f \in Callables : MayModify(f) \subseteq writebacks[f]
<1> SUFFICES ASSUME NEW f \in Callables, NEW i \in MayModify(f), i \notin writebacks[f]
             PROVE  FALSE
  OBVIOUS
<1> DEFINE rest == {p \in Pairs : p[2] \notin writebacks[p[1]]}
<1>1. \A g \in Callables : writebacks[g] = {j \in Indices : Found(g, j, writebacks)}
  BY ModifiedFacts DEF Settled
<1>2. <<f, i>> \in rest
  BY DEF Pairs, MayModify, Callables
<1>3. ASSUME NEW p \in rest, NEW q \in Hands(p)
      PROVE  q \in rest
  <2>1. p[1] \in Callables /\ p[2] \in Indices /\ ~Found(p[1], p[2], writebacks)
    BY <1>1 DEF Pairs, Callables
  <2>2. q \in Pairs
    BY DEF Hands
  <2>3. PICK s \in ToSet(Body(p[1])) :
          s.k = "call" /\ s.fn = q[1] /\ s.args[q[2]] = Parameters[p[2]]
    BY DEF Hands
  <2> QED BY <2>1, <2>2, <2>3 DEF Found
<1>4. PICK p \in rest : Writes(p)
  <2>1. rest \in SUBSET Pairs
    OBVIOUS
  <2> QED BY <1>2, <1>3, <2>1 DEF MayModify
<1>5. p[1] \in Callables /\ p[2] \in Indices /\ Found(p[1], p[2], writebacks)
  BY <1>4 DEF Writes, Found, Pairs, Callables
<1> QED BY <1>1, <1>5

-----------------------------------------------------------------------------
(* Before the passes nothing is found.                                     *)
LEMMA PassInit == PassesInit => PassInv
<1> SUFFICES ASSUME PassesInit PROVE PassInv
  OBVIOUS
<1>1. Len(Names) \in Nat
  BY ProgramsAssumption
<1>2. TypeOK
  <2>1. next \in 1..(Len(Names) + 1)
    BY <1>1 DEF PassesInit
  <2>2. writebacks \in [Callables -> SUBSET Indices]
    BY DEF PassesInit, Callables
  <2> QED BY <2>1, <2>2 DEF PassesInit, TypeOK
<1>3. \A f \in Callables : writebacks[f] = {}
  BY DEF PassesInit, Callables
<1>4. Quiet
  <2>1. 1..(next - 1) = {} /\ ~finished
    BY DEF PassesInit
  <2> QED BY <2>1 DEF Quiet
<1> QED BY <1>2, <1>3, <1>4 DEF PassInv, Sound, Growing

(***************************************************************************)
(* A function is looked at: what is found for it replaces what was.        *)
(***************************************************************************)
LEMMA ScanStep ==
  ASSUME PassInv, Scan
  PROVE  /\ PassInv'
         /\ \A f \in Callables : writebacks[f] \subseteq writebacks'[f]
<1> USE DEF PassInv
<1>1. Len(Names) \in Nat /\ next \in 1..Len(Names)
  BY ProgramsAssumption DEF Scan, TypeOK
<1>2. PICK f \in Callables : f = Names[next]
  BY <1>1, ProgramsAssumption DEF Callables, ToSet
<1>3. PICK found \in SUBSET Indices : found = Modified(Body(f), writebacks)
  BY ModifiedFacts
<1>4. /\ writebacks' = [writebacks EXCEPT ![f] = found]
      /\ changed' = (changed \/ found # writebacks[f])
      /\ next' = next + 1 /\ UNCHANGED <<program, finished>> /\ ~finished
  BY <1>2, <1>3 DEF Scan
<1>5. /\ writebacks'[f] = found
      /\ \A g \in Callables : g # f => writebacks'[g] = writebacks[g]
  BY <1>4 DEF TypeOK
<1>6. \A g \in Callables : writebacks[g] \subseteq writebacks'[g]
  BY <1>3, <1>5 DEF Growing
<1>7. TypeOK'
  BY <1>1, <1>4 DEF TypeOK
<1>8. \A g : Body(g)' = Body(g)
  BY <1>4 DEF Body
<1>9. \A g : MayModify(g)' = MayModify(g)
  BY <1>8 DEF MayModify, Hands, Writes
<1>10. Sound'
  BY <1>3, <1>5, <1>9, ModifiedSound DEF Sound
<1>11. Growing'
  <2> SUFFICES ASSUME NEW g \in Callables
               PROVE  writebacks'[g] \subseteq Modified(Body(g)', writebacks')
    BY DEF Growing
  <2>1. Modified(Body(g), writebacks) \subseteq Modified(Body(g), writebacks')
    BY <1>6, ModifiedMonotonic
  <2>2. writebacks'[g] \subseteq Modified(Body(g), writebacks)
    BY <1>3, <1>5 DEF Growing
  <2> QED BY <1>8, <2>1, <2>2
<1>12. Quiet'
  <2> SUFFICES ASSUME ~changed', NEW n \in 1..next
               PROVE  Settled(Names[n])'
    BY <1>1, <1>4 DEF Quiet
  <2>1. ~changed /\ writebacks' = writebacks
    BY <1>4 DEF TypeOK
  <2>2. Settled(Names[n])
    <3>1. CASE n = next
      BY <1>2, <1>3, <1>5, <2>1, <3>1 DEF Settled
    <3>2. CASE n # next
      BY <1>1, <2>1, <3>2 DEF Quiet
    <3> QED BY <3>1, <3>2
  <2> QED BY <1>8, <2>1, <2>2 DEF Settled
<1> QED BY <1>6, <1>7, <1>10, <1>11, <1>12

(***************************************************************************)
(* The pass starts again, is over, or nothing happens: no finding changes. *)
(***************************************************************************)
LEMMA KeptFindings ==
  ASSUME PassInv, UNCHANGED <<program, writebacks>>
  PROVE  Sound' /\ Growing' /\ \A f : Settled(f)' = Settled(f)
<1>1. \A g : Body(g)' = Body(g)
  BY DEF Body
<1>2. \A g : MayModify(g)' = MayModify(g)
  BY <1>1 DEF MayModify, Hands, Writes
<1> QED BY <1>1, <1>2 DEF PassInv, Sound, Growing, Settled

(* Every step keeps the invariant and what was found.                      *)
LEMMA PassStep ==
  PassInv /\ [PassesNext]_memoryVars
    => PassInv' /\ \A f \in Callables : writebacks[f] \subseteq writebacks'[f]
<1> SUFFICES ASSUME PassInv, [PassesNext]_memoryVars
             PROVE  PassInv' /\ \A f \in Callables : writebacks[f] \subseteq writebacks'[f]
  OBVIOUS
<1>0. Len(Names) \in Nat
  BY ProgramsAssumption
<1>1. CASE Scan
  BY <1>1, ScanStep
<1>2. CASE Repeat
  <2>1. UNCHANGED <<program, writebacks>>
    BY <1>2 DEF Repeat
  <2>2. next' \in 1..(Len(Names) + 1) /\ 1..(next' - 1) = {}
    BY <1>0, <1>2 DEF Repeat
  <2>3. TypeOK' /\ Quiet'
    BY <1>2, <2>2 DEF PassInv, TypeOK, Quiet, Repeat
  <2> QED BY <2>1, <2>3, KeptFindings DEF PassInv
<1>3. CASE Finish
  <2>1. UNCHANGED <<program, writebacks, next, changed>> /\ next > Len(Names) /\ ~changed
    BY <1>3 DEF Finish, AnotherPass
  <2>2. TypeOK'
    BY <1>3, <2>1 DEF PassInv, TypeOK, Finish
  <2>3. next = Len(Names) + 1
    BY <1>0, <2>1 DEF PassInv, TypeOK
  <2>4. \A f : Settled(f)' = Settled(f)
    BY <2>1, KeptFindings
  <2>5. Quiet'
    BY <2>1, <2>3, <2>4 DEF PassInv, Quiet
  <2> QED BY <2>1, <2>2, <2>5, KeptFindings DEF PassInv
<1>4. CASE UNCHANGED memoryVars
  <2>1. UNCHANGED <<program, writebacks, next, changed, finished>>
    BY <1>4 DEF memoryVars
  <2>2. TypeOK'
    BY <2>1 DEF PassInv, TypeOK
  <2>3. \A f : Settled(f)' = Settled(f)
    BY <2>1, KeptFindings
  <2>4. Quiet'
    BY <2>1, <2>3 DEF PassInv, Quiet
  <2> QED BY <2>1, <2>2, <2>4, KeptFindings DEF PassInv
<1> QED BY <1>1, <1>2, <1>3, <1>4 DEF PassesNext

-----------------------------------------------------------------------------
(***************************************************************************)
(* The inductive invariant of the passes of analyze_memory_writebacks.     *)
(***************************************************************************)
THEOREM PassInvariant == PassesSpec => []PassInv
<1>1. PassesInit => PassInv
  BY PassInit
<1>2. PassInv /\ [PassesNext]_memoryVars => PassInv'
  BY PassStep
<1> QED BY <1>1, <1>2, PTL DEF PassesSpec

(***************************************************************************)
(* The passes find the parameters that a function may modify through some  *)
(* chain of calls, all of them in the end and never another.               *)
(***************************************************************************)
THEOREM PassesExact == PassesSpec => []LeastFixedPoint
<1>1. PassInv => LeastFixedPoint
  <2> SUFFICES ASSUME PassInv, NEW f \in Callables, finished
               PROVE  MayModify(f) \subseteq writebacks[f]
    BY DEF PassInv, Sound, LeastFixedPoint, Callables
  <2>1. \A g \in Callables : \E n \in 1..Len(Names) : g = Names[n]
    BY ProgramsAssumption DEF Callables, ToSet
  <2>2. Len(Names) \in Nat
    BY ProgramsAssumption
  <2>3. \A n \in 1..Len(Names) : Settled(Names[n])
    BY <2>2 DEF PassInv, Quiet
  <2> QED BY <2>1, <2>3, SettledComplete DEF PassInv
<1>2. PassesSpec => []PassInv
  BY PassInvariant
<1> QED BY <1>1, <1>2, PTL

(***************************************************************************)
(* No pass takes back what one has found, which is why the passes can end. *)
(***************************************************************************)
THEOREM PassesGrow ==
  PassesSpec => [][\A f \in ToSet(Names) : writebacks[f] \subseteq writebacks'[f]]_memoryVars
<1>1. PassInv /\ [PassesNext]_memoryVars
        => \A f \in ToSet(Names) : writebacks[f] \subseteq writebacks'[f]
  BY PassStep DEF Callables
<1>2. PassesSpec => []PassInv
  BY PassInvariant
<1> QED BY <1>1, <1>2, PTL DEF PassesSpec
=============================================================================
