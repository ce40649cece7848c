-------------------------- MODULE DraftContractProofs --------------------------
(***************************************************************************)
(* Proofs about DraftContract, for every contract that solc accepts: any   *)
(* hierarchy, any functions, and whatever they call.                       *)
(***************************************************************************)
EXTENDS DraftContract, SequenceTheorems, WellFoundedInduction, TLAPS

Needed == ToSet(needed)

(* What the constants leave to say about a source.                         *)
Calls  == [to : Ids, how : {"plain", "super", "named"}]
Legal ==
  /\ Linear \in Seq(ToSet(Linear)) /\ Linear # <<>> /\ IsInjective(Linear)
  /\ \A i, j \in Ids : F(i).owner = F(j).owner /\ Key(i) = Key(j) => i = j
  /\ source.constructor \in Seq(Calls)
  /\ \A i \in Ids : F(i).calls \in Seq(Calls)
  /\ \A i \in Ids : \A c \in ToSet(F(i).calls) :
       c.how = "super" =>
         /\ ~F(c.to).private
         /\ \E m, n \in DOMAIN Linear : m < n /\ Linear[m] = F(i).owner /\ Linear[n] = F(c.to).owner

(* The source at hand is one that solc accepts.                            *)
LEMMA SourceLegal ==
  ASSUME source \in Sources
  PROVE  Legal
BY SourcesAssumption DEF Legal, Calls, Ids, F, Key

-----------------------------------------------------------------------------
(***************************************************************************)
(* Sequences and the set of their elements.                                *)
(***************************************************************************)
LEMMA ElementOf ==
  ASSUME NEW S, NEW s \in Seq(S)
  PROVE  /\ ToSet(s) \subseteq S
         /\ ToSet(s) = {s[n] : n \in 1..Len(s)}
BY DEF ToSet

(* Appending adds one element.                                             *)
LEMMA ElementsOfAppend ==
  ASSUME NEW S, NEW s \in Seq(S), NEW e \in S
  PROVE  /\ Append(s, e) \in Seq(S)
         /\ ToSet(Append(s, e)) = ToSet(s) \cup {e}
<1>1. Append(s, e) \in Seq(S) /\ Len(Append(s, e)) = Len(s) + 1 /\ Len(s) \in Nat
  OBVIOUS
<1>2. /\ \A n \in 1..Len(s) : Append(s, e)[n] = s[n]
      /\ Append(s, e)[Len(s) + 1] = e
  OBVIOUS
<1>3. 1..(Len(s) + 1) = 1..Len(s) \cup {Len(s) + 1}
  BY <1>1
<1>4. ToSet(s) = {s[n] : n \in 1..Len(s)}
  BY ElementOf
<1>5. ToSet(Append(s, e)) = {Append(s, e)[n] : n \in 1..(Len(s) + 1)}
  BY <1>1, ElementOf
<1> QED BY <1>1, <1>2, <1>3, <1>4, <1>5

(* The rest of a sequence has all elements but the first.                  *)
LEMMA ElementsOfTail ==
  ASSUME NEW S, NEW s \in Seq(S), s # <<>>
  PROVE  /\ Head(s) \in ToSet(s)
         /\ Tail(s) \in Seq(S)
         /\ ToSet(Tail(s)) \subseteq ToSet(s)
<1>1. /\ Tail(s) \in Seq(S) /\ Len(s) \in Nat \ {0} /\ Head(s) = s[1]
      /\ Len(Tail(s)) = Len(s) - 1
      /\ \A n \in 1..Len(Tail(s)) : Tail(s)[n] = s[n + 1]
  OBVIOUS
<1>2. ToSet(s) = {s[n] : n \in 1..Len(s)} /\ ToSet(Tail(s)) = {Tail(s)[n] : n \in 1..Len(Tail(s))}
  BY <1>1, ElementOf
<1>3. 1 \in 1..Len(s) /\ \A n \in 1..Len(Tail(s)) : n + 1 \in 1..Len(s)
  BY <1>1
<1> QED BY <1>1, <1>2, <1>3

(***************************************************************************)
(* A set of numbers that is not empty has a least one.                     *)
(***************************************************************************)
LEMMA LeastNumber ==
  ASSUME NEW T \in SUBSET Nat, T # {}
  PROVE  \E m \in T : \A n \in T : m <= n
<1>1. PICK m \in T : \A n \in T : ~ (<<n, m>> \in OpToRel(<, Nat))
  BY NatLessThanWellFounded, WFMin
<1>2. \A n \in T : ~(n < m)
  BY <1>1, Zenon DEF OpToRel
<1> QED BY <1>2

-----------------------------------------------------------------------------
(***************************************************************************)
(* Dispatch: a contract of the hierarchy has one position in it, the first *)
(* implementation is one of them, and it is the only first one.            *)
(***************************************************************************)
LEMMA PositionFacts ==
  ASSUME Legal
  PROVE  /\ \A c \in ToSet(Linear) : Position(c) \in DOMAIN Linear /\ Linear[Position(c)] = c
         /\ \A n \in DOMAIN Linear : Position(Linear[n]) = n /\ Linear[n] \in ToSet(Linear)
         /\ DOMAIN Linear \subseteq Nat
<1>1. DOMAIN Linear \subseteq Nat
  BY DEF Legal
<1>2. \A c \in ToSet(Linear) : Position(c) \in DOMAIN Linear /\ Linear[Position(c)] = c
  BY DEF Position, ToSet
<1>3. \A n \in DOMAIN Linear : Linear[n] \in ToSet(Linear)
  BY DEF ToSet
<1> QED BY <1>1, <1>2, <1>3 DEF Legal, IsInjective

(* Where a signature is implemented, the first implementation exists.      *)
LEMMA FirstFacts ==
  ASSUME Legal, NEW i \in Ids, NEW n
  PROVE  /\ FirstFrom(i, n) \in Ids
         /\ Implementations(i, n) # {} =>
              /\ FirstFrom(i, n) \in Implementations(i, n)
              /\ \A l \in Implementations(i, n) :
                   Position(F(FirstFrom(i, n)).owner) <= Position(F(l).owner)
         /\ Implementations(i, n) = {} => FirstFrom(i, n) = i
<1> DEFINE found     == Implementations(i, n)
           positions == {Position(F(j).owner) : j \in found}
<1>1. found \subseteq Ids /\ \A j \in found : Position(F(j).owner) \in Nat
  BY PositionFacts DEF Implementations, InHierarchy
<1>2. ASSUME found # {}
      PROVE  \E j \in found : \A l \in found : Position(F(j).owner) <= Position(F(l).owner)
  <2>1. positions \in SUBSET Nat /\ positions # {}
    BY <1>1, <1>2
  <2> HIDE DEF found
  <2>2. PICK m \in positions : \A k \in positions : m <= k
    BY <2>1, LeastNumber
  <2> QED BY <2>2
<1>3. CASE found = {}
  BY <1>3 DEF FirstFrom
<1>4. CASE found # {}
  <2>1. FirstFrom(i, n) = CHOOSE j \in found :
                            \A l \in found : Position(F(j).owner) <= Position(F(l).owner)
    BY <1>4 DEF FirstFrom
  <2> HIDE DEF found
  <2>2. /\ FirstFrom(i, n) \in found
        /\ \A l \in found : Position(F(FirstFrom(i, n)).owner) <= Position(F(l).owner)
    BY <1>2, <1>4, <2>1
  <2> QED BY <1>1, <1>4, <2>2 DEF found
<1> QED BY <1>3, <1>4

(* A call refers to a function of the source.                              *)
LEMMA EffectiveId ==
  ASSUME Legal, NEW call \in Calls, NEW owner
  PROVE  Effective(call, owner) \in Ids
BY FirstFacts DEF Effective, Calls

(***************************************************************************)
(* Two first implementations of one signature are one function.            *)
(***************************************************************************)
LEMMA OneFirst ==
  ASSUME Legal, NEW i \in Ids, NEW n, NEW j \in Implementations(i, n), NEW k \in Implementations(i, n),
         \A l \in Implementations(i, n) : Position(F(j).owner) <= Position(F(l).owner),
         \A l \in Implementations(i, n) : Position(F(k).owner) <= Position(F(l).owner)
  PROVE  j = k
<1>1. /\ j \in Ids /\ k \in Ids /\ Key(j) = Key(k)
      /\ F(j).owner \in ToSet(Linear) /\ F(k).owner \in ToSet(Linear)
  BY DEF Implementations, InHierarchy
<1>2. Position(F(j).owner) = Position(F(k).owner)
  BY <1>1, PositionFacts
<1>3. F(j).owner = F(k).owner
  BY <1>1, <1>2, PositionFacts
<1> QED BY <1>1, <1>3 DEF Legal

(***************************************************************************)
(* The draft's dispatch is Solidity's, for calls that solc accepts.        *)
(***************************************************************************)
LEMMA EffectiveFaithful ==
  ASSUME Legal, NEW i \in Ids, NEW call \in ToSet(F(i).calls), ~Hidden(call)
  PROVE  Effective(call, F(i).owner) = SolidityTarget(call, F(i).owner)
<1> DEFINE owner == F(i).owner
           n     == IF call.how = "super" THEN Position(owner) + 1 ELSE 1
<1>1. call \in Calls /\ call.to \in Ids
  <2>1. F(i).calls \in Seq(Calls)
    BY DEF Legal
  <2>2. call \in Calls
    BY <2>1, ElementOf
  <2> QED BY <2>2 DEF Calls
<1>2. CASE Statically(call)
  <2>1. call.how # "super"
    BY <1>2, PositionFacts DEF Legal, Statically, InHierarchy
  <2>2. Effective(call, owner) = FirstFrom(call.to, 1)
    BY <2>1 DEF Effective
  <2>3. FirstFrom(call.to, 1) = call.to
    BY <1>2 DEF Hidden
  <2> QED BY <1>2, <2>2, <2>3 DEF SolidityTarget
<1>3. CASE ~Statically(call)
  <2>1. /\ call.to \in Implementations(call.to, n)
        /\ Effective(call, owner) = FirstFrom(call.to, n)
    <3>1. InHierarchy(call.to) /\ ~F(call.to).private
      BY <1>3 DEF Statically
    <3>2. Position(F(call.to).owner) \in DOMAIN Linear /\ DOMAIN Linear \subseteq Nat
          /\ DOMAIN Linear = 1..Len(Linear)
      BY <3>1, PositionFacts DEF InHierarchy, Legal
    <3>3. CASE call.how = "super"
      <4>1. PICK m, k \in DOMAIN Linear :
              m < k /\ Linear[m] = owner /\ Linear[k] = F(call.to).owner
        BY <3>3 DEF Legal
      <4>2. owner \in ToSet(Linear) /\ Position(owner) = m /\ Position(F(call.to).owner) = k
        BY <4>1, PositionFacts
      <4>3. Position(F(call.to).owner) >= n
        BY <3>2, <3>3, <4>1, <4>2
      <4> QED BY <1>1, <3>1, <3>3, <4>2, <4>3 DEF Implementations, Effective
    <3>4. CASE call.how # "super"
      BY <1>1, <3>1, <3>2, <3>4 DEF Implementations, Effective
    <3> QED BY <3>3, <3>4
  <2> DEFINE P(j) == \A l \in Implementations(call.to, n) : Position(F(j).owner) <= Position(F(l).owner)
             S(j) == /\ InHierarchy(j) /\ Key(j) = Key(call.to) /\ Position(F(j).owner) >= n
                     /\ \A l \in Ids : InHierarchy(l) /\ Key(l) = Key(call.to) /\ Position(F(l).owner) >= n
                                         => Position(F(j).owner) <= Position(F(l).owner)
  <2>2. \A j \in Ids : S(j) <=> j \in Implementations(call.to, n) /\ P(j)
    BY DEF Implementations
  <2>3. FirstFrom(call.to, n) \in Ids /\ S(FirstFrom(call.to, n))
    BY <1>1, <2>1, <2>2, FirstFacts
  <2>4. SolidityTarget(call, owner) = CHOOSE j \in Ids : S(j)
    BY <1>3 DEF SolidityTarget
  <2>5. SolidityTarget(call, owner) \in Ids /\ S(SolidityTarget(call, owner))
    <3> HIDE DEF S
    <3> QED BY <2>3, <2>4
  <2> QED BY <1>1, <2>1, <2>2, <2>3, <2>5, OneFirst
<1> QED BY <1>2, <1>3

-----------------------------------------------------------------------------
(***************************************************************************)
(* Names.  A function's name has the parts of its base, with its           *)
(* parameters and the suffix or without; two functions of one signature    *)
(* have different bases.                                                   *)
(***************************************************************************)
IsNameOf(n, i) ==
  \E p \in {<<>>, <<F(i).params>>} : \E s \in {"", "body"} : n = Name(i, p, s)

NamesInv ==
  /\ needed \in Seq(Ids)
  /\ split = {i \in Needed : F(i).public}
  /\ names = [i \in Needed |-> names[i]]
  /\ \A i \in Needed : IsNameOf(names[i], i)
  /\ ~Overloaded =>
       /\ \A i \in split : names[i] = Name(i, <<>>, "body")
       /\ \A i, j \in Needed : names[i] = names[j] => i = j

(* A name has its parts.                                                   *)
LEMMA OneName ==
  ASSUME NEW i, NEW j, NEW p, NEW q, NEW s, NEW z, Name(i, p, s) = Name(j, q, z)
  PROVE  Qualifier(i) = Qualifier(j) /\ F(i).name = F(j).name /\ p = q /\ s = z
BY DEF Name

LEMMA SameName ==
  ASSUME NEW i, NEW j, NEW p, NEW s, Qualifier(i) = Qualifier(j), F(i).name = F(j).name
  PROVE  Name(i, p, s) = Name(j, p, s)
BY DEF Name

(* The form of a name that is given.                                       *)
LEMMA NewNameFacts ==
  ASSUME NEW i, NEW ns, NEW sp
  PROVE  \E p \in {<<>>, <<F(i).params>>} : \E s \in {"", "body"} :
           /\ NewName(i, ns, sp) = Name(i, p, s)
           /\ (Clashes(i, ns) => p = <<F(i).params>>) /\ (~Clashes(i, ns) => p = <<>>)
           /\ (i \in sp => s = "body") /\ (i \notin sp => s = "")
<1> DEFINE p == IF Clashes(i, ns) THEN <<F(i).params>> ELSE <<>>
           s == IF i \in sp THEN "body" ELSE ""
<1>1. NewName(i, ns, sp) = Name(i, p, s)
  BY DEF NewName
<1>2. /\ p \in {<<>>, <<F(i).params>>} /\ s \in {"", "body"}
      /\ (Clashes(i, ns) => p = <<F(i).params>>) /\ (~Clashes(i, ns) => p = <<>>)
      /\ (i \in sp => s = "body") /\ (i \notin sp => s = "")
  OBVIOUS
<1> HIDE DEF p, s
<1> QED BY <1>1, <1>2, Zenon

(* Functions of one signature have different owners in their names.        *)
LEMMA OneBase ==
  ASSUME Legal, NEW i \in Ids, NEW j \in Ids, Key(i) = Key(j),
         Qualifier(i) = Qualifier(j)
  PROVE  i = j
<1>1. CASE MostDerived(i) /\ MostDerived(j)
  <2>1. Implementations(i, 1) = Implementations(j, 1)
    BY DEF Implementations
  <2>2. i \in Implementations(i, 1) /\ j \in Implementations(j, 1)
    BY <1>1, PositionFacts DEF MostDerived, InHierarchy, Implementations, Legal
  <2> QED BY <1>1, <2>1, <2>2, FirstFacts, OneFirst DEF MostDerived
<1>2. CASE ~MostDerived(i) /\ ~MostDerived(j)
  BY <1>2 DEF Qualifier, Legal
<1>3. CASE MostDerived(i) /\ ~MostDerived(j)
  BY <1>3 DEF Qualifier
<1>4. CASE ~MostDerived(i) /\ MostDerived(j)
  BY <1>4 DEF Qualifier
<1> QED BY <1>1, <1>2, <1>3, <1>4

(***************************************************************************)
(* What depends on the source alone stays.                                 *)
(***************************************************************************)
LEMMA SourceKept ==
  ASSUME UNCHANGED source
  PROVE  /\ Ids' = Ids /\ Calls' = Calls
         /\ \A i : /\ F(i)' = F(i) /\ Key(i)' = Key(i)
                  /\ (\A n : IsNameOf(n, i)' <=> IsNameOf(n, i))
                  /\ \A p, s : Name(i, p, s)' = Name(i, p, s)
         /\ \A c, o : Effective(c, o)' = Effective(c, o)
         /\ \A e : Owner(e)' = Owner(e)
<1>1. Ids' = Ids /\ Calls' = Calls /\ \A i : F(i)' = F(i) /\ Key(i)' = Key(i)
  BY DEF Ids, Calls, F, Key
<1>2. \A i, n : Implementations(i, n)' = Implementations(i, n)
  BY <1>1 DEF Implementations, InHierarchy
<1>3. \A i, n : FirstFrom(i, n)' = FirstFrom(i, n)
  BY DEF FirstFrom, Implementations, InHierarchy, Ids, Key, F, Position
<1>4. \A i : Qualifier(i)' = Qualifier(i)
  BY <1>1, <1>3 DEF Qualifier, MostDerived, InHierarchy
<1>5. \A i, p, s : Name(i, p, s)' = Name(i, p, s)
  BY <1>1, <1>4 DEF Name
<1>6. \A i, n : IsNameOf(n, i)' <=> IsNameOf(n, i)
  BY <1>1, <1>5 DEF IsNameOf
<1>7. \A c, o : Effective(c, o)' = Effective(c, o)
  BY <1>3 DEF Effective
<1>8. \A e : Owner(e)' = Owner(e)
  BY <1>1 DEF Owner
<1> QED BY <1>1, <1>5, <1>6, <1>7, <1>8

(***************************************************************************)
(* A function that has a name keeps it when it is given one.               *)
(***************************************************************************)
LEMMA GivenAgain ==
  ASSUME NamesInv, NEW i \in Needed, NEW sp
  PROVE  Give(i, names, sp) = names
<1>1. DOMAIN names = Needed /\ DOMAIN names \cup {i} = DOMAIN names
  BY DEF NamesInv
<1>2. Give(i, names, sp) = [j \in DOMAIN names |-> names[j]]
  BY <1>1 DEF Give
<1> QED BY <1>2 DEF NamesInv

(***************************************************************************)
(* A call to t makes t needed and names it.  Unless naming has failed to   *)
(* keep functions apart, names that were given before do not change, also  *)
(* when t is public and its name is taken back and given again.            *)
(***************************************************************************)
LEMMA NamingStep ==
  ASSUME Legal, NamesInv, UNCHANGED source, NEW t \in Ids,
         split' = IF F(t).public THEN split \cup {t} ELSE split,
         names' = Give(t, IF F(t).public THEN Forget(t, names) ELSE names, split'),
         needed' = WithNeeded(t)
  PROVE  /\ NamesInv'
         /\ Needed' = Needed \cup {t}
         /\ Len(needed) <= Len(needed') /\ \A m \in 1..Len(needed) : needed'[m] = needed[m]
         /\ ~Overloaded' => ~Overloaded /\ \A i \in Needed : names'[i] = names[i]
<1> DEFINE ns == IF F(t).public THEN Forget(t, names) ELSE names
<1>1. /\ needed' \in Seq(Ids) /\ Needed' = Needed \cup {t}
      /\ Len(needed) <= Len(needed') /\ \A m \in 1..Len(needed) : needed'[m] = needed[m]
  <2>1. CASE t \in Needed
    BY <2>1 DEF WithNeeded, NamesInv, Needed
  <2>2. CASE t \notin Needed
    <3>1. needed' = Append(needed, t)
      BY <2>2 DEF WithNeeded, Needed
    <3> QED BY <3>1, ElementsOfAppend DEF NamesInv, Needed
  <2> QED BY <2>1, <2>2
<1>2. split' = {i \in Needed' : F(i).public}
  BY <1>1 DEF NamesInv
<1>3. /\ DOMAIN ns \subseteq Needed /\ Needed \ {t} \subseteq DOMAIN ns
      /\ F(t).public => t \notin DOMAIN ns
      /\ ~F(t).public => DOMAIN ns = Needed
      /\ \A j \in DOMAIN ns : ns[j] = names[j]
  BY DEF NamesInv, Forget
<1>4. names' = [j \in DOMAIN ns \cup {t} |-> IF j \in DOMAIN ns THEN ns[j] ELSE NewName(t, ns, split')]
  BY DEF Give
<1> HIDE DEF ns
<1>5. DOMAIN ns \cup {t} = Needed'
  BY <1>1, <1>3
<1>6. /\ \A j \in Needed \ {t} : names'[j] = names[j]
      /\ t \in DOMAIN ns => names'[t] = names[t]
      /\ t \notin DOMAIN ns => names'[t] = NewName(t, ns, split')
  BY <1>3, <1>4
<1>7. Needed' \subseteq Ids
  BY <1>1, ElementOf DEF Needed
<1>8. \A j \in Needed' : IsNameOf(names'[j], j)
  <2>1. IsNameOf(NewName(t, ns, split'), t)
    <3>1. PICK q \in {<<>>, <<F(t).params>>}, z \in {"", "body"} : NewName(t, ns, split') = Name(t, q, z)
      BY NewNameFacts, Zenon
    <3> QED BY <3>1, Zenon DEF IsNameOf
  <2>2. t \in Needed => IsNameOf(names[t], t)
    BY DEF NamesInv
  <2>3. IsNameOf(names'[t], t)
    BY <1>3, <1>6, <2>1, <2>2, Zenon
  <2>4. \A j \in Needed \ {t} : IsNameOf(names'[j], j)
    BY <1>6, Zenon DEF NamesInv
  <2> QED BY <1>1, <2>3, <2>4, Zenon
<1>9. names' = [j \in Needed' |-> names'[j]]
  BY <1>4, <1>5
<1>10. \A i \in Ids : F(i)' = F(i) /\ Key(i)' = Key(i)
  BY SourceKept
<1>11. Overloaded => Overloaded'
  <2>1. split \subseteq split' /\ Needed \subseteq Needed' /\ split \subseteq Ids /\ Needed \subseteq Ids
    BY <1>1, <1>2, <1>7 DEF NamesInv
  <2> QED BY <1>10, <2>1 DEF Overloaded, Needed
<1>12. ASSUME ~Overloaded', NEW i \in split', NEW j \in Needed', F(i).name = F(j).name
       PROVE  Key(i) = Key(j)
  BY <1>2, <1>7, <1>10, <1>12 DEF Overloaded, Needed
<1>13. ASSUME ~Overloaded'
       PROVE  F(t).public => names'[t] = Name(t, <<>>, "body")
  <2> SUFFICES ASSUME F(t).public PROVE names'[t] = Name(t, <<>>, "body")
    OBVIOUS
  <2>1. t \in split' /\ names'[t] = NewName(t, ns, split')
    BY <1>1, <1>2, <1>3, <1>6
  <2>2. ASSUME NEW j \in DOMAIN ns, ns[j] = Base(t)
        PROVE  Key(j) = Key(t)
    <3>1. j \in Needed' /\ IsNameOf(names[j], j) /\ names[j] = Base(t)
      BY <1>1, <1>3, <2>2 DEF NamesInv
    <3>2. F(j).name = F(t).name
      <4>1. PICK p \in {<<>>, <<F(j).params>>}, s \in {"", "body"} : names[j] = Name(j, p, s)
        BY <3>1, Zenon DEF IsNameOf
      <4>2. Name(j, p, s) = Name(t, <<>>, "")
        BY <3>1, <4>1, Zenon DEF Base
      <4> QED BY <4>2 DEF Name
    <3> QED BY <1>12, <1>13, <2>1, <3>1, <3>2
  <2>3. ~Clashes(t, ns)
    BY <2>2 DEF Clashes
  <2>4. NewName(t, ns, split') = Name(t, <<>>, "body")
    <3>1. PICK q \in {<<>>, <<F(t).params>>}, z \in {"", "body"} :
             /\ NewName(t, ns, split') = Name(t, q, z)
             /\ (~Clashes(t, ns) => q = <<>>) /\ (t \in split' => z = "body")
      BY NewNameFacts, Zenon
    <3>2. q = <<>> /\ z = "body"
      BY <2>1, <2>3, <3>1, Zenon
    <3> QED BY <3>1, <3>2
  <2> QED BY <2>1, <2>4, Zenon
<1>14. ASSUME ~Overloaded'
       PROVE  \A i \in Needed : names'[i] = names[i]
  <2>1. CASE F(t).public /\ t \in Needed
    <3>1. names[t] = Name(t, <<>>, "body")
      BY <1>11, <1>14, <2>1 DEF NamesInv
    <3> QED BY <1>6, <1>13, <1>14, <2>1, <3>1
  <2>2. CASE ~(F(t).public /\ t \in Needed)
    BY <1>3, <1>6, <2>2
  <2> QED BY <2>1, <2>2
(* A new name differs from the others.                                     *)
<1>15. ASSUME ~Overloaded', t \notin Needed, NEW j \in Needed
       PROVE  names'[t] # names[j]
  <2> SUFFICES ASSUME names'[t] = names[j] PROVE FALSE
    OBVIOUS
  <2>1. names'[t] = NewName(t, ns, split') /\ j # t /\ j \in DOMAIN ns /\ ns[j] = names[j]
    BY <1>3, <1>6, <1>15
  <2>2. PICK p \in {<<>>, <<F(j).params>>}, s \in {"", "body"} : names[j] = Name(j, p, s)
    BY <1>15, Zenon DEF NamesInv, IsNameOf
  <2>3. PICK q \in {<<>>, <<F(t).params>>}, z \in {"", "body"} :
           /\ NewName(t, ns, split') = Name(t, q, z)
           /\ (Clashes(t, ns) => q = <<F(t).params>>) /\ (~Clashes(t, ns) => q = <<>>)
           /\ (t \in split' => z = "body") /\ (t \notin split' => z = "")
    BY NewNameFacts, Zenon
  <2>4. Qualifier(t) = Qualifier(j) /\ F(t).name = F(j).name /\ q = p /\ z = s
    <3>1. Name(t, q, z) = Name(j, p, s)
      BY <2>1, <2>2, <2>3, Zenon
    <3> QED BY <3>1 DEF Name
  <2>5. Key(j) # Key(t)
    BY <1>1, <1>7, <2>1, <2>4, OneBase
  <2>6. t \notin split'
    BY <1>1, <1>12, <1>15, <2>4, <2>5
  <2>7. CASE p = <<>>
    <3>1. names[j] = Name(j, <<>>, "")
      BY <2>2, <2>3, <2>4, <2>6, <2>7, Zenon
    <3>2. names[j] = Base(t)
      BY <2>4, <3>1 DEF Base, Name
    <3>3. Clashes(t, ns)
      BY <2>1, <2>5, <3>2, Zenon DEF Clashes
    <3>4. <<F(t).params>> = <<>>
      BY <2>3, <2>4, <2>7, <3>3, Zenon
    <3> QED BY <3>4
  <2>8. CASE p = <<F(j).params>>
    <3>1. q = <<F(t).params>> \/ q = <<>>
      BY <2>3
    <3>2. F(t).params = F(j).params
      BY <2>4, <2>8, <3>1
    <3> QED BY <2>4, <2>5, <3>2 DEF Key
  <2> QED BY <2>7, <2>8
<1>16. ASSUME ~Overloaded'
       PROVE  /\ \A i \in split' : names'[i] = Name(i, <<>>, "body")
              /\ \A i, j \in Needed' : names'[i] = names'[j] => i = j
  <2>1. ~Overloaded
    BY <1>11, <1>16
  <2>2. \A i \in split' : names'[i] = Name(i, <<>>, "body")
    BY <1>1, <1>2, <1>6, <1>13, <1>16, <2>1 DEF NamesInv
  <2>3. \A i, j \in Needed : names[i] = names[j] => i = j
    BY <2>1 DEF NamesInv
  <2>4. \A i \in Needed : names'[i] = names[i]
    BY <1>14, <1>16
  <2>5. t \notin Needed => \A j \in Needed : names'[t] # names'[j]
    BY <1>15, <1>16, <2>4
  <2>6. ASSUME NEW i \in Needed', NEW j \in Needed', names'[i] = names'[j]
        PROVE  i = j
    BY <1>1, <2>3, <2>4, <2>5, <2>6, Zenon
  <2> QED BY <2>2, <2>6
<1>17. NamesInv'
  <2>1. \A i : IsNameOf(names'[i], i) <=> IsNameOf(names[i], i)'
    BY SourceKept, Zenon
  <2>2. split' = {i \in Needed' : F(i)'.public} /\ split' \subseteq Needed'
    BY <1>2, <1>7, <1>10
  <2>3. Ids' = Ids
    BY SourceKept
  <2>4. (needed \in Seq(Ids))'
    BY <1>1, <2>3
  <2>5. (\A i \in Needed : IsNameOf(names[i], i))'
    BY <1>8, <2>1, Zenon
  <2>6. (~Overloaded => /\ \A i \in split : names[i] = Name(i, <<>>, "body")
                        /\ \A i, j \in Needed : names[i] = names[j] => i = j)'
    <3>1. \A i : Name(i, <<>>, "body")' = Name(i, <<>>, "body")
      BY SourceKept
    <3> QED BY <1>16, <3>1
  <2>7. (split = {i \in Needed : F(i).public})' /\ (names = [i \in Needed |-> names[i]])'
    BY <1>9, <2>2
  <2> QED BY <2>4, <2>5, <2>6, <2>7, Zenon DEF NamesInv
<1> QED BY <1>1, <1>11, <1>14, <1>17

-----------------------------------------------------------------------------
(***************************************************************************)
(* The invariant.  A call in a text is a call of the function that the     *)
(* text is of, goes where dispatch takes it, to a function that is needed, *)
(* and unless overloads are in the way under the name it has now.  When    *)
(* the internal functions are translated, those before the position have   *)
(* a text.                                                                 *)
(***************************************************************************)
CallsOf(t) == IF t[1] = "constructor" THEN source.constructor ELSE F(t[2]).calls

EntryOk(t) ==
  /\ t[1] \in {"constructor", "external", "internal"}
  /\ t[1] # "constructor" => t[2] \in Ids
  /\ t[1] = "internal" => t[2] \in Needed /\ (~Overloaded => t[3] = names[t[2]])

SiteOk(site, t) ==
  /\ site.target \in Needed
  /\ site.call = Wrapper \/ ( /\ site.call \in ToSet(CallsOf(t))
                              /\ site.target = Effective(site.call, Owner(t)) )
  /\ ~Overloaded => site.name = names[site.target]

TextsInv ==
  /\ \A t \in DOMAIN texts : /\ EntryOk(t)
                             /\ texts[t] \in Seq(ToSet(texts[t]))
                             /\ \A site \in ToSet(texts[t]) : SiteOk(site, t)
  /\ todo \in Seq(Calls)
  /\ todo # <<>> => entry \in DOMAIN texts /\ ToSet(todo) \subseteq ToSet(CallsOf(entry))

Translated(i) == \E t \in DOMAIN texts : t[1] = "internal" /\ t[2] = i

WorkInv ==
  /\ turn \in {"externals", "again", "constructor", "internals", "done"}
  /\ turn = "internals" => /\ at \in Nat /\ at >= 1 /\ at <= Len(needed) + 1
                           /\ \A m \in 1..Len(needed) : m < at => Translated(needed[m])
  /\ turn = "done" => todo = <<>> /\ \A m \in 1..Len(needed) : Translated(needed[m])

DraftInv == source \in Sources /\ NamesInv /\ TextsInv /\ WorkInv

(* A sequence of its own elements, with one more.                          *)
LEMMA AppendKept ==
  ASSUME NEW s, s \in Seq(ToSet(s)), NEW e
  PROVE  /\ Append(s, e) \in Seq(ToSet(Append(s, e)))
         /\ ToSet(Append(s, e)) = ToSet(s) \cup {e}
<1> DEFINE S == ToSet(s) \cup {e}
<1>1. s \in Seq(S)
  <2>1. s \in [1..Len(s) -> S] /\ Len(s) \in Nat
    OBVIOUS
  <2> QED BY <2>1
<1>2. e \in S
  OBVIOUS
<1> HIDE DEF S
<1>3. Append(s, e) \in Seq(S) /\ ToSet(Append(s, e)) = ToSet(s) \cup {e}
  BY <1>1, <1>2, ElementsOfAppend
<1> QED BY <1>3 DEF S

(***************************************************************************)
(* What texts have stays right when more functions are needed and, unless  *)
(* overloads are in the way, names stay.                                   *)
(***************************************************************************)
LEMMA Kept ==
  ASSUME UNCHANGED source, Needed \subseteq Needed',
         ~Overloaded' => ~Overloaded /\ \A i \in Needed : names'[i] = names[i]
  PROVE  /\ \A t : EntryOk(t) => EntryOk(t)'
         /\ \A site, t : SiteOk(site, t) => SiteOk(site, t)'
         /\ \A t : CallsOf(t)' = CallsOf(t)
<1>1. \A t : CallsOf(t)' = CallsOf(t)
  BY DEF CallsOf, F
<1>2. Ids' = Ids
  BY DEF Ids
<1>3. ASSUME NEW t, EntryOk(t)
      PROVE  EntryOk(t)'
  BY <1>2, <1>3 DEF EntryOk
<1>4. ASSUME NEW site, NEW t, SiteOk(site, t)
      PROVE  SiteOk(site, t)'
  <2>1. \A c, o : Effective(c, o)' = Effective(c, o)
    BY SourceKept
  <2>2. Owner(t)' = Owner(t)
    BY SourceKept
  <2>3. Effective(site.call, Owner(t))' = Effective(site.call, Owner(t))
    BY <2>1, <2>2
  <2> QED BY <1>1, <1>4, <2>3 DEF SiteOk, Wrapper
<1> QED BY <1>1, <1>3, <1>4

(* A step that asks for no function.                                       *)
LEMMA WorkKept ==
  ASSUME UNCHANGED source, UNCHANGED work
  PROVE  /\ Needed' = Needed /\ Overloaded' = Overloaded
         /\ NamesInv => NamesInv'
         /\ \A t : EntryOk(t) => EntryOk(t)'
         /\ \A site, t : SiteOk(site, t) => SiteOk(site, t)'
         /\ \A t : CallsOf(t)' = CallsOf(t)
<1>1. Needed' = Needed /\ names' = names /\ split' = split /\ needed' = needed
  BY DEF work, Needed
<1>2. Overloaded' = Overloaded
  BY <1>1 DEF Overloaded, F, Key
<1>3. NamesInv => NamesInv'
  <2>1. \A i : (\A n : IsNameOf(n, i)' <=> IsNameOf(n, i)) /\ Name(i, <<>>, "body")' = Name(i, <<>>, "body")
    BY SourceKept
  <2>2. (\A i \in Needed : IsNameOf(names[i], i)) => (\A i \in Needed : IsNameOf(names[i], i))'
    BY <1>1, SourceKept, Zenon
  <2>3. Ids' = Ids /\ \A i : F(i)' = F(i)
    BY DEF Ids, F
  <2>4. (\A i \in split : names[i] = Name(i, <<>>, "body"))
          => (\A i \in split : names[i] = Name(i, <<>>, "body"))'
    BY <1>1, <2>1
  <2> QED BY <1>1, <1>2, <2>2, <2>3, <2>4 DEF NamesInv
<1> QED BY <1>1, <1>2, <1>3, Kept

(***************************************************************************)
(* A text that is started.                                                 *)
(***************************************************************************)
LEMMA EmitStep ==
  ASSUME TextsInv, UNCHANGED source, UNCHANGED work, NEW e, NEW sites, NEW calls,
         Render(e, sites, calls), EntryOk(e),
         sites \in Seq(ToSet(sites)), \A site \in ToSet(sites) : SiteOk(site, e),
         calls \in Seq(Calls), ToSet(calls) \subseteq ToSet(CallsOf(e))
  PROVE  TextsInv' /\ DOMAIN texts' = DOMAIN texts \cup {e}
<1>1. /\ DOMAIN texts' = DOMAIN texts \cup {e}
      /\ texts'[e] = sites /\ entry' = e /\ todo' = calls
      /\ \A t \in DOMAIN texts : t # e => texts'[t] = texts[t]
  BY DEF Render
<1>2. ASSUME NEW t \in DOMAIN texts'
      PROVE  /\ EntryOk(t)'
             /\ texts'[t] \in Seq(ToSet(texts'[t]))
             /\ \A site \in ToSet(texts'[t]) : SiteOk(site, t)'
  <2>1. CASE t = e
    BY <1>1, <2>1, WorkKept, Zenon
  <2>2. CASE t # e
    <3>1. t \in DOMAIN texts /\ texts'[t] = texts[t]
      BY <1>1, <2>2
    <3> QED BY <3>1, WorkKept, Zenon DEF TextsInv
  <2> QED BY <2>1, <2>2
<1>3. Calls' = Calls /\ CallsOf(entry)' = CallsOf(e)
  <2>1. CallsOf(entry)' = CallsOf(e)
    BY <1>1 DEF CallsOf, F
  <2> QED BY <2>1, SourceKept
<1>4. (/\ todo \in Seq(Calls)
       /\ todo # <<>> => entry \in DOMAIN texts /\ ToSet(todo) \subseteq ToSet(CallsOf(entry)))'
  BY <1>1, <1>3
<1>5. (\A t \in DOMAIN texts : /\ EntryOk(t)
                               /\ texts[t] \in Seq(ToSet(texts[t]))
                               /\ \A site \in ToSet(texts[t]) : SiteOk(site, t))'
  BY <1>2, Zenon
<1>6. TextsInv'
  BY <1>4, <1>5, Zenon DEF TextsInv
<1> QED BY <1>1, <1>6

-----------------------------------------------------------------------------
(***************************************************************************)
(* The steps.                                                              *)
(***************************************************************************)
LEMMA InitStep ==
  ASSUME ContractInit
  PROVE  DraftInv
<1>1. Needed = {} /\ needed \in Seq(Ids) /\ todo \in Seq(Calls)
  BY DEF ContractInit, Needed, ToSet
<1>2. DOMAIN texts = {} /\ DOMAIN names = {}
  BY DEF ContractInit
<1>3. names = [i \in Needed |-> names[i]]
  BY <1>1 DEF ContractInit
<1> QED BY <1>1, <1>2, <1>3 DEF ContractInit, DraftInv, NamesInv, TextsInv, WorkInv

(* A turn that is at a function: only the internal functions' counts what  *)
(* is translated.                                                          *)
LEMMA EarlyTurn ==
  ASSUME NEW which \in {"externals", "again", "constructor"}, NEW p, Begin(which, p)
  PROVE  WorkInv'
BY DEF Begin, WorkInv

(* A function's body.                                                      *)
LEMMA BodyStep ==
  ASSUME Legal, TextsInv, UNCHANGED source, UNCHANGED work, NEW e, EntryOk(e),
         Render(e, <<>>, CallsOf(e))
  PROVE  TextsInv' /\ DOMAIN texts' = DOMAIN texts \cup {e}
<1>1. <<>> \in Seq(ToSet(<<>>)) /\ ToSet(<<>>) = {}
  BY DEF ToSet
<1>2. CallsOf(e) \in Seq(Calls)
  BY DEF CallsOf, EntryOk, Legal
<1> QED BY <1>1, <1>2, EmitStep

(* A wrapper of a public function that is called internally.               *)
LEMMA WrapperStep ==
  ASSUME Legal, NamesInv, TextsInv, UNCHANGED source, NEW i \in split, RenderWrapper(i)
  PROVE  NamesInv' /\ TextsInv'
<1> DEFINE e    == <<"external", i>>
           site == [call |-> Wrapper, name |-> names[i], target |-> i]
<1>1. i \in Needed /\ i \in Ids
  <2>1. Needed \subseteq Ids
    BY ElementOf DEF NamesInv, Needed
  <2> QED BY <2>1 DEF NamesInv
<1>2. names' = names /\ UNCHANGED work
  BY <1>1, GivenAgain DEF RenderWrapper, work
<1>3. Render(e, <<site>>, <<>>)
  BY <1>2 DEF RenderWrapper
<1>4. EntryOk(e)
  BY <1>1 DEF EntryOk
<1>5. SiteOk(site, e)
  BY <1>1 DEF SiteOk
<1>6. <<site>> \in Seq(ToSet(<<site>>)) /\ ToSet(<<site>>) = {site}
  BY DEF ToSet
<1>7. <<>> \in Seq(Calls) /\ ToSet(<<>>) \subseteq ToSet(CallsOf(e))
  BY DEF ToSet
<1> HIDE DEF e, site
<1>8. TextsInv'
  BY <1>2, <1>3, <1>4, <1>5, <1>6, <1>7, EmitStep
<1> QED BY <1>2, <1>8, WorkKept

(* The next public function is one of the source.                          *)
LEMMA CandidateId ==
  ASSUME Legal, NEW i \in Coming
  PROVE  i \in Ids
BY FirstFacts DEF Coming, Ahead, Externals

(* A public function is drafted.                                           *)
LEMMA ExternalStep ==
  ASSUME Legal, DraftInv, External
  PROVE  DraftInv'
<1>1. PICK i \in Coming :
        /\ Begin("externals", i)
        /\ IF i \in split THEN RenderWrapper(i)
           ELSE Render(<<"external", i>>, <<>>, F(i).calls) /\ UNCHANGED work
  BY DEF External
<1>2. UNCHANGED source
  BY <1>1 DEF Begin
<1>3. NamesInv' /\ TextsInv'
  <2>1. CASE i \in split
    BY <1>1, <1>2, <2>1, WrapperStep DEF DraftInv
  <2>2. CASE i \notin split
    <3> DEFINE e == <<"external", i>>
    <3>1. EntryOk(e) /\ CallsOf(e) = F(i).calls
      BY CandidateId DEF EntryOk, CallsOf
    <3>2. Render(e, <<>>, F(i).calls) /\ UNCHANGED work
      BY <1>1, <2>2
    <3> HIDE DEF e
    <3>3. TextsInv'
      BY <1>2, <3>1, <3>2, BodyStep DEF DraftInv
    <3> QED BY <1>2, <3>2, <3>3, WorkKept DEF DraftInv
  <2> QED BY <2>1, <2>2
<1>4. WorkInv'
  BY <1>1, EarlyTurn
<1> QED BY <1>2, <1>3, <1>4 DEF DraftInv

(* Nothing but the position changes.                                       *)
LEMMA TextsKept ==
  ASSUME TextsInv, UNCHANGED <<source, texts, entry, todo, work>>
  PROVE  TextsInv'
<1>1. \A t \in DOMAIN texts' : /\ EntryOk(t)'
                                /\ texts'[t] \in Seq(ToSet(texts'[t]))
                                /\ \A site \in ToSet(texts'[t]) : SiteOk(site, t)'
  BY WorkKept, Zenon DEF TextsInv
<1>2. Calls' = Calls /\ CallsOf(entry)' = CallsOf(entry)
  BY SourceKept DEF CallsOf, F
<1>3. (/\ todo \in Seq(Calls)
       /\ todo # <<>> => entry \in DOMAIN texts /\ ToSet(todo) \subseteq ToSet(CallsOf(entry)))'
  BY <1>2 DEF TextsInv
<1> QED BY <1>1, <1>3, Zenon DEF TextsInv

(* A function that is split is drafted once more.                          *)
LEMMA AgainStep ==
  ASSUME Legal, DraftInv, Again
  PROVE  DraftInv'
<1>1. PICK i \in Coming :
        /\ Begin("again", i)
        /\ IF i \in split THEN RenderWrapper(i) ELSE UNCHANGED <<texts, entry, todo, work>>
  BY DEF Again
<1>2. UNCHANGED source
  BY <1>1 DEF Begin
<1>3. NamesInv' /\ TextsInv'
  <2>1. CASE i \in split
    BY <1>1, <1>2, <2>1, WrapperStep DEF DraftInv
  <2>2. CASE i \notin split
    BY <1>1, <1>2, <2>2, TextsKept, WorkKept DEF DraftInv
  <2> QED BY <2>1, <2>2
<1>4. WorkInv'
  BY <1>1, EarlyTurn
<1> QED BY <1>2, <1>3, <1>4 DEF DraftInv

(* The constructor is drafted.                                             *)
LEMMA ConstructorStep ==
  ASSUME Legal, DraftInv, Constructor
  PROVE  DraftInv'
<1> DEFINE e == <<"constructor", 0>>
<1>1. EntryOk(e) /\ CallsOf(e) = source.constructor
  BY DEF EntryOk, CallsOf
<1>2. Render(e, <<>>, source.constructor) /\ UNCHANGED work /\ UNCHANGED source
  BY DEF Constructor, Begin
<1> HIDE DEF e
<1>3. NamesInv' /\ TextsInv'
  BY <1>1, <1>2, BodyStep, WorkKept DEF DraftInv
<1>4. WorkInv'
  BY EarlyTurn DEF Constructor
<1> QED BY <1>2, <1>3, <1>4 DEF DraftInv

(* The next internal function: from here on it is translated.              *)
LEMMA InternalStep ==
  ASSUME Legal, DraftInv, Internal
  PROVE  DraftInv'
<1> DEFINE i == needed[at]
           e == <<"internal", i, names[i]>>
<1>1. /\ turn = "internals" /\ at <= Len(needed) /\ at' = at + 1 /\ UNCHANGED <<source, turn>>
      /\ names' = Give(i, names, split)
      /\ Render(<<"internal", i, names'[i]>>, <<>>, F(i).calls)
      /\ UNCHANGED <<needed, split>>
  BY DEF Internal, Begin
<1>2. at \in 1..Len(needed) /\ Len(needed) \in Nat /\ needed \in Seq(Ids)
  BY <1>1 DEF DraftInv, WorkInv, NamesInv
<1>3. i \in Needed /\ i \in Ids
  <2>1. Needed = {needed[m] : m \in 1..Len(needed)} /\ Needed \subseteq Ids
    BY <1>2, ElementOf DEF Needed
  <2> QED BY <1>2, <2>1
<1>4. names' = names /\ UNCHANGED work
  BY <1>1, <1>3, GivenAgain DEF DraftInv, work
<1>5. EntryOk(e) /\ CallsOf(e) = F(i).calls /\ Render(e, <<>>, F(i).calls) /\ e[1] = "internal" /\ e[2] = i
  BY <1>1, <1>3, <1>4 DEF EntryOk, CallsOf
<1>6. TextsInv' /\ DOMAIN texts' = DOMAIN texts \cup {e} /\ NamesInv'
  <2> HIDE DEF e
  <2> QED BY <1>1, <1>4, <1>5, BodyStep, WorkKept DEF DraftInv
<1>7. WorkInv'
  <2>1. ASSUME NEW m \in 1..Len(needed), m < at + 1
        PROVE  Translated(needed[m])'
    <3> HIDE DEF e
    <3>1. CASE m = at
      BY <1>1, <1>5, <1>6, <3>1 DEF Translated
    <3>2. CASE m # at
      <4>1. Translated(needed[m])
        BY <1>1, <1>2, <2>1, <3>2 DEF DraftInv, WorkInv
      <4> QED BY <1>1, <1>6, <4>1 DEF Translated
    <3> QED BY <3>1, <3>2
  <2>2. at' \in Nat /\ at' >= 1 /\ at' <= Len(needed') + 1
    BY <1>1, <1>2
  <2> QED BY <1>1, <2>1, <2>2 DEF WorkInv
<1> QED BY <1>1, <1>6, <1>7 DEF DraftInv

(* A call: its target is needed, and the text has one call more.           *)
LEMMA HoistStep ==
  ASSUME Legal, DraftInv, HoistCall
  PROVE  DraftInv'
<1>0. PICK e, call, t, site : /\ e = entry /\ call = Head(todo) /\ t = Effective(call, Owner(e))
                              /\ site = [call |-> call, name |-> names'[t], target |-> t]
  BY Zenon
<1>1. /\ todo # <<>> /\ todo' = Tail(todo) /\ UNCHANGED <<source, turn, at>>
      /\ split' = IF F(t).public THEN split \cup {t} ELSE split
      /\ names' = Give(t, IF F(t).public THEN Forget(t, names) ELSE names, split')
      /\ needed' = WithNeeded(t)
      /\ texts' = [texts EXCEPT ![e] = Append(@, site)] /\ entry = e /\ entry' = e
  BY <1>0 DEF HoistCall
<1>2. /\ e \in DOMAIN texts /\ call \in Calls /\ call \in ToSet(CallsOf(e))
      /\ todo' \in Seq(Calls) /\ ToSet(todo') \subseteq ToSet(CallsOf(e))
  <2>1. todo \in Seq(Calls) /\ e \in DOMAIN texts /\ ToSet(todo) \subseteq ToSet(CallsOf(e))
    BY <1>1 DEF DraftInv, TextsInv
  <2>2. call \in ToSet(todo) /\ Tail(todo) \in Seq(Calls) /\ ToSet(Tail(todo)) \subseteq ToSet(todo)
    BY <1>0, <1>1, <2>1, ElementsOfTail
  <2>3. ToSet(todo) \subseteq Calls
    BY <2>1, ElementOf
  <2> QED BY <1>1, <2>1, <2>2, <2>3
<1>3. t \in Ids
  BY <1>0, <1>2, EffectiveId
<1>4. /\ NamesInv' /\ Needed' = Needed \cup {t}
      /\ Len(needed) <= Len(needed') /\ \A m \in 1..Len(needed) : needed'[m] = needed[m]
      /\ ~Overloaded' => ~Overloaded /\ \A i \in Needed : names'[i] = names[i]
  BY <1>1, <1>3, NamingStep DEF DraftInv
<1>5. /\ \A u : EntryOk(u) => EntryOk(u)'
      /\ \A a, u : SiteOk(a, u) => SiteOk(a, u)'
      /\ \A u : CallsOf(u)' = CallsOf(u)
  BY <1>1, <1>4, Kept
<1>6. SiteOk(site, e)'
  <2>1. site.call = call /\ site.target = t /\ site.name = names'[t]
    BY <1>0
  <2>2. Effective(call, Owner(e))' = t
    BY <1>0, <1>1, SourceKept
  <2>3. call \in ToSet(CallsOf(e)')
    BY <1>2, <1>5
  <2>4. t \in Needed'
    BY <1>4
  <2> QED BY <2>1, <2>2, <2>3, <2>4 DEF SiteOk
<1>7. /\ DOMAIN texts' = DOMAIN texts
      /\ texts'[e] = Append(texts[e], site)
      /\ \A u \in DOMAIN texts : u # e => texts'[u] = texts[u]
  BY <1>1, <1>2
<1>8. ASSUME NEW u \in DOMAIN texts'
      PROVE  /\ EntryOk(u)'
             /\ texts'[u] \in Seq(ToSet(texts'[u]))
             /\ \A a \in ToSet(texts'[u]) : SiteOk(a, u)'
  <2>1. /\ EntryOk(u) /\ texts[u] \in Seq(ToSet(texts[u]))
        /\ \A a \in ToSet(texts[u]) : SiteOk(a, u)
    BY <1>7, <1>8 DEF DraftInv, TextsInv
  <2>2. CASE u = e
    <3>1. texts'[u] \in Seq(ToSet(texts'[u])) /\ ToSet(texts'[u]) = ToSet(texts[u]) \cup {site}
      <4>1. /\ Append(texts[u], site) \in Seq(ToSet(Append(texts[u], site)))
            /\ ToSet(Append(texts[u], site)) = ToSet(texts[u]) \cup {site}
        BY <2>1, AppendKept
      <4>2. texts'[u] = Append(texts[u], site)
        BY <1>7, <2>2
      <4> QED BY <4>1, <4>2, Zenon
    <3> QED BY <1>5, <1>6, <1>1, <2>1, <2>2, <3>1, Zenon
  <2>3. CASE u # e
    BY <1>5, <1>7, <2>1, <2>3, Zenon
  <2> QED BY <2>2, <2>3
<1>9. TextsInv'
  <2>1. (\A u \in DOMAIN texts : /\ EntryOk(u)
                                 /\ texts[u] \in Seq(ToSet(texts[u]))
                                 /\ \A a \in ToSet(texts[u]) : SiteOk(a, u))'
    BY <1>8, Zenon
  <2>2. Calls' = Calls /\ CallsOf(entry)' = CallsOf(e)
    BY <1>1, SourceKept DEF CallsOf, F
  <2>3. (/\ todo \in Seq(Calls)
         /\ todo # <<>> => entry \in DOMAIN texts /\ ToSet(todo) \subseteq ToSet(CallsOf(entry)))'
    BY <1>1, <1>2, <1>7, <2>2
  <2> QED BY <2>1, <2>3, Zenon DEF TextsInv
<1>10. WorkInv'
  <2>1. \A i : Translated(i) => Translated(i)'
    BY <1>7 DEF Translated
  <2>2. turn # "done"
    BY <1>1 DEF DraftInv, WorkInv
  <2>3. Len(needed) \in Nat /\ Len(needed') \in Nat
    BY <1>4 DEF NamesInv, DraftInv
  <2>4. ASSUME turn = "internals"
        PROVE  (/\ at \in Nat /\ at >= 1 /\ at <= Len(needed) + 1
                /\ \A m \in 1..Len(needed) : m < at => Translated(needed[m]))'
    <3>1. at \in Nat /\ at >= 1 /\ at <= Len(needed) + 1 /\ at' = at
          /\ \A m \in 1..Len(needed) : m < at => Translated(needed[m])
      BY <1>1, <2>4 DEF DraftInv, WorkInv
    <3>2. ASSUME NEW m \in 1..Len(needed'), m < at
          PROVE  Translated(needed[m])'
      <4>1. m \in 1..Len(needed) /\ needed'[m] = needed[m]
        BY <1>4, <2>3, <3>1, <3>2
      <4>2. Translated(needed[m])
        BY <3>1, <3>2, <4>1
      <4> QED BY <2>1, <4>1, <4>2 DEF Translated
    <3> QED BY <1>4, <2>3, <3>1, <3>2
  <2> QED BY <1>1, <2>2, <2>4 DEF DraftInv, WorkInv
<1> QED BY <1>1, <1>4, <1>9, <1>10 DEF DraftInv

(* The work list is at its end, and the contract is done.                  *)
LEMMA TurnStep ==
  ASSUME Legal, DraftInv, NextTurn
  PROVE  DraftInv'
<1>1. /\ turn # "done" /\ todo = <<>> /\ turn' = TurnAfter[turn] /\ at' = 1
      /\ UNCHANGED <<source, texts, entry, todo, work>>
      /\ turn = "internals" => at > Len(needed)
  BY DEF NextTurn
<1>2. NamesInv' /\ TextsInv'
  BY <1>1, TextsKept, WorkKept DEF DraftInv
<1>3. WorkInv'
  <2>1. Len(needed) \in Nat /\ needed' = needed
    BY <1>1 DEF DraftInv, NamesInv, work
  <2>2. CASE turn \in {"externals", "again"}
    <3>1. turn' \in {"again", "constructor"}
      BY <1>1, <2>2 DEF TurnAfter
    <3> QED BY <3>1 DEF WorkInv
  <2>3. CASE turn = "constructor"
    <3>1. turn' = "internals"
      BY <1>1, <2>3 DEF TurnAfter
    <3> QED BY <1>1, <2>1, <3>1 DEF WorkInv
  <2>4. CASE turn = "internals"
    <3>1. turn' = "done"
      BY <1>1, <2>4 DEF TurnAfter
    <3>2. \A m \in 1..Len(needed) : Translated(needed[m])
      BY <1>1, <2>1, <2>4 DEF DraftInv, WorkInv
    <3> QED BY <1>1, <2>1, <3>1, <3>2 DEF WorkInv, Translated
  <2> QED BY <1>1, <2>2, <2>3, <2>4 DEF DraftInv, WorkInv
<1> QED BY <1>1, <1>2, <1>3 DEF DraftInv

(* Nothing happens.                                                        *)
LEMMA StutterStep ==
  ASSUME DraftInv, UNCHANGED contractVars
  PROVE  DraftInv'
<1>1. UNCHANGED <<source, texts, entry, todo, work>> /\ UNCHANGED <<turn, at, needed>>
  BY DEF contractVars, work
<1>2. NamesInv' /\ TextsInv'
  BY <1>1, TextsKept, WorkKept DEF DraftInv
<1>3. WorkInv'
  BY <1>1 DEF DraftInv, WorkInv, Translated
<1> QED BY <1>1, <1>2, <1>3 DEF DraftInv

(***************************************************************************)
(* The invariant of the translation of a contract: the calls in the texts  *)
(* and the names and functions they have led to fit together at any time.  *)
(***************************************************************************)
THEOREM DraftInvariant == ContractSpec => []DraftInv
<1>1. ContractInit => DraftInv
  BY InitStep
<1>2. DraftInv /\ [ContractNext]_contractVars => DraftInv'
  <2> SUFFICES ASSUME DraftInv, [ContractNext]_contractVars PROVE DraftInv'
    OBVIOUS
  <2>1. Legal
    BY SourceLegal DEF DraftInv
  <2> QED BY <2>1, ExternalStep, AgainStep, ConstructorStep, InternalStep, HoistStep, TurnStep,
             StutterStep DEF ContractNext
<1> QED BY <1>1, <1>2, PTL DEF ContractSpec

(***************************************************************************)
(* Calls of the draft go where Solidity's go, for any contract: those of   *)
(* super as well, which depend on the order of the whole hierarchy.        *)
(***************************************************************************)
THEOREM DispatchSound == ContractSpec => []DispatchFaithful
<1>1. DraftInv => DispatchFaithful
  <2> SUFFICES ASSUME DraftInv, NEW t \in DOMAIN texts, t[1] # "constructor",
                      NEW site \in ToSet(texts[t]), site.call # Wrapper, ~Hidden(site.call)
               PROVE  site.target = SolidityTarget(site.call, F(t[2]).owner)
    BY DEF DispatchFaithful
  <2>1. EntryOk(t) /\ SiteOk(site, t)
    BY DEF DraftInv, TextsInv
  <2>2. /\ t[2] \in Ids /\ site.call \in ToSet(F(t[2]).calls)
        /\ site.target = Effective(site.call, F(t[2]).owner)
    BY <2>1 DEF EntryOk, SiteOk, CallsOf, Owner
  <2>3. Legal
    BY SourceLegal DEF DraftInv
  <2> QED BY <2>2, <2>3, EffectiveFaithful
<1> QED BY <1>1, DraftInvariant, PTL

(***************************************************************************)
(* Once a contract is translated, every call in the draft names one        *)
(* internal function of it, the one that was meant, for any contract whose *)
(* overloads the naming can keep apart.                                    *)
(***************************************************************************)
THEOREM CallsResolved == ContractSpec => []CallsDefined
<1>1. DraftInv => CallsDefined
  <2> SUFFICES ASSUME DraftInv, Done, ~Overloaded, NEW site \in Sites
               PROVE  Defined(site)
    BY DEF CallsDefined
  <2>1. PICK t \in DOMAIN texts : site \in ToSet(texts[t])
    BY DEF Sites
  <2>2. site.target \in Needed /\ site.name = names[site.target]
    BY <2>1 DEF DraftInv, TextsInv, SiteOk
  <2>3. PICK m \in 1..Len(needed) : needed[m] = site.target
    <3>1. Needed = {needed[m] : m \in 1..Len(needed)}
      BY ElementOf DEF DraftInv, NamesInv, Needed
    <3> QED BY <2>2, <3>1
  <2>4. Translated(site.target)
    BY <2>3 DEF DraftInv, WorkInv, Done
  <2>5. \A u \in Internals : u[2] \in Needed /\ u[3] = names[u[2]]
    BY DEF Internals, DraftInv, TextsInv, EntryOk
  <2>6. PICK u \in Internals : u[2] = site.target
    BY <2>4 DEF Translated, Internals
  <2>7. u[3] = site.name
    BY <2>2, <2>5, <2>6
  <2>8. ASSUME NEW v \in Internals, v[3] = site.name
        PROVE  v[2] = site.target
    <3>1. \A i, j \in Needed : names[i] = names[j] => i = j
      BY DEF DraftInv, NamesInv
    <3> QED BY <2>2, <2>5, <2>8, <3>1
  <2> QED BY <2>7, <2>8 DEF Defined
<1> QED BY <1>1, DraftInvariant, PTL

=============================================================================
