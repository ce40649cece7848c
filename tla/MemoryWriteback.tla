---------------------------- MODULE MemoryWriteback ----------------------------
(***************************************************************************)
(* src/scripts/sol2stele.py: a function of the draft returns the final     *)
(* values of the memory parameters that it may modify (MemoryEffects)      *)
(* after its result, and every caller assigns them back to the arguments.  *)
(***************************************************************************)
EXTENDS MemoryEffects, FiniteSetsExt

CONSTANTS
  Locals,        \* the variables of a body that are not parameters
  Depth          \* calls nested at most, where bodies are run

ASSUME LocalsAssumption == Locals \cap Params = {}

-----------------------------------------------------------------------------
(* A function run in Solidity: variables refer to objects of a heap.  The  *)
(* result of every function is the last parameter's field at its end.      *)

RECURSIVE RunSource(_, _, _, _)
RunSource(body, env, st, depth) ==
  IF body = <<>> \/ st.stuck THEN [st EXCEPT !.result = st.heap[env[Last(Parameters)]]]
  ELSE LET s == body[1]
           rest(e, t) == RunSource(Tail(body), e, t, depth)
       IN CASE s.k = "touch"   -> rest(env, [st EXCEPT !.heap[env[s.v]] = @ + 1])
            [] s.k = "observe" -> rest(env, [st EXCEPT !.log = Append(@, st.heap[env[s.v]])])
            [] s.k = "fresh"   -> rest([env EXCEPT ![s.v] = Len(st.heap) + 1],
                                       [st EXCEPT !.heap = Append(@, 0)])
            [] s.k = "alias"   -> rest([env EXCEPT ![s.v] = env[s.w]], st)
            [] s.k = "call"    ->
                 IF depth = 0 THEN [st EXCEPT !.stuck = TRUE]
                 ELSE LET inside == [v \in Params \cup Locals |->
                                       IF v \in Params THEN env[s.args[Index(v)]] ELSE 0]
                          called == RunSource(Body(s.fn), inside, st, depth - 1)
                      IN rest(env, [called EXCEPT !.log = Append(@, called.result)])

(* And in Stele: variables are objects, a function gives back the sequence *)
(* of its result and the objects it may have modified.                     *)
Written(f) == SetToSortSeq(writebacks[f], <)

(* Fault: the first value returned goes to the first argument.             *)
ResultCounted(j) == j
Component(j) == 1 + j

RECURSIVE AssignBack(_, _, _, _)
AssignBack(env, s, values, j) ==
  IF j > Len(Written(s.fn)) THEN env
  ELSE AssignBack([env EXCEPT ![s.args[Written(s.fn)[j]]] = values[Component(j)]],
                  s, values, j + 1)

RECURSIVE RunDraft(_, _, _, _, _)
RunDraft(f, body, env, st, depth) ==
  IF body = <<>> \/ st.stuck
  THEN [st EXCEPT !.values = <<env[Last(Parameters)]>>
                             \o [j \in DOMAIN Written(f) |-> env[Parameters[Written(f)[j]]]]]
  ELSE LET s == body[1]
           rest(e, t) == RunDraft(f, Tail(body), e, t, depth)
       IN CASE s.k = "touch"   -> rest([env EXCEPT ![s.v] = @ + 1], st)
            [] s.k = "observe" -> rest(env, [st EXCEPT !.log = Append(@, env[s.v])])
            [] s.k = "fresh"   -> rest([env EXCEPT ![s.v] = 0], st)
            [] s.k = "alias"   -> rest([env EXCEPT ![s.v] = env[s.w]], st)
            [] s.k = "call"    ->
                 IF depth = 0 THEN [st EXCEPT !.stuck = TRUE]
                 ELSE LET inside == [v \in Params \cup Locals |->
                                       IF v \in Params THEN env[s.args[Index(v)]] ELSE 0]
                          called == RunDraft(s.fn, Body(s.fn), inside, st, depth - 1)
                      IN rest(AssignBack(env, s, called.values, 1),
                              [called EXCEPT !.log = Append(@, called.values[1])])

(* Called with a fresh object for each parameter: the values observed on   *)
(* the way, the result, and, by a caller in the contract, the objects      *)
(* afterwards.                                                             *)
SourceSees(f) ==
  LET env == [v \in Params \cup Locals |-> IF v \in Params THEN Index(v) ELSE 0]
      r == RunSource(Body(f), env, [heap |-> [i \in Indices |-> 0], log |-> <<>>,
                                    result |-> 0, stuck |-> FALSE], Depth)
  IN IF r.stuck THEN <<>>
     ELSE <<r.log, r.result>> \o (IF IsInternal(f) THEN [i \in Indices |-> r.heap[i]] ELSE <<>>)

DraftSees(f) ==
  LET r == RunDraft(f, Body(f), [v \in Params \cup Locals |-> 0],
                    [log |-> <<>>, values |-> <<>>, stuck |-> FALSE], Depth)
      after(i) == IF i \in writebacks[f]
                  THEN r.values[1 + Cardinality({j \in writebacks[f] : j <= i})] ELSE 0
  IN IF r.stuck THEN <<>>
     ELSE <<r.log, r.values[1]>> \o (IF IsInternal(f) THEN [i \in Indices |-> after(i)] ELSE <<>>)

-----------------------------------------------------------------------------
(* Properties.                                                             *)

(* A name is given to an object that is used under another name as well:   *)
(* a name of a local's object, one read after the object has changed, one  *)
(* handed to a call together with the other.                               *)
SharedName(body) ==
  \E i \in DOMAIN body : body[i].k = "alias" /\
    LET after == {body[j] : j \in (i + 1)..Len(body)}
        v == body[i].v
        w == body[i].w
    IN \/ w \in Locals
       \/ \E s \in after : s.k = "call" /\ {v, w} \subseteq ToSet(s.args)
       \/ w \in InPlace(SetToSeq(after), writebacks)

(* An external function writes to an object under a name that it has given *)
(* it, which is a hole in an internal one.                                 *)
ExternalAlias ==
  \E f \in ToSet(Names) : ~IsInternal(f) /\
    \E i \in DOMAIN Body(f) : Body(f)[i].k = "alias" /\
      Body(f)[i].v \in InPlace([j \in 1..Len(Body(f)) - i |-> Body(f)[i + j]], writebacks)

(* One object is two arguments.                                            *)
SharedArgument(body) == \E s \in ToSet(body) : s.k = "call" /\ ~IsInjective(s.args)

Claimed == finished /\ \A f \in ToSet(Names) : ~HasHole(f, writebacks)
Shared(P(_)) == \E f \in ToSet(Names) : P(Body(f))
SameSeen == \A f \in ToSet(Names) :
  SourceSees(f) = <<>> \/ SourceSees(f) = DraftSees(f)

(* Without holes, and but for the three patterns above, every function     *)
(* shows its callers in the draft what it does in Solidity.                *)
WritebackFaithful ==
  Claimed /\ ~Shared(SharedName) /\ ~Shared(SharedArgument) /\ ~ExternalAlias => SameSeen

=============================================================================
