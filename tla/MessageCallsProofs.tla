-------------------------- MODULE MessageCallsProofs -------------------------
(***************************************************************************)
(* Proofs about MessageCalls, for every set of accounts, word size, depth  *)
(* limit, nonce cap and offered value.                                     *)
(***************************************************************************)
EXTENDS MessageCalls, SequenceTheorems, TLAPS

Statuses == {"ok", "reverted", "staticViolation"}

(* The pairs a world has used for addresses are below its nonces.          *)
SpentBelow(w) ==
  \A x \in Account, n \in Nonces : <<x, n>> \in w.spent => n < w.nonce[x]

(* STATICCALLs offer no value.                                             *)
ViewsFree == \A v \in ViewOffers : WordOfInt(v) = 0

-----------------------------------------------------------------------------

LEMMA WordsAreWords ==
  ASSUME NEW v \in Int
  PROVE  WordOfInt(v) \in Words
BY WordModAssumption, Z3 DEF WordOfInt, Words

(* A transfer changes balances only, and none of them if the value is zero.*)
LEMMA TransferFacts ==
  ASSUME NEW w \in Worlds, NEW from \in Account, NEW to \in Account,
         NEW word \in Words
  PROVE  /\ Transfer(w, from, to, word) \in Worlds
         /\ Transfer(w, from, to, word).nonce = w.nonce
         /\ Transfer(w, from, to, word).spent = w.spent
         /\ word = 0 => Transfer(w, from, to, word) = w
<1> DEFINE credited == [w.balance EXCEPT ![to] = (@ + word) % WordMod]
           debited  == [credited EXCEPT ![from] = (@ - word) % WordMod]
<1>1. w.balance \in [Account -> Words] /\ \A x \in Account : w.balance[x] \in Int
  BY WordModAssumption DEF Worlds, Words
<1>2. word \in Int /\ \A i \in Int : i % WordMod \in Words
  BY WordModAssumption, WordsAreWords DEF Words, WordOfInt
<1>3. credited \in [Account -> Words]
  BY <1>1, <1>2
<1>4. \A x \in Account : credited[x] \in Int
  BY <1>3, WordModAssumption DEF Words
<1>5. debited \in [Account -> Words]
  BY <1>2, <1>3, <1>4
<1>6. Transfer(w, from, to, word) = [w EXCEPT !.balance = debited]
  BY DEF Transfer
<1>7. ASSUME word = 0 PROVE [w EXCEPT !.balance = debited] = w
  <2>1. \A i \in Words : i % WordMod = i /\ (i + 0) % WordMod = i /\ (i - 0) % WordMod = i
    BY WordModAssumption, Z3 DEF Words
  <2>2. credited = w.balance
    BY <1>1, <1>7, <2>1
  <2>3. debited = w.balance
    BY <1>1, <1>7, <2>1, <2>2
  <2> QED BY <2>3 DEF Worlds
<1> HIDE DEF debited, credited
<1> QED BY <1>5, <1>6, <1>7 DEF Worlds

LEMMA StackFacts ==
  ASSUME TypeOK
  PROVE  /\ Len(stack) \in Nat \ {0} /\ Top \in Frames
         /\ \A i \in 1..Len(stack) : stack[i] \in Frames
         /\ Below \in Seq(Frames) /\ Len(Below) = Len(stack) - 1
         /\ \A i \in 1..Len(stack) - 1 : Below[i] = stack[i]
<1>1. stack \in Seq(Frames) /\ stack # <<>>
  BY DEF TypeOK
<1>2. Len(stack) \in Nat \ {0} /\ \A i \in 1..Len(stack) : stack[i] \in Frames
  BY <1>1, LenProperties
<1>3. \A i \in 1..Len(stack) - 1 : stack[i] \in Frames
  BY <1>2
<1>4. Below \in Seq(Frames)
      /\ Len(Below) = (IF 1 <= Len(stack) - 1 THEN Len(stack) - 1 - 1 + 1 ELSE 0)
      /\ \A i \in 1..(Len(stack) - 1) - 1 + 1 : Below[i] = stack[1 + i - 1]
  BY <1>2, <1>3, SubSeqProperties DEF Below
<1>5. Len(Below) = Len(stack) - 1
  <2>1. Len(stack) \in Nat \ {0}
    BY <1>2, Zenon
  <2>2. Len(Below) = IF 1 <= Len(stack) - 1 THEN Len(stack) - 1 - 1 + 1 ELSE 0
    BY <1>4, Zenon
  <2>3. ASSUME NEW n \in Nat \ {0}
        PROVE  (IF 1 <= n - 1 THEN n - 1 - 1 + 1 ELSE 0) = n - 1
    OBVIOUS
  <2> QED BY <2>1, <2>2, <2>3, Zenon
<1>6. \A i \in 1..Len(stack) - 1 : Below[i] = stack[i]
  <2>1. TAKE i \in 1..Len(stack) - 1
  <2>2. i \in 1..(Len(stack) - 1) - 1 + 1 /\ 1 + i - 1 = i
    BY <1>2
  <2>3. Below[i] = stack[1 + i - 1]
    BY <1>4, <2>2, Zenon
  <2> QED BY <2>2, <2>3, Zenon
<1>7. Top \in Frames
  BY <1>2 DEF Top
<1> QED BY <1>2, <1>4, <1>5, <1>6, <1>7, Zenon

-----------------------------------------------------------------------------
(***************************************************************************)
(* What a step can do, whichever action it is.                             *)
(***************************************************************************)
(* The innermost frame fails or only touches what is not modelled.         *)
Stand ==
  /\ Running
  /\ UNCHANGED <<world, stack, outcome>>
  /\ status' \in Statuses
  /\ status' = "staticViolation" => ~Top.perm

(* It changes the world, for which it needs permission.                    *)
Mutate ==
  /\ Running /\ Top.perm
  /\ world' \in Worlds
  /\ SpentBelow(world) => SpentBelow(world')
  /\ UNCHANGED <<stack, outcome>>
  /\ status' \in {"ok", "reverted"}

(* It opens a frame f.                                                     *)
Enter(f) ==
  /\ Running /\ Top.depth # MaxDepth
  /\ stack' = Append(stack, f)
  /\ world' \in Worlds
  /\ f.perm => Top.perm
  /\ ~Top.perm => f.before = world
  /\ ~f.perm /\ ViewsFree => world' = f.before
  /\ SpentBelow(world) => SpentBelow(f.before) /\ SpentBelow(world')
  /\ \/ /\ f.kind = "delegate" /\ f.self = Top.self
        /\ f.sender = Top.sender /\ f.value = Top.value
     \/ f.kind # "delegate" /\ f.sender = Top.self
  /\ UNCHANGED <<status, outcome>>

(* It returns to its caller.                                               *)
Leave ==
  /\ Running /\ Len(stack) > 1
  /\ stack' = Below
  /\ status' \in {"ok", "reverted"}
  /\ UNCHANGED <<world, outcome>>

LEMMA WriteStep ==
  ASSUME TypeOK, NEW location \in Location, NEW data \in Data,
         Write(location, data)
  PROVE  Mutate
<1>1. Top \in Frames /\ world \in Worlds
  BY StackFacts DEF TypeOK
<1>2. /\ Running /\ Top.perm /\ UNCHANGED <<stack, status, outcome>>
      /\ world' = [world EXCEPT !.store[Top.self][location] = data]
  BY DEF Write
<1>3. world' \in Worlds /\ world'.nonce = world.nonce /\ world'.spent = world.spent
  <2>1. Top.self \in Account
    BY <1>1 DEF Frames
  <2>2. [world.store EXCEPT ![Top.self][location] = data]
          \in [Account -> [Location -> Data]]
    <3>1. world.store[Top.self] \in [Location -> Data]
      BY <1>1, <2>1 DEF Worlds
    <3>2. [world.store[Top.self] EXCEPT ![location] = data] \in [Location -> Data]
      BY <3>1
    <3> QED BY <1>1, <2>1, <3>2 DEF Worlds
  <2>3. world' = [world EXCEPT !.store = [world.store EXCEPT ![Top.self][location] = data]]
    BY <1>2
  <2> QED BY <1>1, <2>2, <2>3 DEF Worlds
<1>4. status' \in {"ok", "reverted"}
  BY <1>2 DEF Running
<1> QED BY <1>2, <1>3, <1>4 DEF Mutate, SpentBelow

LEMMA CallStep ==
  ASSUME TypeOK, NEW kind \in CallKinds, NEW target \in Account,
         NEW value \in Int, NEW opPerm \in BOOLEAN,
         opPerm = FALSE => value \in ViewOffers,
         Call(kind, target, value, opPerm)
  PROVE  \E f \in Frames : Enter(f)
<1> DEFINE word == WordOfInt(value)
           f == CalleeFrame(kind, target, word, InheritedPerm(opPerm), world)
<1>1. Top \in Frames /\ world \in Worlds
  BY StackFacts DEF TypeOK
<1>2. /\ Running /\ (word = 0 \/ Top.perm) /\ Top.depth # MaxDepth
      /\ stack' = Append(stack, f)
      /\ world' = Transfer(world, Top.self, target, word)
      /\ UNCHANGED <<status, outcome>>
  BY DEF Call, MayOffer, CanPay, Push
<1>3. word \in Words
  BY WordsAreWords
<1>4. /\ Top.self \in Account /\ Top.depth \in Depths /\ Top.perm \in BOOLEAN
      /\ Top.depth + 1 \in Depths
  BY <1>1, <1>2, LimitsAssumption DEF Frames, Depths
<1>5. /\ world' \in Worlds /\ world'.nonce = world.nonce
      /\ world'.spent = world.spent /\ (word = 0 => world' = world)
  BY <1>1, <1>2, <1>3, <1>4, TransferFacts
<1>6. InheritedPerm(opPerm) = (opPerm /\ Top.perm) /\ InheritedPerm(opPerm) \in BOOLEAN
  BY <1>4 DEF InheritedPerm
<1>7. /\ f \in Frames /\ f.perm = InheritedPerm(opPerm) /\ f.before = world
      /\ f.kind # "delegate" /\ f.sender = Top.self
  BY <1>1, <1>3, <1>4, <1>6 DEF CalleeFrame, Frames, CallKinds
<1>8. ~f.perm /\ ViewsFree => word = 0
  BY <1>2, <1>6, <1>7 DEF ViewsFree
<1> HIDE DEF f, word
<1> QED BY <1>2, <1>5, <1>6, <1>7, <1>8 DEF Enter, SpentBelow

LEMMA CallCodelessStep ==
  ASSUME TypeOK, NEW kind \in CallKinds, NEW target \in Account,
         NEW value \in Int, CallCodeless(kind, target, value)
  PROVE  Stand \/ Mutate
<1> DEFINE word == WordOfInt(value)
<1>1. Top \in Frames /\ world \in Worlds /\ Top.self \in Account
  BY StackFacts DEF TypeOK, Frames
<1>2. /\ Running /\ (word = 0 \/ Top.perm)
      /\ world' = Transfer(world, Top.self, target, word)
      /\ status' \in {"ok", "reverted"}
      /\ UNCHANGED <<stack, outcome>>
  BY DEF CallCodeless, MayOffer
<1>3. word \in Words
  BY WordsAreWords
<1>4. /\ world' \in Worlds /\ world'.nonce = world.nonce
      /\ world'.spent = world.spent /\ (word = 0 => world' = world)
  BY <1>1, <1>2, <1>3, TransferFacts
<1> HIDE DEF word
<1> QED BY <1>2, <1>4 DEF Stand, Mutate, SpentBelow, Statuses

LEMMA DelegateStep ==
  ASSUME TypeOK, NEW target \in Account, DelegateCall(target)
  PROVE  \E f \in Frames : Enter(f)
<1>1. Top \in Frames /\ world \in Worlds
  BY StackFacts DEF TypeOK
<1>2. /\ Running /\ Top.depth # MaxDepth
      /\ stack' = Append(stack, DelegateFrame) /\ world' = world
      /\ UNCHANGED <<status, outcome>>
  BY DEF DelegateCall, Push
<1>3. Top.depth + 1 \in Depths
  BY <1>1, <1>2, LimitsAssumption DEF Frames, Depths
<1>4. /\ DelegateFrame \in Frames /\ DelegateFrame.perm = Top.perm
      /\ DelegateFrame.before = world
      /\ DelegateFrame.kind = "delegate" /\ DelegateFrame.self = Top.self
      /\ DelegateFrame.sender = Top.sender /\ DelegateFrame.value = Top.value
  BY <1>1, <1>3 DEF DelegateFrame, Frames
<1> QED BY <1>1, <1>2, <1>4 DEF Enter

LEMMA NewStep ==
  ASSUME TypeOK, NEW address \in Account, NEW value \in Int,
         NEW sizeOk \in BOOLEAN, New(address, value, sizeOk)
  PROVE  \E f \in Frames : Enter(f)
<1> DEFINE word     == WordOfInt(value)
           prepared == BumpedCreator(Top.self)
           endowed  == Transfer(prepared, Top.self, address, word)
           f        == CalleeFrame("new", address, word, Top.perm, prepared)
<1>1. Top \in Frames /\ world \in Worlds /\ Top.self \in Account
  BY StackFacts DEF TypeOK, Frames
<1>2. /\ Running /\ Top.perm /\ Top.depth # MaxDepth
      /\ world.nonce[Top.self] < MaxNonce /\ ~(world.nonce[address] > 0)
      /\ stack' = Append(stack, f)
      /\ world' = [endowed EXCEPT !.nonce[address] = 1]
      /\ UNCHANGED <<status, outcome>>
  BY DEF New, CanCreate, CanPay, Push, HasCode
<1>3. word \in Words
  BY WordsAreWords
<1>4. /\ world.nonce \in [Account -> Nonces] /\ Nonces \subseteq Nat
      /\ world.spent \subseteq Account \X Nonces
      /\ world.nonce[Top.self] + 1 \in Nonces /\ 1 \in Nonces
  BY <1>1, <1>2, LimitsAssumption DEF Worlds, Nonces
<1>5. /\ prepared \in Worlds
      /\ prepared.nonce = [world.nonce EXCEPT ![Top.self] = @ + 1]
      /\ prepared.spent = world.spent \cup {<<Top.self, world.nonce[Top.self]>>}
  <2> DEFINE n == [world.nonce EXCEPT ![Top.self] = @ + 1]
             s == world.spent \cup {<<Top.self, world.nonce[Top.self]>>}
  <2>1. n \in [Account -> Nonces] /\ s \in SUBSET (Account \X Nonces)
    BY <1>1, <1>4
  <2>2. prepared = [[world EXCEPT !.nonce = n] EXCEPT !.spent = s]
    BY DEF BumpedCreator
  <2> HIDE DEF n, s, prepared
  <2>3. prepared \in Worlds /\ prepared.nonce = n /\ prepared.spent = s
    BY <1>1, <2>1, <2>2 DEF Worlds
  <2> QED BY <2>3 DEF n, s
<1> HIDE DEF prepared, word
<1>6. /\ endowed \in Worlds /\ endowed.nonce = prepared.nonce
      /\ endowed.spent = prepared.spent
  BY <1>1, <1>3, <1>5, TransferFacts
<1> HIDE DEF endowed
<1>7. /\ world' \in Worlds
      /\ world'.nonce = [prepared.nonce EXCEPT ![address] = 1]
      /\ world'.spent = prepared.spent
  <2> DEFINE n == [endowed.nonce EXCEPT ![address] = 1]
  <2>1. n \in [Account -> Nonces]
    BY <1>4, <1>6 DEF Worlds
  <2>2. world' = [endowed EXCEPT !.nonce = n]
    BY <1>2
  <2> HIDE DEF n
  <2>3. world' \in Worlds /\ world'.nonce = n /\ world'.spent = endowed.spent
    BY <1>6, <2>1, <2>2 DEF Worlds
  <2> QED BY <1>6, <2>3 DEF n
<1>8. Top.depth + 1 \in Depths
  BY <1>1, <1>2, LimitsAssumption DEF Frames, Depths
<1>9. /\ f \in Frames /\ f.perm = Top.perm /\ f.before = prepared
      /\ f.kind = "new" /\ f.sender = Top.self
  BY <1>1, <1>3, <1>5, <1>8 DEF CalleeFrame, Frames
<1>10. SpentBelow(world) => SpentBelow(prepared)
  <2> SUFFICES ASSUME SpentBelow(world), NEW x \in Account, NEW n \in Nonces,
                      <<x, n>> \in prepared.spent
               PROVE  n < prepared.nonce[x]
    BY DEF SpentBelow
  <2>1. CASE <<x, n>> \in world.spent
    <3>1. n < world.nonce[x]
      BY <2>1 DEF SpentBelow
    <3>2. world.nonce[x] \in Nat /\ n \in Nat
      BY <1>4
    <3>3. prepared.nonce[x] = IF x = Top.self THEN world.nonce[x] + 1 ELSE world.nonce[x]
      BY <1>1, <1>4, <1>5
    <3> QED BY <3>1, <3>2, <3>3
  <2>2. CASE x = Top.self /\ n = world.nonce[Top.self]
    BY <1>1, <1>4, <1>5, <2>2
  <2> QED BY <1>5, <2>1, <2>2
<1>11. SpentBelow(world) => SpentBelow(world')
  <2> SUFFICES ASSUME SpentBelow(world), NEW x \in Account, NEW n \in Nonces,
                      <<x, n>> \in prepared.spent
               PROVE  n < world'.nonce[x]
    BY <1>7 DEF SpentBelow
  <2>1. n < prepared.nonce[x]
    BY <1>10 DEF SpentBelow
  <2>2. CASE x # address
    BY <1>4, <1>5, <1>7, <2>1, <2>2
  <2>3. CASE x = address
    <3>1. prepared.nonce[x] <= 1
      BY <1>1, <1>2, <1>4, <1>5, <2>3
    <3>2. world'.nonce[x] = 1
      BY <1>4, <1>5, <1>7, <2>3
    <3>3. prepared.nonce[x] \in Nat /\ n \in Nat
      BY <1>4, <1>5 DEF Worlds
    <3> QED BY <2>1, <3>1, <3>2, <3>3
  <2> QED BY <2>2, <2>3
<1> HIDE DEF f
<1> QED BY <1>2, <1>7, <1>9, <1>10, <1>11 DEF Enter

LEMMA StepCases ==
  ASSUME TypeOK, Next
  PROVE  Stand \/ Mutate \/ (\E f \in Frames : Enter(f)) \/ Leave
         \/ Unwind \/ Finish \/ Fail
<1>1. ASSUME NEW location \in Location, NEW data \in Data, Write(location, data)
      PROVE  Mutate
  BY <1>1, WriteStep
<1>2. StaticHalt \/ Revert => Stand
  BY DEF StaticHalt, Revert, Stand, Statuses
<1>3. ASSUME NEW kind \in CallKinds, NEW target \in Account,
             NEW value \in Offers, Call(kind, target, value, TRUE)
      PROVE  \E f \in Frames : Enter(f)
  BY <1>3, CallStep, OffersAssumption
<1>4. ASSUME NEW kind \in CallKinds, NEW target \in Account,
             NEW value \in ViewOffers, Call(kind, target, value, FALSE)
      PROVE  \E f \in Frames : Enter(f)
  BY <1>4, CallStep, OffersAssumption
<1>5. ASSUME NEW kind \in CallKinds, NEW target \in Account,
             NEW value \in Offers, CallCodeless(kind, target, value)
      PROVE  Stand \/ Mutate
  BY <1>5, CallCodelessStep, OffersAssumption
<1>6. ASSUME NEW kind \in CallKinds, NEW value \in Offers, CallNotMade(kind, value)
      PROVE  Stand
  BY <1>6 DEF CallNotMade, Stand, Statuses
<1>7. ASSUME NEW target \in Account, DelegateCall(target)
      PROVE  \E f \in Frames : Enter(f)
  BY <1>7, DelegateStep
<1>8. ASSUME NEW address \in Account, NEW value \in Offers, NEW sizeOk \in BOOLEAN,
             New(address, value, sizeOk)
      PROVE  \E f \in Frames : Enter(f)
  BY <1>8, NewStep, OffersAssumption
<1>9. ASSUME NEW value \in Offers, NEW sizeOk \in BOOLEAN, NewNotCreated(value, sizeOk)
      PROVE  Stand
  BY <1>9 DEF NewNotCreated, Stand, Statuses
<1>10. Return => Leave
  BY DEF Return, Leave, Statuses
<1> QED BY <1>1, <1>2, <1>3, <1>4, <1>5, <1>6, <1>7, <1>8, <1>9, <1>10
        DEF Next, Statement, EndOfFrame

-----------------------------------------------------------------------------

LEMMA PushFacts ==
  ASSUME TypeOK, NEW f \in Frames, stack' = Append(stack, f)
  PROVE  /\ stack' \in Seq(Frames) /\ stack' # <<>>
         /\ Len(stack') = Len(stack) + 1
         /\ \A i \in 1..Len(stack) : stack'[i] = stack[i]
         /\ stack'[Len(stack) + 1] = f
BY AppendProperties DEF TypeOK

LEMMA TypeInductive == TypeOK /\ [Next]_vars => TypeOK'
<1> SUFFICES ASSUME TypeOK, [Next]_vars PROVE TypeOK'
  OBVIOUS
<1>1. /\ Len(stack) \in Nat \ {0} /\ Top \in Frames /\ Top.before \in Worlds
      /\ Below \in Seq(Frames) /\ Len(Below) = Len(stack) - 1
  BY StackFacts DEF Frames
<1>2. Len(stack) > 1 => Below # <<>>
  BY <1>1
<1>3. CASE Stand
  BY <1>3 DEF TypeOK, Stand, Statuses
<1>4. CASE Mutate
  BY <1>4 DEF TypeOK, Mutate, Statuses
<1>5. ASSUME NEW f \in Frames, Enter(f) PROVE TypeOK'
  BY <1>5, PushFacts DEF TypeOK, Enter
<1>6. CASE Leave
  BY <1>1, <1>2, <1>6 DEF TypeOK, Leave, Statuses
<1>7. CASE Unwind
  BY <1>1, <1>2, <1>7 DEF TypeOK, Unwind, Undone, CallerStatus
<1>8. CASE Finish
  BY <1>8 DEF TypeOK, Finish
<1>9. CASE Fail
  BY <1>1, <1>9 DEF TypeOK, Fail, Undone
<1>10. CASE UNCHANGED vars
  BY <1>10 DEF TypeOK, vars
<1> QED BY <1>3, <1>4, <1>5, <1>6, <1>7, <1>8, <1>9, <1>10, StepCases

LEMMA InitFacts ==
  ASSUME Init
  PROVE  /\ TypeOK /\ Len(stack) = 1 /\ stack[1].before = world
         /\ world.spent = {} /\ status = "ok" /\ outcome = "pending"
<1>1. world \in Worlds /\ world.spent = {} /\ status = "ok" /\ outcome = "pending"
  BY GenesisAssumption DEF Init
<1>2. PICK m \in Messages :
        stack = <<[kind |-> "entry", self |-> m.self, sender |-> m.sender,
                   value |-> m.value, perm |-> m.perm, depth |-> m.depth,
                   before |-> world]>>
  BY DEF Init
<1> DEFINE f == [kind |-> "entry", self |-> m.self, sender |-> m.sender,
                 value |-> m.value, perm |-> m.perm, depth |-> m.depth,
                 before |-> world]
<1>3. f \in Frames /\ f.before = world
  BY <1>1, MessagesAssumption DEF Frames
<1> HIDE DEF f
<1>4. stack = <<f>>
  BY <1>2 DEF f
<1>5. stack \in Seq(Frames) /\ stack # <<>> /\ Len(stack) = 1 /\ stack[1] = f
  BY <1>3, <1>4
<1> QED BY <1>1, <1>3, <1>5 DEF TypeOK

(* Frames stay within the depth limit and words and nonces within their    *)
(* range: what a call at depth 1024 or a creation at the nonce cap would   *)
(* break.                                                                  *)
THEOREM TypeCorrect == Spec => []TypeOK
<1>1. Init => TypeOK
  BY InitFacts
<1> QED BY <1>1, TypeInductive, PTL DEF Spec

-----------------------------------------------------------------------------

LEMMA StaticInductive ==
  ASSUME ViewsFree
  PROVE  TypeOK /\ StaticInert /\ [Next]_vars => StaticInert'
<1> SUFFICES ASSUME TypeOK, StaticInert, [Next]_vars PROVE StaticInert'
  OBVIOUS
<1>1. /\ Len(stack) \in Nat \ {0}
      /\ Len(Below) = Len(stack) - 1
      /\ \A i \in 1..Len(stack) - 1 : Below[i] = stack[i]
      /\ Top = stack[Len(stack)]
  BY StackFacts DEF Top
<1>2. CASE UNCHANGED <<world, stack>>
  BY <1>2 DEF StaticInert
<1>3. CASE Mutate
  <2>1. \A i \in 1..Len(stack) : stack[i].perm
    BY <1>1, <1>3 DEF Mutate, StaticInert
  <2> QED BY <1>3, <2>1 DEF Mutate, StaticInert
<1>4. ASSUME NEW f \in Frames, Enter(f) PROVE StaticInert'
  <2>1. /\ Len(stack') = Len(stack) + 1 /\ stack'[Len(stack) + 1] = f
        /\ \A i \in 1..Len(stack) : stack'[i] = stack[i]
    BY <1>4, PushFacts DEF Enter
  <2>2. ~f.perm => world' = f.before
    BY <1>4 DEF Enter
  <2>3. ASSUME NEW i \in 1..Len(stack), ~stack[i].perm
        PROVE  /\ ~f.perm /\ f.before = world /\ world' = world
               /\ world = stack[i].before
               /\ \A j \in i..Len(stack) : ~stack[j].perm /\ stack[j].before = world
    <3>1. /\ world = stack[i].before
          /\ \A j \in i..Len(stack) : ~stack[j].perm /\ stack[j].before = world
      BY <2>3 DEF StaticInert
    <3>2. ~Top.perm
      BY <1>1, <3>1
    <3> QED BY <1>4, <2>2, <3>1, <3>2 DEF Enter
  <2> SUFFICES ASSUME NEW i \in 1..Len(stack) + 1, ~stack'[i].perm
               PROVE  /\ world' = stack'[i].before
                      /\ \A j \in i..Len(stack) + 1 :
                           ~stack'[j].perm /\ stack'[j].before = world'
    BY <2>1 DEF StaticInert
  <2>4. CASE i = Len(stack) + 1
    BY <1>1, <2>1, <2>2, <2>4
  <2>5. CASE i \in 1..Len(stack)
    <3>1. /\ ~f.perm /\ f.before = world /\ world' = world
          /\ world = stack[i].before
          /\ \A j \in i..Len(stack) : ~stack[j].perm /\ stack[j].before = world
      BY <2>1, <2>3, <2>5
    <3>2. ASSUME NEW j \in i..Len(stack) + 1
          PROVE  ~stack'[j].perm /\ stack'[j].before = world'
      <4>1. CASE j = Len(stack) + 1
        BY <2>1, <3>1, <4>1
      <4>2. CASE j \in i..Len(stack)
        BY <1>1, <2>1, <2>5, <3>1, <4>2
      <4> QED BY <1>1, <2>5, <4>1, <4>2
    <3> QED BY <2>1, <2>5, <3>1, <3>2
  <2> QED BY <1>1, <2>4, <2>5
<1>5. CASE stack' = Below /\ (world' = world \/ world' = Top.before)
  <2>1. ASSUME NEW i \in 1..Len(stack) - 1, ~Below[i].perm
        PROVE  /\ world' = Below[i].before
               /\ \A j \in i..Len(stack) - 1 : ~Below[j].perm /\ Below[j].before = world'
    <3>1. /\ world = stack[i].before
          /\ \A j \in i..Len(stack) : ~stack[j].perm /\ stack[j].before = world
      BY <1>1, <2>1 DEF StaticInert
    <3>2. world' = world
      BY <1>1, <1>5, <3>1
    <3>3. \A j \in i..Len(stack) - 1 : j \in i..Len(stack) /\ j \in 1..Len(stack) - 1
      BY <1>1
    <3> QED BY <1>1, <2>1, <3>1, <3>2, <3>3
  <2> QED BY <1>1, <1>5, <2>1 DEF StaticInert
<1>6. CASE Fail
  <2>1. stack' = stack /\ Len(stack) = 1 /\ world' = stack[1].before
    BY <1>1, <1>6 DEF Fail, Undone
  <2> QED BY <2>1 DEF StaticInert
<1> QED BY <1>2, <1>3, <1>4, <1>5, <1>6, StepCases
        DEF Stand, Leave, Unwind, Undone, Finish, vars

(* As long as STATICCALLs offer no value, a frame without permission, and  *)
(* everything it calls, changes nothing at all.                            *)
THEOREM StaticModeIsInert ==
  ASSUME ViewsFree
  PROVE  Spec => []StaticInert
<1>1. Init => TypeOK /\ StaticInert
  BY InitFacts DEF StaticInert
<1>2. TypeOK /\ StaticInert /\ [Next]_vars => StaticInert'
  BY StaticInductive
<1> QED BY <1>1, <1>2, TypeInductive, PTL DEF Spec

-----------------------------------------------------------------------------

(* Every world a frame can fall back to is as good as the current one.     *)
FreshInv ==
  /\ SpentBelow(world)
  /\ \A i \in 1..Len(stack) : SpentBelow(stack[i].before)

LEMMA FreshInductive == TypeOK /\ FreshInv /\ [Next]_vars => FreshInv'
<1> SUFFICES ASSUME TypeOK, FreshInv, [Next]_vars PROVE FreshInv'
  OBVIOUS
<1>1. /\ Len(stack) \in Nat \ {0}
      /\ Len(Below) = Len(stack) - 1
      /\ \A i \in 1..Len(stack) - 1 : Below[i] = stack[i]
      /\ Top = stack[Len(stack)]
  BY StackFacts DEF Top
<1>2. CASE UNCHANGED <<world, stack>>
  BY <1>2 DEF FreshInv, SpentBelow
<1>3. CASE Mutate
  BY <1>3 DEF Mutate, FreshInv, SpentBelow
<1>4. ASSUME NEW f \in Frames, Enter(f) PROVE FreshInv'
  <2>1. /\ Len(stack') = Len(stack) + 1 /\ stack'[Len(stack) + 1] = f
        /\ \A i \in 1..Len(stack) : stack'[i] = stack[i]
    BY <1>4, PushFacts DEF Enter
  <2>2. SpentBelow(f.before) /\ SpentBelow(world')
    BY <1>4 DEF Enter, FreshInv
  <2>3. ASSUME NEW i \in 1..Len(stack) + 1 PROVE SpentBelow(stack'[i].before)
    <3>1. CASE i = Len(stack) + 1
      BY <2>1, <2>2, <3>1
    <3>2. CASE i \in 1..Len(stack)
      BY <2>1, <3>2 DEF FreshInv
    <3> QED BY <1>1, <3>1, <3>2
  <2> QED BY <2>1, <2>2, <2>3 DEF FreshInv, SpentBelow
<1>5. CASE stack' = Below /\ (world' = world \/ world' = Top.before)
  <2>1. SpentBelow(world')
    BY <1>1, <1>5 DEF FreshInv
  <2>2. ASSUME NEW i \in 1..Len(stack) - 1 PROVE SpentBelow(Below[i].before)
    BY <1>1 DEF FreshInv
  <2> QED BY <1>1, <1>5, <2>1, <2>2 DEF FreshInv, SpentBelow
<1>6. CASE Fail
  <2>1. stack' = stack /\ Len(stack) = 1 /\ world' = stack[1].before
    BY <1>1, <1>6 DEF Fail, Undone
  <2> QED BY <2>1 DEF FreshInv, SpentBelow
<1> QED BY <1>2, <1>3, <1>4, <1>5, <1>6, StepCases
        DEF Stand, Leave, Unwind, Undone, Finish, vars

(* A creation never derives its address from a nonce that was used before, *)
(* whatever calls back into the creator while a constructor runs.          *)
THEOREM CreationsAreFresh == Spec => []NextCreationIsFresh
<1>1. Init => TypeOK /\ FreshInv
  BY InitFacts DEF FreshInv, SpentBelow
<1>2. TypeOK /\ FreshInv => NextCreationIsFresh
  <2> SUFFICES ASSUME TypeOK, FreshInv, NEW x \in Account
               PROVE  <<x, world.nonce[x]>> \notin world.spent
    BY DEF NextCreationIsFresh
  <2>1. world.nonce[x] \in Nonces /\ world.nonce[x] \in Nat
    BY LimitsAssumption DEF TypeOK, Worlds, Nonces
  <2>2. <<x, world.nonce[x]>> \in world.spent => world.nonce[x] < world.nonce[x]
    BY <2>1 DEF FreshInv, SpentBelow
  <2> QED BY <2>1, <2>2
<1> QED BY <1>1, <1>2, FreshInductive, TypeInductive, PTL DEF Spec

-----------------------------------------------------------------------------

StaticHaltInv ==
  /\ outcome = "pending" /\ status = "staticViolation" => ~Top.perm
  /\ StaticHaltOnlyIfEnteredStatic

LEMMA StaticHaltInductive ==
  TypeOK /\ StaticHaltInv /\ [Next]_vars => StaticHaltInv'
<1> SUFFICES ASSUME TypeOK, StaticHaltInv, [Next]_vars PROVE StaticHaltInv'
  OBVIOUS
<1>1. Stand => StaticHaltInv'
  BY DEF Stand, StaticHaltInv, StaticHaltOnlyIfEnteredStatic, Running, Top
<1>2. Mutate \/ Leave => StaticHaltInv'
  BY DEF Mutate, Leave, StaticHaltInv, StaticHaltOnlyIfEnteredStatic, Running
<1>3. (\E f \in Frames : Enter(f)) => StaticHaltInv'
  BY DEF Enter, StaticHaltInv, StaticHaltOnlyIfEnteredStatic, Running
<1>4. Unwind => StaticHaltInv'
  BY DEF Unwind, CallerStatus, StaticHaltInv, StaticHaltOnlyIfEnteredStatic
<1>5. Finish => StaticHaltInv'
  BY DEF Finish, StaticHaltInv, StaticHaltOnlyIfEnteredStatic
<1>6. Fail => StaticHaltInv'
  <2> SUFFICES ASSUME Fail PROVE StaticHaltInv'
    OBVIOUS
  <2>1. /\ stack' = stack /\ Top = stack[1] /\ outcome' = status
        /\ status # "pending" /\ outcome = "pending"
    BY DEF Fail, Top, TypeOK
  <2> QED BY <2>1 DEF StaticHaltInv, StaticHaltOnlyIfEnteredStatic
<1>7. UNCHANGED vars => StaticHaltInv'
  BY DEF vars, StaticHaltInv, StaticHaltOnlyIfEnteredStatic, Top
<1> QED BY <1>1, <1>2, <1>3, <1>4, <1>5, <1>6, <1>7, StepCases

(* The outcome staticViolation is for messages entered in static mode: a   *)
(* violation further in reaches its caller as a failed call.               *)
THEOREM StaticHaltNeedsStaticEntry == Spec => []StaticHaltOnlyIfEnteredStatic
<1>1. Init => TypeOK /\ StaticHaltInv
  BY InitFacts DEF StaticHaltInv, StaticHaltOnlyIfEnteredStatic
<1>2. StaticHaltInv => StaticHaltOnlyIfEnteredStatic
  BY DEF StaticHaltInv
<1> QED BY <1>1, <1>2, StaticHaltInductive, TypeInductive, PTL DEF Spec

-----------------------------------------------------------------------------

LEMMA ContextInductive == TypeOK /\ ContextKept /\ [Next]_vars => ContextKept'
<1> DEFINE Serves(s, i, j) ==
             /\ j \in 1..i
             /\ \A k \in j+1..i : s[k].kind = "delegate"
             /\ s[j].kind # "delegate"
             /\ s[i].self = s[j].self
             /\ s[i].sender = s[j].sender
             /\ s[i].value = s[j].value
             /\ j > 1 => s[j].sender = s[j-1].self
<1> SUFFICES ASSUME TypeOK, ContextKept, [Next]_vars PROVE ContextKept'
  OBVIOUS
<1>1. /\ Len(stack) \in Nat \ {0}
      /\ Len(Below) = Len(stack) - 1
      /\ \A i \in 1..Len(stack) - 1 : Below[i] = stack[i]
      /\ Top = stack[Len(stack)]
  BY StackFacts DEF Top
<1>2. \A i \in 1..Len(stack) : \E j \in Int : Serves(stack, i, j)
  <2>1. TAKE i \in 1..Len(stack)
  <2>2. PICK j \in 1..i :
          /\ \A k \in j+1..i : stack[k].kind = "delegate"
          /\ stack[j].kind # "delegate"
          /\ stack[i].self = stack[j].self
          /\ stack[i].sender = stack[j].sender
          /\ stack[i].value = stack[j].value
          /\ j > 1 => stack[j].sender = stack[j-1].self
    BY <2>1, Zenon DEF ContextKept
  <2>3. j \in Int
    OBVIOUS
  <2>4. Serves(stack, i, j)
    BY <2>2, Zenon
  <2> HIDE DEF Serves
  <2> QED BY <2>3, <2>4, Zenon
<1> HIDE DEF Serves
<1>3. CASE stack' = stack
  BY <1>3 DEF ContextKept
<1>4. ASSUME NEW f \in Frames, Enter(f) PROVE ContextKept'
  <2>1. /\ Len(stack') = Len(stack) + 1 /\ stack'[Len(stack) + 1] = f
        /\ \A i \in 1..Len(stack) : stack'[i] = stack[i]
    BY <1>4, PushFacts DEF Enter
  <2>2. ASSUME NEW i \in 1..Len(stack) PROVE \E j \in Int : Serves(stack', i, j)
    <3>1. PICK j \in Int : Serves(stack, i, j)
      BY <1>2
    <3>2. Serves(stack', i, j)
      BY <1>1, <2>1, <3>1 DEF Serves
    <3> QED BY <3>2
  <2>3. CASE f.kind # "delegate"
    <3>1. f.sender = stack[Len(stack)].self
      BY <1>1, <1>4, <2>3 DEF Enter
    <3>2. Serves(stack', Len(stack) + 1, Len(stack) + 1)
      BY <1>1, <2>1, <2>3, <3>1 DEF Serves
    <3>3. \A i \in 1..Len(stack) + 1 : \E j \in Int : Serves(stack', i, j)
      BY <1>1, <2>2, <3>2
    <3> QED BY <2>1, <3>3 DEF ContextKept, Serves
  <2>4. CASE f.kind = "delegate"
    <3>1. /\ f.self = stack[Len(stack)].self /\ f.sender = stack[Len(stack)].sender
          /\ f.value = stack[Len(stack)].value
      BY <1>1, <1>4, <2>4 DEF Enter
    <3> Len(stack) \in 1..Len(stack)
      BY <1>1
    <3>2. PICK m \in Int : Serves(stack, Len(stack), m)
      BY <1>2, Zenon
    <3>3. Serves(stack', Len(stack) + 1, m)
      BY <1>1, <2>1, <2>4, <3>1, <3>2 DEF Serves
    <3>4. \A i \in 1..Len(stack) + 1 : \E j \in Int : Serves(stack', i, j)
      BY <1>1, <2>2, <3>3
    <3> QED BY <2>1, <3>4 DEF ContextKept, Serves
  <2> QED BY <2>3, <2>4
<1>5. CASE stack' = Below
  <2>1. ASSUME NEW i \in 1..Len(stack) - 1 PROVE \E j \in Int : Serves(Below, i, j)
    <3> i \in 1..Len(stack)
      BY <1>1
    <3>1. PICK j \in Int : Serves(stack, i, j)
      BY <1>2, Zenon
    <3>2. Serves(Below, i, j)
      BY <1>1, <3>1 DEF Serves
    <3> QED BY <3>2
  <2> QED BY <1>1, <1>5, <2>1 DEF ContextKept, Serves
<1> QED BY <1>3, <1>4, <1>5, StepCases
        DEF Stand, Mutate, Leave, Unwind, Finish, Fail, vars

(* Delegate calls, nested at will, run with the address, sender and value  *)
(* of the frame that was really called.                                    *)
THEOREM DelegatesKeepContext == Spec => []ContextKept
<1>1. Init => TypeOK /\ ContextKept
  <2> SUFFICES ASSUME Init PROVE ContextKept
    BY InitFacts
  <2>1. Len(stack) = 1 /\ stack[1].kind = "entry"
    BY DEF Init
  <2> QED BY <2>1 DEF ContextKept
<1> QED BY <1>1, ContextInductive, TypeInductive, PTL DEF Spec

-----------------------------------------------------------------------------

Savepoints == [readOnly : BOOLEAN, before : Worlds]

LEMMA AsTransactionsFacts ==
  ASSUME NEW s \in Seq(Frames)
  PROVE  /\ AsTransactions(s) \in Seq(Savepoints)
         /\ Len(AsTransactions(s)) = Len(s)
         /\ \A i \in 1..Len(s) :
              /\ AsTransactions(s)[i].readOnly = ~s[i].perm
              /\ AsTransactions(s)[i].before = s[i].before
<1>1. Len(s) \in Nat /\ \A i \in 1..Len(s) : s[i] \in Frames
  BY LenProperties
<1> DEFINE e(i) == [readOnly |-> ~s[i].perm, before |-> s[i].before]
<1>2. \A i \in 1..Len(s) : e(i) \in Savepoints
  BY <1>1 DEF Savepoints, Frames
<1>3. AsTransactions(s) = [i \in 1..Len(s) |-> e(i)]
  BY DEF AsTransactions
<1>4. \A i \in 1..Len(s) : e(i).readOnly = ~s[i].perm /\ e(i).before = s[i].before
  BY <1>1 DEF Frames
<1> HIDE DEF e
<1>5. AsTransactions(s) \in [1..Len(s) -> Savepoints]
  BY <1>2, <1>3
<1>6. AsTransactions(s) \in Seq(Savepoints) /\ Len(AsTransactions(s)) = Len(s)
  BY <1>1, <1>5
<1> QED BY <1>3, <1>4, <1>6

(* Leaving a frame and ending its transaction are the same.                *)
LEMMA EnclosingFacts ==
  ASSUME TypeOK, outcome = "pending"
  PROVE  /\ Transactions!Enclosing = AsTransactions(Below)
         /\ Transactions!Innermost.before = Top.before
         /\ Open # <<>>
<1>1. /\ Len(stack) \in Nat \ {0} /\ Below \in Seq(Frames)
      /\ Len(Below) = Len(stack) - 1 /\ stack \in Seq(Frames)
      /\ \A i \in 1..Len(stack) - 1 : Below[i] = stack[i]
  BY StackFacts DEF TypeOK
<1>2. /\ Open = AsTransactions(stack) /\ Open \in Seq(Savepoints)
      /\ Len(Open) = Len(stack)
      /\ \A i \in 1..Len(stack) : /\ Open[i] = [readOnly |-> ~stack[i].perm,
                                                before |-> stack[i].before]
                                  /\ Open[i] \in Savepoints
  <2>1. Open = AsTransactions(stack)
    BY DEF Open
  <2>2. Open \in Seq(Savepoints) /\ Len(Open) = Len(stack)
    BY <1>1, <2>1, AsTransactionsFacts
  <2>3. \A i \in 1..Len(stack) : Open[i] \in Savepoints
    BY <2>2, LenProperties
  <2>4. \A i \in 1..Len(stack) : Open[i] = [readOnly |-> ~stack[i].perm,
                                            before |-> stack[i].before]
    BY <2>1 DEF AsTransactions
  <2> QED BY <2>1, <2>2, <2>3, <2>4
<1>3. /\ AsTransactions(Below) \in Seq(Savepoints)
      /\ Len(AsTransactions(Below)) = Len(stack) - 1
      /\ \A i \in 1..Len(stack) - 1 : AsTransactions(Below)[i] = Open[i]
  <2>1. /\ AsTransactions(Below) \in Seq(Savepoints)
        /\ Len(AsTransactions(Below)) = Len(stack) - 1
    BY <1>1, AsTransactionsFacts
  <2>2. \A i \in 1..Len(stack) - 1 : AsTransactions(Below)[i] = Open[i]
    BY <1>1, <1>2 DEF AsTransactions
  <2> QED BY <2>1, <2>2
<1>4. Transactions!Enclosing = SubSeq(Open, 1, Len(stack) - 1)
  BY <1>2 DEF Transactions!Enclosing
<1>5. \A i \in 1..Len(stack) - 1 : Open[i] \in Savepoints
  BY <1>1, <1>2
<1> DEFINE E == SubSeq(Open, 1, Len(stack) - 1)
<1>6. /\ E \in Seq(Savepoints)
      /\ Len(E) = (IF 1 <= Len(stack) - 1 THEN Len(stack) - 1 - 1 + 1 ELSE 0)
      /\ \A i \in 1..(Len(stack) - 1) - 1 + 1 : E[i] = Open[1 + i - 1]
  BY <1>1, <1>5, SubSeqProperties
<1>7. Len(E) = Len(stack) - 1
  <2>1. ASSUME NEW n \in Nat \ {0}
        PROVE  (IF 1 <= n - 1 THEN n - 1 - 1 + 1 ELSE 0) = n - 1
    OBVIOUS
  <2> QED BY <1>1, <1>6, <2>1, Zenon
<1>8. \A i \in 1..Len(stack) - 1 : E[i] = AsTransactions(Below)[i]
  <2>1. TAKE i \in 1..Len(stack) - 1
  <2>2. i \in 1..(Len(stack) - 1) - 1 + 1 /\ 1 + i - 1 = i
    BY <1>1
  <2>3. E[i] = Open[1 + i - 1]
    BY <1>6, <2>2, Zenon
  <2>4. E[i] = Open[i]
    BY <2>2, <2>3, Zenon
  <2> QED BY <1>3, <2>4, Zenon
<1> HIDE DEF E
<1>9. E = AsTransactions(Below)
  <2>1. \A i \in 1..Len(E) : E[i] = AsTransactions(Below)[i]
    BY <1>7, <1>8, Zenon
  <2> QED BY <1>3, <1>6, <1>7, <2>1, SeqEqual, Zenon
<1>10. Transactions!Innermost.before = Top.before
  <2>1. Len(stack) \in 1..Len(stack) /\ Len(Open) = Len(stack)
    BY <1>1, <1>2
  <2>2. Open[Len(stack)] = [readOnly |-> ~stack[Len(stack)].perm,
                            before |-> stack[Len(stack)].before]
    BY <1>2, <2>1, Zenon
  <2>3. Open[Len(stack)].before = stack[Len(stack)].before
    BY <2>2
  <2> QED BY <2>1, <2>3, Zenon DEF Transactions!Innermost, Top
<1>11. Open # <<>>
  BY <1>1, <1>2
<1> QED BY <1>4, <1>9, <1>10, <1>11, Zenon DEF E

LEMMA OpenFacts ==
  ASSUME TypeOK, outcome = "pending"
  PROVE  /\ Open = AsTransactions(stack) /\ Open \in Seq(Savepoints)
         /\ Len(Open) = Len(stack) /\ Open # <<>>
         /\ \A i \in 1..Len(stack) : Open[i].readOnly = ~stack[i].perm
<1>1. stack \in Seq(Frames) /\ Open = AsTransactions(stack)
  BY DEF Open, TypeOK
<1>2. Open # <<>>
  BY EnclosingFacts
<1> QED BY <1>1, <1>2, AsTransactionsFacts, Zenon

(* By StaticInert one permission bit speaks for all the frames below.      *)
LEMMA PermittedIsWritable ==
  ASSUME TypeOK, StaticInert, outcome = "pending"
  PROVE  Top.perm <=> ~Transactions!ReadOnly(Open)
<1>1. Len(stack) \in Nat \ {0} /\ Top = stack[Len(stack)]
  BY StackFacts DEF Top
<1>2. Top.perm => \A i \in 1..Len(stack) : stack[i].perm
  BY <1>1 DEF StaticInert
<1>3. /\ Len(Open) = Len(stack)
      /\ \A i \in 1..Len(stack) : Open[i].readOnly = ~stack[i].perm
  BY OpenFacts
<1>4. Len(stack) \in 1..Len(stack)
  BY <1>1
<1> QED BY <1>1, <1>2, <1>3, <1>4 DEF Transactions!ReadOnly

LEMMA EnterBegins ==
  ASSUME ViewsFree, TypeOK, StaticInert, NEW f \in Frames, Enter(f)
  PROVE  Transactions!Begin
<1>1. /\ Running /\ outcome = "pending" /\ status = "ok"
      /\ outcome' = "pending" /\ status' = "ok"
      /\ stack' = Append(stack, f)
      /\ ~Top.perm => f.before = world
      /\ ~f.perm => world' = f.before
      /\ f.perm => Top.perm
  BY DEF Enter, Running
<1>2. /\ stack' \in Seq(Frames) /\ Len(stack') = Len(stack) + 1
      /\ stack'[Len(stack) + 1] = f
      /\ \A i \in 1..Len(stack) : stack'[i] = stack[i]
  BY <1>1, PushFacts
<1>3. Len(stack) \in Nat \ {0}
  BY StackFacts
<1>4. /\ Open = AsTransactions(stack) /\ Open \in Seq(Savepoints)
      /\ Len(Open) = Len(stack) /\ Open # <<>>
  BY <1>1, OpenFacts
<1>5. /\ Open' = AsTransactions(stack') /\ Open' \in Seq(Savepoints)
      /\ Len(Open') = Len(stack) + 1
      /\ \A i \in 1..Len(stack) + 1 : /\ Open'[i].readOnly = ~stack'[i].perm
                                      /\ Open'[i].before = stack'[i].before
  <2>1. Open' = AsTransactions(stack')
    BY <1>1 DEF Open
  <2> QED BY <1>2, <2>1, AsTransactionsFacts, Zenon
<1>6. Open'[Len(stack) + 1].before = f.before
      /\ Open'[Len(stack) + 1].readOnly = ~f.perm
  BY <1>2, <1>3, <1>5
<1> DEFINE E == SubSeq(Open', 1, Len(stack))
<1>7. E = Open
  <2>1. \A i \in 1..Len(stack) : Open'[i] \in Savepoints
    BY <1>3, <1>5, ElementOfSeq
  <2>2. /\ E \in Seq(Savepoints)
        /\ Len(E) = IF 1 <= Len(stack) THEN Len(stack) - 1 + 1 ELSE 0
        /\ \A i \in 1..Len(stack) - 1 + 1 : E[i] = Open'[1 + i - 1]
    BY <1>3, <2>1, SubSeqProperties
  <2>3. ASSUME NEW n \in Nat \ {0}
        PROVE  (IF 1 <= n THEN n - 1 + 1 ELSE 0) = n
    OBVIOUS
  <2>4. Len(E) = Len(stack)
    BY <1>3, <2>2, <2>3, Zenon
  <2>5. ASSUME NEW i \in 1..Len(stack) PROVE E[i] = Open[i]
    <3>1. i \in 1..Len(stack) - 1 + 1 /\ 1 + i - 1 = i
      BY <1>3
    <3>2. E[i] = Open'[i]
      BY <2>2, <3>1, Zenon
    <3>3. i \in 1..Len(stack')
      BY <1>2, <1>3
    <3>4. Open'[i] = Open[i]
      BY <1>2, <1>4, <1>5, <3>3 DEF AsTransactions
    <3> QED BY <3>2, <3>4, Zenon
  <2> HIDE DEF E
  <2>6. \A i \in 1..Len(E) : E[i] = Open[i]
    BY <2>4, <2>5, Zenon
  <2> QED BY <1>4, <2>2, <2>4, <2>6, SeqEqual, Zenon
<1>8. Transactions!ReadOnly(Open) => f.before = world
  BY <1>1, PermittedIsWritable
<1>9. Transactions!ReadOnly(Open') => world' = f.before
  <2> SUFFICES ASSUME NEW i \in 1..Len(Open'), Open'[i].readOnly
               PROVE  world' = f.before
    BY DEF Transactions!ReadOnly
  <2>1. ~stack'[i].perm
    BY <1>5
  <2>2. CASE i = Len(stack) + 1
    BY <1>1, <1>2, <2>1, <2>2
  <2>3. CASE i \in 1..Len(stack)
    <3>1. ~Top.perm
      BY <1>2, <1>3, <2>1, <2>3 DEF StaticInert, Top
    <3> QED BY <1>1, <3>1
  <2> QED BY <1>3, <1>5, <2>2, <2>3
<1>10. Len(Open') = Len(Open) + 1
  BY <1>4, <1>5
<1> HIDE DEF E
<1> QED BY <1>1, <1>4, <1>6, <1>7, <1>8, <1>9, <1>10
        DEF Transactions!Begin, E

LEMMA StepRefines ==
  ASSUME ViewsFree
  PROVE  TypeOK /\ StaticInert /\ [Next]_vars => [Transactions!Next]_(Transactions!vars)
<1> SUFFICES ASSUME TypeOK, StaticInert, [Next]_vars
             PROVE  [Transactions!Next]_(Transactions!vars)
  OBVIOUS
<1>1. CASE Stand
  <2>1. /\ outcome = "pending" /\ outcome' = outcome /\ status = "ok"
        /\ UNCHANGED <<world, stack>>
    BY <1>1 DEF Stand, Running
  <2>2. Open' = Open /\ Open # <<>>
    BY <2>1, OpenFacts DEF Open
  <2>3. CASE status' = "ok"
    BY <2>1, <2>2, <2>3 DEF Transactions!vars
  <2>4. CASE status' # "ok"
    BY <2>1, <2>2, <2>4 DEF Transactions!Next, Transactions!Fail
  <2> QED BY <2>3, <2>4
<1>2. CASE Mutate
  <2>1. /\ outcome = "pending" /\ outcome' = outcome /\ status = "ok"
        /\ stack' = stack /\ Top.perm
    BY <1>2 DEF Mutate, Running
  <2>2. Open' = Open /\ Open # <<>> /\ ~Transactions!ReadOnly(Open)
    BY <2>1, OpenFacts, PermittedIsWritable DEF Open
  <2> QED BY <2>1, <2>2 DEF Transactions!Next, Transactions!Change
<1>3. ASSUME NEW f \in Frames, Enter(f) PROVE Transactions!Next
  BY <1>3, EnterBegins DEF Transactions!Next
<1>4. CASE Leave
  <2>1. /\ outcome = "pending" /\ outcome' = outcome /\ status = "ok"
        /\ stack' = Below /\ world' = world
    BY <1>4 DEF Leave, Running
  <2>2. Open' = Transactions!Enclosing /\ Open # <<>>
    BY <2>1, EnclosingFacts DEF Open
  <2> QED BY <2>1, <2>2 DEF Transactions!Next, Transactions!Commit
<1>5. CASE Unwind
  <2>1. /\ outcome = "pending" /\ outcome' = outcome /\ status # "ok"
        /\ stack' = Below /\ world' = Top.before
    BY <1>5 DEF Unwind, Undone
  <2>2. /\ Open' = Transactions!Enclosing /\ Open # <<>>
        /\ world' = Transactions!Innermost.before
    BY <2>1, EnclosingFacts DEF Open
  <2> QED BY <2>1, <2>2 DEF Transactions!Next, Transactions!Abort
<1>6. ASSUME Len(stack) = 1, outcome = "pending", outcome' # "pending"
      PROVE  Open' = Transactions!Enclosing /\ Open # <<>>
  <2>1. Below = <<>>
    BY <1>6, SubSeqEmpty DEF Below
  <2>2. AsTransactions(Below) = <<>>
    BY <2>1 DEF AsTransactions
  <2> QED BY <1>6, <2>2, EnclosingFacts DEF Open
<1>7. CASE Finish
  <2>1. /\ outcome = "pending" /\ outcome' # "pending" /\ status = "ok"
        /\ Len(stack) = 1 /\ world' = world /\ status' = status
    BY <1>7 DEF Finish, Running
  <2> QED BY <1>6, <2>1 DEF Transactions!Next, Transactions!Commit
<1>8. CASE Fail
  <2>1. /\ outcome = "pending" /\ outcome' # "pending" /\ status # "ok"
        /\ Len(stack) = 1 /\ world' = Top.before
    BY <1>8 DEF Fail, Undone, TypeOK
  <2>2. world' = Transactions!Innermost.before
    BY <2>1, EnclosingFacts
  <2> QED BY <1>6, <2>1, <2>2 DEF Transactions!Next, Transactions!Abort
<1>9. CASE UNCHANGED vars
  BY <1>9 DEF vars, Transactions!vars, Open
<1> QED BY <1>1, <1>2, <1>3, <1>4, <1>5, <1>7, <1>8, <1>9, StepCases

(* The calls of a message are nested transactions: a failed one leaves     *)
(* nothing behind, at any depth, and read-only is inherited.               *)
THEOREM CallsAreTransactions ==
  ASSUME ViewsFree
  PROVE  Spec => ImplementsNestedTransactions
<1>1. Init => TypeOK /\ StaticInert
  BY InitFacts DEF StaticInert
<1>2. Init => Transactions!Init
  <2> SUFFICES ASSUME Init PROVE Transactions!Init
    OBVIOUS
  <2>1. /\ stack \in Seq(Frames) /\ Len(stack) = 1 /\ stack[1].before = world
        /\ Open = AsTransactions(stack) /\ (status # "ok") = FALSE
    BY InitFacts DEF TypeOK, Open
  <2>2. Len(Open) = 1 /\ Open[1].before = world
    BY <2>1, AsTransactionsFacts
  <2> QED BY <2>1, <2>2 DEF Transactions!Init
<1>3. TypeOK /\ StaticInert /\ [Next]_vars => StaticInert'
  BY StaticInductive
<1>4. TypeOK /\ StaticInert /\ [Next]_vars => [Transactions!Next]_(Transactions!vars)
  BY StepRefines
<1> QED BY <1>1, <1>2, <1>3, <1>4, TypeInductive, PTL
        DEF Spec, ImplementsNestedTransactions, Transactions!Spec
==============================================================================
