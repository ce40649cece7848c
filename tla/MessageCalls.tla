----------------------------- MODULE MessageCalls ----------------------------
(***************************************************************************)
(* One message execution of Stele (src/Stele/Semantics/Exec.lean, with the *)
(* bridges to the EVM in Calls.lean) and all the calls and creations it    *)
(* makes.  Every frame runs an arbitrary body: the innermost one executes  *)
(* any statement its rules allow, so calls may re-enter any account.       *)
(*                                                                         *)
(* Kept: permission bit, depth limit, value guard, nonce, what a failed    *)
(* call does to its caller, and what is undone.  Left out: locals and      *)
(* returned data (a statement that only touches those is a stutter), gas,  *)
(* and logs, which the code does not model either.                         *)
(*                                                                         *)
(* Transferring the value, running a callee and restoring the accounts     *)
(* when it fails are the EVM's (Theta and Lambda, an external package);    *)
(* here they are what the rules rely on.                                   *)
(***************************************************************************)
EXTENDS Integers, Sequences, Functions

CONSTANTS
  Account,     \* addresses
  Location,    \* what an account stores: persistent and transient storage
  Data,        \* the contents of one location
  WordMod,     \* 2^256 in the code
  MaxDepth,    \* 1024 in the code
  MaxNonce,    \* 2^64 - 1 in the code
  Offers,      \* integers offered as the value of a CALL or CREATE
  ViewOffers,  \* and of a call compiled to STATICCALL
  Genesis,     \* the worlds a message may find
  Messages     \* and the messages: [self, sender, value, perm, depth]

VARIABLES
  world,       \* [balance, nonce, store, spent]
  stack,       \* the open frames, outermost first
  status,      \* of the innermost frame: how its body is doing
  outcome      \* of the whole message

vars == <<world, stack, status, outcome>>

Words  == 0..WordMod - 1
Depths == 0..MaxDepth
Nonces == 0..MaxNonce

(* spent holds the <<creator, nonce>> pairs addresses were derived from.   *)
Worlds == [balance : [Account -> Words], nonce : [Account -> Nonces],
           store : [Account -> [Location -> Data]],
           spent : SUBSET (Account \X Nonces)]

ASSUME WordModAssumption  == WordMod \in Nat \ {0}
ASSUME LimitsAssumption   == MaxDepth \in Nat /\ MaxNonce \in Nat \ {0}
ASSUME OffersAssumption   == Offers \subseteq Int /\ ViewOffers \subseteq Int
ASSUME GenesisAssumption  == \A w \in Genesis : w \in Worlds /\ w.spent = {}
ASSUME MessagesAssumption ==
  Messages \subseteq [self : Account, sender : Account, value : Words,
                      perm : BOOLEAN, depth : Depths]

CallKinds == {"typed", "lowLevel", "checked"}
Frames ==
  [kind : CallKinds \cup {"entry", "delegate", "new"}, self : Account,
   sender : Account, value : Words, perm : BOOLEAN, depth : Depths,
   before : Worlds]

Top    == stack[Len(stack)]
Below  == SubSeq(stack, 1, Len(stack) - 1)
Running == outcome = "pending" /\ status = "ok"

(* EVM.wordOfInt, which wraps negative and large integers into a word.     *)
WordOfInt(i) == i % WordMod

(* A contract has a nonce of at least one.                                 *)
HasCode(a) == world.nonce[a] > 0

(* Ether moves as Theta and Lambda move it: credit, then debit.            *)
Transfer(w, from, to, word) ==
  LET credited == [w.balance EXCEPT ![to] = (@ + word) % WordMod]
  IN  [w EXCEPT !.balance = [credited EXCEPT ![from] = (@ - word) % WordMod]]

(***************************************************************************)
(* The guards.                                                             *)
(***************************************************************************)
(* Fault: a value is compared before it is wrapped into a word.            *)
UnwrappedCanPay(value) ==
  /\ value <= world.balance[Top.self]
  /\ Top.depth # MaxDepth

(* Fault: a call at the limit still goes one frame deeper.                 *)
LateCanPay(value) ==
  /\ WordOfInt(value) <= world.balance[Top.self]
  /\ Top.depth <= MaxDepth

(* callMade and newCanCreate: the value is affordable, the stack not full. *)
CanPay(value) ==
  /\ WordOfInt(value) <= world.balance[Top.self]
  /\ Top.depth # MaxDepth

(* hperm of the call rules: only a transfer of ether needs permission.     *)
MayOffer(value) == WordOfInt(value) = 0 \/ Top.perm

CanCreate(value, sizeOk) ==
  CanPay(value) /\ world.nonce[Top.self] < MaxNonce /\ sizeOk

(***************************************************************************)
(* Starting and leaving frames.                                            *)
(***************************************************************************)
Push(frame, entered) ==
  /\ stack' = Append(stack, frame)
  /\ world' = entered
  /\ UNCHANGED <<status, outcome>>

(* The frame a call opens in the callee's own context.                     *)
CalleeFrame(kind, target, word, perm, before) ==
  [kind |-> kind, self |-> target, sender |-> Top.self, value |-> word,
   perm |-> perm, depth |-> Top.depth + 1, before |-> before]

(* Fault: STATICCALL clears the bit, CALL sets it again.                   *)
ForgetfulInheritedPerm(opPerm) == opPerm

(* The callee's permission: inherited by CALL, cleared by STATICCALL.      *)
InheritedPerm(opPerm) == opPerm /\ Top.perm

(* Fault: a delegate call that forgets the message it serves.              *)
PlainDelegateFrame ==
  [kind |-> "delegate", self |-> Top.self, sender |-> Top.self, value |-> 0,
   perm |-> Top.perm, depth |-> Top.depth + 1, before |-> world]

(* DELEGATECALL runs the target's code in the caller's own context.        *)
DelegateFrame ==
  [kind |-> "delegate", self |-> Top.self, sender |-> Top.sender,
   value |-> Top.value, perm |-> Top.perm, depth |-> Top.depth + 1,
   before |-> world]

Init ==
  /\ world \in Genesis
  /\ \E m \in Messages :
       stack = <<[kind |-> "entry", self |-> m.self, sender |-> m.sender,
                  value |-> m.value, perm |-> m.perm, depth |-> m.depth,
                  before |-> world]>>
  /\ status = "ok" /\ outcome = "pending"

(***************************************************************************)
(* Statements of the innermost frame.                                      *)
(***************************************************************************)
(* Assignment to storage or transient storage, push, pop and delete.       *)
Write(location, data) ==
  /\ Running /\ Top.perm
  /\ world' = [world EXCEPT !.store[Top.self][location] = data]
  /\ UNCHANGED <<stack, status, outcome>>

(* Any of those, emit, new, or a call with value, without permission.      *)
StaticHalt ==
  /\ Running /\ ~Top.perm
  /\ status' = "staticViolation"
  /\ UNCHANGED <<world, stack, outcome>>

(* require(false), or an expression that reverts.                          *)
Revert ==
  /\ Running
  /\ status' = "reverted"
  /\ UNCHANGED <<world, stack, outcome>>

(* externalCall, lowLevelCall and checkedCall of a contract.               *)
Call(kind, target, value, opPerm) ==
  LET word == WordOfInt(value)
  IN  /\ Running /\ MayOffer(value) /\ CanPay(value) /\ HasCode(target)
      /\ Push(CalleeFrame(kind, target, word, InheritedPerm(opPerm), world),
              Transfer(world, Top.self, target, word))

(* The same of an account without code: it succeeds and returns no bytes,  *)
(* which do not decode if the typed call expects any.                      *)
CallCodeless(kind, target, value) ==
  /\ Running /\ MayOffer(value) /\ CanPay(value) /\ ~HasCode(target)
  /\ world' = Transfer(world, Top.self, target, WordOfInt(value))
  /\ status' \in {"ok"} \cup (IF kind = "lowLevel" THEN {} ELSE {"reverted"})
  /\ UNCHANGED <<stack, outcome>>

(* A call that is not made has failed: only a typed call reverts.          *)
CallNotMade(kind, value) ==
  /\ Running /\ MayOffer(value) /\ ~CanPay(value)
  /\ status' = IF kind = "typed" THEN "reverted" ELSE "ok"
  /\ UNCHANGED <<world, stack, outcome>>

(* Without code to run, or at the depth limit, a delegate call does nothing.*)
DelegateCall(target) ==
  /\ Running /\ Top.depth # MaxDepth /\ HasCode(target)
  /\ Push(DelegateFrame, world)

(* Fault: Lambda is entered with the creator's nonce as it was.            *)
UnbumpedCreator(creator) ==
  [world EXCEPT !.spent = @ \cup {<<creator, world.nonce[creator]>>}]

(* The state Lambda gets: the nonce the address derives from is used up.   *)
BumpedCreator(creator) ==
  [world EXCEPT !.nonce[creator] = @ + 1,
                !.spent = @ \cup {<<creator, world.nonce[creator]>>}]

(* new: Lambda derives some vacant address, sets its nonce to one, moves   *)
(* the endowment and runs the constructor.                                 *)
New(address, value, sizeOk) ==
  LET word     == WordOfInt(value)
      prepared == BumpedCreator(Top.self)
      endowed  == Transfer(prepared, Top.self, address, word)
  IN  /\ Running /\ Top.perm /\ CanCreate(value, sizeOk) /\ ~HasCode(address)
      /\ Push(CalleeFrame("new", address, word, Top.perm, prepared),
              [endowed EXCEPT !.nonce[address] = 1])

(* A creation that cannot run, or whose address is taken, reverts.         *)
NewNotCreated(value, sizeOk) ==
  /\ Running /\ Top.perm
  /\ ~CanCreate(value, sizeOk) \/ \A a \in Account : HasCode(a)
  /\ status' = "reverted"
  /\ UNCHANGED <<world, stack, outcome>>

(***************************************************************************)
(* What the end of a frame does to its caller.                             *)
(***************************************************************************)
(* Return, or the end of the body.  A typed caller decodes the returned    *)
(* bytes, and reverts if they do not decode, even in checkedCall.          *)
Return ==
  /\ Running /\ Len(stack) > 1
  /\ stack' = Below
  /\ status' \in {"ok"} \cup
       (IF Top.kind \in {"typed", "checked"} THEN {"reverted"} ELSE {})
  /\ UNCHANGED <<world, outcome>>

(* Fault: what a failed delegate call wrote stays written.                 *)
UndoneUnlessDelegate == IF Top.kind = "delegate" THEN world ELSE Top.before

(* The accounts after a failed call are those before it.                   *)
Undone == Top.before

(* Fault: a caller that reverts for its callee takes over the callee's     *)
(* reason.                                                                 *)
PropagatedFailure(kind) == IF kind \in {"typed", "new"} THEN status ELSE "ok"

(* A failed typed call or creation reverts the caller; the other calls     *)
(* bind the failure and go on.                                             *)
CallerStatus(kind) == IF kind \in {"typed", "new"} THEN "reverted" ELSE "ok"

Unwind ==
  /\ outcome = "pending" /\ status # "ok" /\ Len(stack) > 1
  /\ world' = Undone
  /\ stack' = Below
  /\ status' = CallerStatus(Top.kind)
  /\ UNCHANGED outcome

(* The message itself ends.                                                *)
Finish ==
  /\ Running /\ Len(stack) = 1
  /\ outcome' = "returned"
  /\ UNCHANGED <<world, stack, status>>

Fail ==
  /\ outcome = "pending" /\ status # "ok" /\ Len(stack) = 1
  /\ outcome' = status
  /\ world' = Undone
  /\ UNCHANGED <<stack, status>>

Statement ==
  \/ \E location \in Location, data \in Data : Write(location, data)
  \/ StaticHalt
  \/ Revert
  \/ \E kind \in CallKinds, target \in Account :
       \/ \E value \in Offers : Call(kind, target, value, TRUE)
       \/ \E value \in ViewOffers : Call(kind, target, value, FALSE)
       \/ \E value \in Offers : CallCodeless(kind, target, value)
  \/ \E kind \in CallKinds, value \in Offers : CallNotMade(kind, value)
  \/ \E target \in Account : DelegateCall(target)
  \/ \E address \in Account, value \in Offers, sizeOk \in BOOLEAN :
       New(address, value, sizeOk)
  \/ \E value \in Offers, sizeOk \in BOOLEAN : NewNotCreated(value, sizeOk)

EndOfFrame == Return \/ Unwind \/ Finish \/ Fail

Next == Statement \/ EndOfFrame

Spec == Init /\ [][Next]_vars

(***************************************************************************)
(* Properties.                                                             *)
(***************************************************************************)
(* The frames stay within the depth limit, nonces and balances within      *)
(* their words, whatever is called.                                        *)
TypeOK ==
  /\ world \in Worlds
  /\ stack \in Seq(Frames) /\ stack # <<>>
  /\ status \in {"ok", "reverted", "staticViolation"}
  /\ outcome \in {"pending", "returned", "reverted", "staticViolation"}

(* Once a frame runs without permission, every frame above it does, and    *)
(* nothing has changed since it was entered: not through a further call, a *)
(* delegate call, a creation, a transfer, or a frame that failed.          *)
StaticInert ==
  \A i \in 1..Len(stack) : ~stack[i].perm =>
    /\ world = stack[i].before
    /\ \A j \in i..Len(stack) : ~stack[j].perm /\ stack[j].before = world

(* No creation derives its address from a nonce that an earlier creation   *)
(* of the same account used, constructors that call back included.         *)
NextCreationIsFresh ==
  \A a \in Account : <<a, world.nonce[a]>> \notin world.spent

(* Calls move ether between accounts and never make or destroy any, with   *)
(* every integer the contract may offer as a value.                        *)
EtherConserved ==
  SumFunction(world.balance) = SumFunction(stack[1].before.balance)

(* A frame acts as the frame that really called the account: delegate      *)
(* calls, however many in a row, keep the address, the sender and the      *)
(* value of the message they serve.                                        *)
ContextKept ==
  \A i \in 1..Len(stack) : \E j \in 1..i :
    /\ \A k \in j+1..i : stack[k].kind = "delegate"
    /\ stack[j].kind # "delegate"
    /\ stack[i].self = stack[j].self
    /\ stack[i].sender = stack[j].sender
    /\ stack[i].value = stack[j].value
    /\ j > 1 => stack[j].sender = stack[j-1].self

(* Only a message that was entered in static mode can end with a static    *)
(* violation; one inside a static call is that call's failure.             *)
StaticHaltOnlyIfEnteredStatic ==
  outcome = "staticViolation" => ~stack[1].perm

(* A call that runs its callee in static mode is a STATICCALL, or a CALL   *)
(* made in static mode: neither moves ether (Syntax/Basic.lean:283).       *)
StaticCallMovesNoEther ==
  \A i \in 2..Len(stack) :
    stack[i].kind \in CallKinds /\ ~stack[i].perm => stack[i].value = 0

(* The calls behave as nested transactions.                                *)
AsTransactions(frames) ==
  [i \in 1..Len(frames) |->
     [readOnly |-> ~frames[i].perm, before |-> frames[i].before]]
Open == IF outcome = "pending" THEN AsTransactions(stack) ELSE <<>>
Transactions ==
  INSTANCE NestedTransactions WITH open <- Open, doomed <- (status # "ok")
ImplementsNestedTransactions == Transactions!Spec
==============================================================================
