------------------------------- MODULE VyperLock -------------------------------
(***************************************************************************)
(* src/scripts/vy2stele.py: what becomes of @nonreentrant.  An external    *)
(* function with a lock is drafted as a wrapper that takes the lock, calls *)
(* <f>_body and releases the lock again; everything that can happen in     *)
(* between happens here: internal calls, messages that come back to the    *)
(* contract, static messages, and reverts, which undo a message's effects. *)
(***************************************************************************)
EXTENDS Naturals, Sequences, FiniteSets

CONSTANTS
  Functions,     \* the functions of the contract and its modules
  Decorators,    \* [Functions -> SUBSET {"external", "nonreentrant",
                 \*               "reentrant", "view"}]
  Fallback,      \* the functions that are __default__
  Pragma,        \* whether the module says "# pragma nonreentrancy on"
  Cancun,        \* whether the EVM has transient storage
  MaxDepth       \* the number of frames

ASSUME DecoratorsAssumption ==
  /\ Decorators \in [Functions -> SUBSET {"external", "nonreentrant", "reentrant", "view"}]
  /\ Fallback \subseteq {f \in Functions : "external" \in Decorators[f]}
ASSUME FlagsAssumption == Pragma \in BOOLEAN /\ Cancun \in BOOLEAN

VARIABLES
  lock,          \* nonreentrant_lock, transient or in storage
  stack          \* frames: [fn, sets (whether it has taken the lock),
                 \*  message (whether a revert stops here), static,
                 \*  before (the lock when it was entered)]

vars == <<lock, stack>>

External(f) == "external" \in Decorators[f]
View(f)     == "view" \in Decorators[f]

IsNonreentrant(f) ==
  \/ "nonreentrant" \in Decorators[f]
  \/ Pragma /\ "reentrant" \notin Decorators[f] /\ External(f)

(* The value of the lock while a function runs, and after it.              *)
Temporary == IF Cancun THEN 1 ELSE 2
(* Fault: it is counted down.                                              *)
Lowered   == Temporary - 1
Final     == IF Cancun THEN 0 ELSE 3

(* A view function checks the lock only.                                   *)
SetsLock(f) == IsNonreentrant(f) /\ (~View(f) \/ f \in Fallback)

Init == lock = 0 /\ stack = <<>>

Top == stack[Len(stack)]
Static == stack # <<>> /\ Top.static

Push(f, message, static, sets) ==
  /\ Len(stack) < MaxDepth
  /\ stack' = Append(stack, [fn |-> f, sets |-> sets, message |-> message,
                             static |-> static, before |-> lock])

(* Fault: the lock is checked by the functions that set it only.           *)
CheckedBySetters(f) == SetsLock(f) => lock # Temporary
(* Fault: the fallback takes the lock without looking.                     *)
NotByFallback(f) == f \notin Fallback /\ IsNonreentrant(f) => lock # Temporary
Admitted(f) == IsNonreentrant(f) => lock # Temporary

(* A message to the contract, of a transaction or of code that one of its  *)
(* frames has called: the wrapper takes the lock.  In a static message it  *)
(* cannot be taken, and messages of view functions are static.             *)
Enter(f) ==
  /\ External(f) /\ Admitted(f)
  /\ LET static == Static \/ (stack # <<>> /\ View(Top.fn)) IN
     /\ SetsLock(f) => ~static
     /\ Push(f, TRUE, static, SetsLock(f))
  /\ lock' = IF SetsLock(f) THEN Temporary ELSE lock

(* Another call to it fails and leaves no trace; the caller goes on.       *)

(* The first frame of the message that is running.                         *)
Message(n) == stack[n].message /\ \A m \in n + 1..Len(stack) : ~stack[m].message

(* hoist_internal_call: a function with a lock is called by the name of    *)
(* its body, which neither looks at the lock nor takes it.  The compiler   *)
(* accepts no call of a function with a lock from another one, and from a  *)
(* view function only calls of view functions.                             *)
CallInternal(f) ==
  /\ stack # <<>> /\ ~External(f)
  /\ View(Top.fn) => View(f)
  /\ \A n \in 1..Len(stack) :
       Message(n) => \A m \in n..Len(stack) : ~(IsNonreentrant(f) /\ IsNonreentrant(stack[m].fn))
  /\ Push(f, FALSE, Top.static, FALSE)
  /\ UNCHANGED lock

(* The last statements of a wrapper.                                       *)
Return ==
  /\ stack # <<>>
  /\ lock' = IF Top.sets THEN Final ELSE lock
  /\ stack' = SubSeq(stack, 1, Len(stack) - 1)

(* A revert ends the innermost message and undoes what happened in it.     *)
(* Fault: a revert leaves the lock as it is.                               *)
RevertKeepsLock ==
  \E n \in 1..Len(stack) :
    /\ Message(n)
    /\ lock' = lock
    /\ stack' = SubSeq(stack, 1, n - 1)

Revert ==
  \E n \in 1..Len(stack) :
    /\ Message(n)
    /\ lock' = stack[n].before
    /\ stack' = SubSeq(stack, 1, n - 1)

Next == \/ \E f \in Functions : Enter(f) \/ CallInternal(f)
        \/ Return \/ Revert

Spec == Init /\ [][Next]_vars

-----------------------------------------------------------------------------
(* Properties.                                                             *)

Locks == IF Cancun THEN {0, 1} ELSE {0, 2, 3}

Frame == [fn : Functions, sets : BOOLEAN, message : BOOLEAN, static : BOOLEAN,
          before : Locks]

TypeOK == lock \in Locks /\ stack \in Seq(Frame)

(* The frames whose wrapper has taken the lock.                            *)
Holders == {n \in 1..Len(stack) : stack[n].sets}

(* The calls of locked functions that messages have made, and that are     *)
(* running.  An internal call of a locked function is none of them: it     *)
(* runs the body without the protocol that the translator's head comment   *)
(* promises around it, and a message may enter a locked function above it. *)
LockedCalls ==
  {n \in 1..Len(stack) : stack[n].message /\ IsNonreentrant(stack[n].fn)}

(* Of the locked functions that messages have called, one that changes     *)
(* state runs alone; several run at once only if they are all views, which *)
(* look at the lock and leave it.  The writer may be the later one: what   *)
(* a view calls must be kept from it through every frame between.          *)
WritersRunAlone ==
  \A m, n \in LockedCalls : SetsLock(stack[m].fn) => m = n

(* Not even one that only looks: whatever is entered above the holder      *)
(* carries no lock of its own.                                             *)
NoneAbove ==
  \A m \in Holders : \A n \in m + 1..Len(stack) :
    stack[n].message => ~IsNonreentrant(stack[n].fn)

(* The lock is held exactly when one of them runs, after all the returns   *)
(* and reverts between: it never stays behind and is never dropped early.  *)
LockMeansHeld == (lock = Temporary) <=> (Holders # {})

(* ... so that between transactions every function can be called.          *)
FreeOutside == stack = <<>> => \A f \in Functions : Admitted(f)

-----------------------------------------------------------------------------
(* What a frame would restore when it reverts fits the frames below it;    *)
(* with it the invariants above are inductive.                             *)
BeforeSound ==
  \A n \in 1..Len(stack) :
    (stack[n].before = Temporary) <=> \E m \in 1..n - 1 : stack[m].sets

(* Holders are the messages of functions that set the lock, and may write. *)
SettersHold ==
  \A n \in 1..Len(stack) :
    /\ stack[n].sets <=> stack[n].message /\ SetsLock(stack[n].fn)
    /\ stack[n].sets => ~stack[n].static

(* Above a frame that must not write nothing may, in messages least of all. *)
Quiet(n) == stack[n].static \/ View(stack[n].fn)
QuietAbove ==
  \A m \in 1..Len(stack) : \A n \in m + 1..Len(stack) :
    Quiet(m) => Quiet(n) /\ (stack[n].message => stack[n].static)

LockInv ==
  TypeOK /\ NoneAbove /\ LockMeansHeld /\ BeforeSound /\ SettersHold /\ QuietAbove
=============================================================================
