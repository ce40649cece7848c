-------------------------- MODULE NestedTransactions -------------------------
(***************************************************************************)
(* What a chain of message calls promises: each call is a transaction      *)
(* nested in its caller's.  It keeps all of its effects or none, and while *)
(* one of the open transactions is read-only nothing changes.              *)
(*                                                                         *)
(* The read-only rule looks at every open transaction.  The program has no *)
(* such view: a frame sees one permission bit of its own, which has to     *)
(* have been handed down correctly (see MessageCalls).                     *)
(***************************************************************************)
EXTENDS Integers, Sequences

VARIABLES
  world,     \* the state the transactions read and write
  open,      \* the open transactions, outermost first: [readOnly, before]
  doomed     \* whether the innermost one has failed

vars == <<world, open, doomed>>

Innermost == open[Len(open)]
Enclosing == SubSeq(open, 1, Len(open) - 1)
ReadOnly(transactions) ==
  \E i \in 1..Len(transactions) : transactions[i].readOnly

Init == Len(open) = 1 /\ open[1].before = world /\ doomed = FALSE

(* The innermost transaction changes the world, or fails.                  *)
Change ==
  /\ open # <<>> /\ ~doomed /\ ~ReadOnly(open)
  /\ UNCHANGED open
  /\ doomed' \in BOOLEAN

Fail ==
  /\ open # <<>> /\ ~doomed /\ doomed' = TRUE
  /\ UNCHANGED <<world, open>>

(* It opens another one.  A transaction that may write can prepare the     *)
(* world first, and the new one begins with the effects of the call itself.*)
Begin ==
  /\ open # <<>> /\ ~doomed /\ Len(open') = Len(open) + 1
  /\ SubSeq(open', 1, Len(open)) = open
  /\ ReadOnly(open)  => open'[Len(open) + 1].before = world
  /\ ReadOnly(open') => world' = open'[Len(open) + 1].before
  /\ UNCHANGED doomed

(* It ends.  The enclosing transaction may fail on the result it gets.     *)
Commit ==
  /\ open # <<>> /\ ~doomed /\ open' = Enclosing
  /\ doomed' \in BOOLEAN
  /\ UNCHANGED world

Abort ==
  /\ open # <<>> /\ doomed /\ open' = Enclosing
  /\ world' = Innermost.before
  /\ doomed' \in BOOLEAN

Next == Change \/ Fail \/ Begin \/ Commit \/ Abort

Spec == Init /\ [][Next]_vars
==============================================================================
