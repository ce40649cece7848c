--------------------------- MODULE MCDispatcherWalk ---------------------------
(***************************************************************************)
(* Dispatchers as solc lays them out, for four functions: with or without  *)
(* the guard against value, with each form of the check of the calldata's  *)
(* size, searching one selector after the other or by halves, and with     *)
(* what is run when nothing matches.                                       *)
(***************************************************************************)
EXTENDS DispatcherWalk

I(op, arg) == [op |-> op, arg |-> arg]
Push(n) == I("push", n)
Dup == I("dup", 1)
Op(op) == I(op, 0)
JumpI(to) == <<Push(to), Op("jumpi")>>

GuardPieces == <<
  <<Op("callvalue"), Dup, Op("iszero")>> \o JumpI(3),
  <<Push(0), Dup, Op("revert")>> >>

(* The forms of the check of the size.                                     *)
SizeCheck(size) ==
  CASE size = "below" -> <<Push(4), Op("calldatasize"), Op("lt")>>
    [] size = "above" -> <<Push(3), Op("calldatasize"), Op("gt"), Op("iszero")>>

LoadSelector == <<Push(0), Op("calldataload"), Push(224), Op("shr")>>
Matches(sel, to) == <<Dup, I("push4", sel), Op("eq")>> \o JumpI(to)
Halves(sel, to) == <<Dup, I("push4", sel), Op("gt")>> \o JumpI(to)

(* Function n of the four is entered at piece arm + n.                     *)
Linear(arm) == <<
  LoadSelector \o Matches(10, arm + 1), Matches(20, arm + 2),
  Matches(30, arm + 3), Matches(40, arm + 4) >>

Split(at, none, arm) == <<
  LoadSelector \o Halves(30, at + 6), Halves(40, at + 4),
  Matches(40, arm + 4), <<Push(none), Op("jump")>>,
  <<Op("jumpdest")>> \o Matches(30, arm + 3), <<Push(none), Op("jump")>>,
  <<Op("jumpdest")>> \o Matches(10, arm + 1), Matches(20, arm + 2) >>

(* What is run when nothing matches.                                       *)
Tail4(none, tail) ==
  CASE tail = "revert"     -> << <<Op("jumpdest"), Push(0), Dup, Op("revert")>> >>
    [] tail = "payable"    -> << <<Op("jumpdest"), Op("stop")>> >>
    [] tail = "nonpayable" -> << <<Op("jumpdest"), Op("callvalue"), Dup, Op("iszero")>> \o JumpI(none + 2),
                                 <<Push(0), Dup, Op("revert")>>, <<Op("jumpdest"), Op("stop")>> >>
    [] tail = "loop"       -> << <<Op("jumpdest"), Push(none), Op("jump")>> >>

TailSize(tail) == IF tail = "nonpayable" THEN 3 ELSE 1

Program(guarded, size, search, tail) ==
  LET g    == IF guarded THEN 2 ELSE 0
      at   == g + 2
      none == at + (IF search = "linear" THEN 4 ELSE 8)
      arm  == none + TailSize(tail) - 1
      check == <<Op("jumpdest")>> \o SizeCheck(size) \o JumpI(none)
      body == IF search = "linear" THEN Linear(arm) ELSE Split(at, none, arm)
  IN [pieces |-> (IF guarded THEN GuardPieces ELSE <<>>) \o <<check>> \o body
                 \o Tail4(none, tail)
                 \o [n \in 1..4 |-> <<Op("jumpdest"), Op("stop")>>],
      table |-> <<10, 20, 30, 40>>, simple |-> tail \in {"revert", "loop"}]

MCSelectors == {5, 10, 20, 25, 30, 40, 45}
Tails == {"revert", "payable", "nonpayable", "loop"}

(* A guard goes with functions none of which takes value, so the fallback  *)
(* has no guard of its own; without one a nonpayable fallback is met after *)
(* the comparisons, in a dispatcher that searches by halves.               *)
MCCodes ==
  {Program(g, z, s, t) :
     g \in BOOLEAN, z \in {"below", "above"}, s \in {"linear", "split"}, t \in Tails}
  \ {Program(g, z, "linear", "nonpayable") : g \in BOOLEAN, z \in {"below", "above"}}

=============================================================================
