------------------------------ MODULE MCVyperLock ------------------------------
(* Locked, unlocked and view functions, a locked fallback, and internal    *)
(* functions, one of them with a lock of its own, one a view.              *)
EXTENDS VyperLock

MCDecorators ==
  [deposit  |-> {"external"},
   total    |-> {"external", "view"},
   peek     |-> {"external", "view", "reentrant"},
   ping     |-> {"external", "reentrant"},
   default  |-> {"external", "nonreentrant"},
   settle   |-> {"nonreentrant"},
   helper   |-> {},
   sum      |-> {"view"}]

MCFunctions == DOMAIN MCDecorators
=============================================================================
