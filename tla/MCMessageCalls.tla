---------------------------- MODULE MCMessageCalls ---------------------------
(***************************************************************************)
(* Model checking MessageCalls.  Two contracts and two vacant addresses,   *)
(* one wei, four-value words, at most three frames (the depth limit is 2), *)
(* and two creations per contract before its nonce is at the cap.          *)
(***************************************************************************)
EXTENDS MessageCalls

CONSTANTS a, b, c, d, MaxStatements

VARIABLE statements       \* statements executed so far; only bounds the run

MCOffers == {-1, 0, 1, WordMod}
MCGenesis ==
  {[balance |-> [x \in Account |-> IF x = a THEN 1 ELSE 0],
    nonce   |-> [x \in Account |-> IF x \in {c, d} THEN 0 ELSE 1],
    store   |-> [x \in Account |-> [l \in Location |-> 0]],
    spent   |-> {}]}
MCMessages == [self : {a}, sender : {b}, value : {1}, perm : BOOLEAN, depth : {0}]

MCInit == Init /\ statements = 0
MCNext ==
  \/ Statement /\ statements < MaxStatements /\ statements' = statements + 1
  \/ EndOfFrame /\ UNCHANGED statements
MCSpec == MCInit /\ [][MCNext]_<<vars, statements>>
==============================================================================
