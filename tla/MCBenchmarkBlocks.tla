--------------------------- MODULE MCBenchmarkBlocks ---------------------------
(* Three codes that share their first block.  The second block of "middle" *)
(* compiles with the second library only, that of "rejected" with none.    *)
EXTENDS BenchmarkBlocks, TLC

CONSTANTS short, middle, rejected, l1, l2

MCShardCount == (short :> 1) @@ (middle :> 2) @@ (rejected :> 2)
MCText(c, i) == IF i = 1 THEN <<1>> ELSE <<c, i>>
MCRejected   == {<<l1, <<middle, 2>>>>} \cup ({l1, l2} \X {<<rejected, 2>>})
=============================================================================
