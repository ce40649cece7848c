-------------------------- MODULE MCScaffoldPipeline --------------------------
(* Versions of the sources: a contract, one with another selector table,   *)
(* an immutable and fewer summaries, one that solc rejects and that as     *)
(* Vyper has an unsupported immutable, and a Vyper contract with ten       *)
(* immutables, the size of which begins like that of one.                  *)
EXTENDS ScaffoldPipeline

Code(id, sites, shards) == [id |-> id, sites |-> sites, shards |-> shards]
Slots(n) == {[name |-> k, at |-> 32 * k] : k \in 0..n - 1}

Version(compiles, abi, immutables, runtime) ==
  [compiles |-> compiles, supported |-> TRUE, name |-> "A", abi |-> abi,
   immutables |-> immutables, runtime |-> runtime, creation |-> Code(0, {}, 1)]

First   == Version(BOOLEAN, "abi1", {}, Code(1, {}, 2))
Second  == Version(BOOLEAN, "abi2", Slots(1), Code(2, {0}, 1))
Odd     == [Version({TRUE}, "abi1", Slots(1), Code(1, {}, 2)) EXCEPT !.supported = FALSE]
Wide    == Version({TRUE}, "abi3", Slots(10), Code(2, {}, 1))

MCCompiled == <<First, Second, Odd, Wide>>
MCNames    == <<"A", "B">>
=============================================================================
