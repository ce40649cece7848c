--------------------------- MODULE BenchmarkBlocks ---------------------------
(***************************************************************************)
(* src/scripts/check_all_benchmark_blocks.py: regenerate the block         *)
(* summaries of every benchmark into an output directory that outlives the *)
(* run, and compile the shards with a pool of workers.  A shard that       *)
(* compiled leaves a marker with the hash of its text and is not compiled  *)
(* again.  Runs are interrupted and repeated, and between them benchmarks  *)
(* and the library they import change.                                     *)
(*                                                                         *)
(* The text of a shard is what Text says of its code and its number: codes *)
(* that share their first blocks share shards.                             *)
(***************************************************************************)
EXTENDS Naturals, FiniteSets

CONSTANTS
  Benchmarks, Codes, Libraries, Workers,
  ShardCount,   \* [Codes -> 1..MaxShards]
  MaxShards,
  Text(_, _),   \* the text of shard i of a code
  Rejected,     \* pairs <<library, text>>: with that library it does not compile
  NoFile, NoWork

ASSUME ShardCountAssumption == MaxShards \in Nat /\ ShardCount \in [Codes -> 1..MaxShards]
ASSUME TextAssumption == \A c \in Codes, i \in 1..MaxShards : Text(c, i) # NoFile
ASSUME NoWorkAssumption == NoWork \notin Benchmarks \X (1..MaxShards)

VARIABLES
  hex,       \* runtime.hex of each benchmark
  lean,      \* the code in its Bytecode.lean
  library,   \* what the shards import besides
  files,     \* the shards in the output directory
  markers,   \* the texts whose hashes the markers hold
  phase,     \* "idle", "generating" or "compiling"
  todo,      \* benchmarks to generate
  queue,     \* shards to compile
  busy,      \* what each worker compiles
  failures,  \* shards that did not compile
  result     \* of the last run: "none", "ok", "failed" or "aborted"

inputs == <<hex, lean, library>>
vars == <<hex, lean, library, files, markers, phase, todo, queue, busy,
          failures, result>>

Numbers == 1..MaxShards
Torn    == NoFile       \* an unreadable marker equals no hash

File(s)   == files[s[1]][s[2]]
Marker(s) == markers[s[1]][s[2]]

(* The shards a benchmark's code has now.                                  *)
Current(b) == {b} \X (1..ShardCount[lean[b]])

(* Lean accepts a summary of the code in Bytecode.lean.                    *)
Accepts(b, text) ==
  /\ \E i \in 1..ShardCount[lean[b]] : text = Text(lean[b], i)
  /\ <<library, text>> \notin Rejected

Init ==
  /\ hex \in [Benchmarks -> Codes] /\ lean = hex /\ library \in Libraries
  /\ files = [b \in Benchmarks |-> [i \in Numbers |-> NoFile]]
  /\ markers = files
  /\ phase = "idle" /\ todo = {} /\ queue = {}
  /\ busy = [w \in Workers |-> NoWork] /\ failures = {} /\ result = "none"

-----------------------------------------------------------------------------
(* Between runs.                                                           *)

EditArtifact ==
  /\ phase = "idle"
  /\ \E b \in Benchmarks, c \in Codes :
       \/ hex' = [hex EXCEPT ![b] = c] /\ UNCHANGED lean
       \/ lean' = [lean EXCEPT ![b] = c] /\ UNCHANGED hex
  /\ result' = "none"
  /\ UNCHANGED <<library, files, markers, phase, todo, queue, busy, failures>>

EditLibrary ==
  /\ phase = "idle"
  /\ library' \in Libraries
  /\ result' = "none"
  /\ UNCHANGED <<hex, lean, files, markers, phase, todo, queue, busy, failures>>

-----------------------------------------------------------------------------
(* A run.                                                                  *)

(* The imports build; one that does not leaves everything as it was.       *)
StartRun ==
  /\ phase = "idle"
  /\ phase' = "generating" /\ todo' = Benchmarks
  /\ queue' = {} /\ failures' = {} /\ result' = "none"
  /\ UNCHANGED <<inputs, files, markers, busy>>

(* The generator overwrites the shards it writes and leaves the others.    *)
Written(b) ==
  [files EXCEPT ![b] = [i \in Numbers |-> IF i <= ShardCount[hex[b]]
                                          THEN Text(hex[b], i) ELSE @[i]]]

(* The shards to compile are read off the directory.                       *)
Globbed(b, directory) == {b} \X {i \in Numbers : directory[b][i] # NoFile}

Generate ==
  /\ phase = "generating"
  /\ \E b \in todo :
       /\ hex[b] = lean[b]
       /\ files' = Written(b)
       /\ queue' = queue \cup Globbed(b, files')
       /\ todo' = todo \ {b}
  /\ phase' = IF todo' = {} THEN "compiling" ELSE phase
  /\ UNCHANGED <<inputs, markers, busy, failures, result>>

(* A benchmark whose two codes differ ends the run.                        *)
CodesDiffer ==
  /\ phase = "generating"
  /\ \E b \in todo : hex[b] # lean[b]
  /\ phase' = "idle" /\ result' = "aborted" /\ todo' = {} /\ queue' = {}
  /\ UNCHANGED <<inputs, files, markers, busy, failures>>

(* Fault: a shard stays in the pool's queue when a worker has it.          *)
LeftInQueue(s) == queue
Remaining(s) == queue \ {s}

Take(w) ==
  /\ phase = "compiling" /\ busy[w] = NoWork
  /\ \E s \in queue : busy' = [busy EXCEPT ![w] = s] /\ queue' = Remaining(s)
  /\ UNCHANGED <<inputs, files, markers, phase, todo, failures, result>>

Working(w) == phase = "compiling" /\ busy[w] # NoWork

(* Fault: any marker will do.                                              *)
Marked(s) == Marker(s) # NoFile
Cached(s) == Marker(s) = File(s)

(* Fault: the worker of a shard that failed never returns.                 *)
Stranded(w) == busy
Released(w) == [busy EXCEPT ![w] = NoWork]

UseCached(w) ==
  /\ Working(w) /\ Cached(busy[w])
  /\ busy' = Released(w)
  /\ UNCHANGED <<inputs, files, markers, phase, todo, queue, failures, result>>

Mark(s, text) == markers' = [markers EXCEPT ![s[1]][s[2]] = text]

LeanAccepts(w) ==
  /\ Working(w) /\ ~Cached(busy[w])
  /\ Accepts(busy[w][1], File(busy[w]))
  /\ Mark(busy[w], File(busy[w]))
  /\ busy' = Released(w)
  /\ UNCHANGED <<inputs, files, phase, todo, queue, failures, result>>

(* Lean rejects the shard, or takes longer than it is given.               *)
LeanFails(w) ==
  /\ Working(w) /\ ~Cached(busy[w])
  /\ failures' = failures \cup {busy[w]}
  /\ busy' = Released(w)
  /\ UNCHANGED <<inputs, files, markers, phase, todo, queue, result>>

Report ==
  /\ phase = "compiling" /\ queue = {} /\ \A w \in Workers : busy[w] = NoWork
  /\ phase' = "idle"
  /\ result' = IF failures = {} THEN "ok" ELSE "failed"
  /\ UNCHANGED <<inputs, files, markers, todo, queue, busy, failures>>

(* The run is killed; a marker may be half written.                        *)
Interrupt ==
  /\ phase # "idle"
  /\ phase' = "idle" /\ todo' = {} /\ queue' = {}
  /\ busy' = [w \in Workers |-> NoWork]
  /\ \/ UNCHANGED markers
     \/ \E w \in Workers : Working(w) /\ Mark(busy[w], Torn)
  /\ UNCHANGED <<inputs, files, failures, result>>

Compile == \E w \in Workers : Take(w) \/ UseCached(w) \/ LeanAccepts(w) \/ LeanFails(w)

Next == EditArtifact \/ EditLibrary \/ StartRun \/ Generate \/ CodesDiffer
        \/ Compile \/ Report \/ Interrupt

(* Lean runs under a timeout, so a worker that has a shard finishes it.    *)
Fairness ==
  /\ WF_vars(Generate \/ CodesDiffer) /\ WF_vars(Report)
  /\ \A w \in Workers :
       WF_vars(Take(w) \/ UseCached(w) \/ LeanAccepts(w) \/ LeanFails(w))

Spec == Init /\ [][Next]_vars /\ Fairness

-----------------------------------------------------------------------------
(* Properties.                                                             *)

(* A run that reports success has every summary of every benchmark on      *)
(* disk and each of them was accepted by Lean, with this library or an     *)
(* earlier one, however many runs were interrupted and whatever markers    *)
(* and shards they left behind.                                            *)
SuccessMeansAccepted ==
  result = "ok" =>
    \A b \in Benchmarks : \A s \in Current(b) :
      /\ File(s) = Text(lean[b], s[2])
      /\ \E l \in Libraries : <<l, File(s)>> \notin Rejected

(* While shards compile, each one of the codes at hand is waiting, with    *)
(* exactly one worker, settled by its marker, or among the failures: the   *)
(* pool loses none and compiles none twice at the same time.               *)
NoShardForgotten ==
  phase = "compiling" =>
    \A s \in UNION {Current(b) : b \in Benchmarks} :
      LET workers == {w \in Workers : busy[w] = s} IN
      IF s \in queue THEN workers = {}
      ELSE \/ Cardinality(workers) = 1
           \/ workers = {} /\ (Cached(s) \/ s \in failures)

(* Every run ends, though shards fail and time out.                        *)
RunEnds == phase # "idle" ~> phase = "idle"
=============================================================================
