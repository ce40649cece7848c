------------------------- MODULE BenchmarkBlocksProofs -------------------------
(***************************************************************************)
(* Proofs about BenchmarkBlocks, for every set of benchmarks, codes and    *)
(* libraries, every pool of workers and whatever Lean accepts.             *)
(***************************************************************************)
EXTENDS BenchmarkBlocks, FiniteSetTheorems, TLAPS

Shards   == Benchmarks \X Numbers
Contents == {Text(c, i) : c \in Codes, i \in Numbers} \cup {NoFile}

TypeOK ==
  /\ hex \in [Benchmarks -> Codes] /\ lean \in [Benchmarks -> Codes]
  /\ library \in Libraries
  /\ files \in [Benchmarks -> [Numbers -> Contents]]
  /\ markers \in [Benchmarks -> [Numbers -> Contents]]
  /\ phase \in {"idle", "generating", "compiling"}
  /\ todo \subseteq Benchmarks /\ queue \subseteq Shards
  /\ busy \in [Workers -> Shards \cup {NoWork}]
  /\ failures \subseteq Shards
  /\ result \in {"none", "ok", "failed", "aborted"}

Held == {s \in Shards : \E w \in Workers : busy[w] = s}

(* A marker is evidence: some library accepted the text that it names.     *)
MarkersTrue ==
  \A s \in Shards : Marker(s) # NoFile =>
    \E l \in Libraries : <<l, Marker(s)>> \notin Rejected

(* The shards a worker or the queue has: on disk, and in one place only.   *)
WorkApart ==
  /\ \A s \in queue \cup Held : File(s) # NoFile
  /\ queue \cap Held = {}
  /\ \A v, w \in Workers : busy[v] = busy[w] /\ busy[v] # NoWork => v = w
  /\ phase # "compiling" => Held = {}
  /\ phase = "idle" => queue = {}

(* The shards of b are those of its code.                                  *)
Fresh(b) == \A s \in Current(b) : File(s) = Text(lean[b], s[2])

(* A run comes to its benchmarks one by one, and forgets none afterwards.  *)
Progress ==
  /\ phase = "compiling" => todo = {}
  /\ phase # "idle" => \A b \in Benchmarks \ todo : Fresh(b)
  /\ phase = "generating" => \A b \in Benchmarks \ todo : Current(b) \subseteq queue
  /\ phase = "compiling" =>
       \A b \in Benchmarks : \A s \in Current(b) :
         s \in queue \cup Held \/ Cached(s) \/ s \in failures

(* Success is about what is there now.                                     *)
Settled ==
  result = "ok" =>
    /\ phase = "idle"
    /\ \A b \in Benchmarks : Fresh(b) /\ \A s \in Current(b) : Cached(s)

BlocksInv == TypeOK /\ MarkersTrue /\ WorkApart /\ Progress /\ Settled

-----------------------------------------------------------------------------
(***************************************************************************)
(* A shard is a benchmark with a number, and the current ones are among    *)
(* all of them.                                                            *)
(***************************************************************************)
LEMMA ShardParts ==
  ASSUME TypeOK
  PROVE  /\ \A s \in Shards : s[1] \in Benchmarks /\ s[2] \in Numbers /\ s = <<s[1], s[2]>>
         /\ \A b \in Benchmarks : \A s \in Current(b) : s \in Shards /\ s[1] = b
         /\ \A b \in Benchmarks : \A s \in Current(b) :
              /\ lean[b] \in Codes /\ s[2] \in 1..ShardCount[lean[b]]
              /\ Text(lean[b], s[2]) # NoFile
<1>1. \A s \in Shards : s[1] \in Benchmarks /\ s[2] \in Numbers /\ s = <<s[1], s[2]>>
  BY DEF Shards
<1>2. ASSUME NEW b \in Benchmarks, NEW s \in Current(b)
      PROVE  /\ s \in Shards /\ s[1] = b /\ lean[b] \in Codes
             /\ s[2] \in 1..ShardCount[lean[b]] /\ s[2] \in Numbers
  <2>1. lean[b] \in Codes
    BY DEF TypeOK
  <2>2. ShardCount[lean[b]] \in 1..MaxShards /\ MaxShards \in Nat
    BY <2>1, ShardCountAssumption
  <2>3. 1..ShardCount[lean[b]] \subseteq Numbers
    BY <2>2 DEF Numbers
  <2> QED BY <2>1, <2>3 DEF Current, Shards
<1> QED BY <1>1, <1>2, TextAssumption DEF Numbers

(* The invariant before the first run.                                     *)
LEMMA BlocksInit == Init => BlocksInv
<1> SUFFICES ASSUME Init PROVE BlocksInv
  OBVIOUS
<1>1. TypeOK
  BY DEF Init, TypeOK, Contents
<1>2. Held = {} /\ queue = {} /\ phase = "idle" /\ result = "none"
  BY NoWorkAssumption DEF Init, Held, Shards, Numbers
<1>3. \A s \in Shards : Marker(s) = NoFile
  BY DEF Init, Marker, Shards
<1>4. \A w \in Workers : busy[w] = NoWork
  BY DEF Init
<1> QED
  BY <1>1, <1>2, <1>3, <1>4 DEF BlocksInv, MarkersTrue, WorkApart, Progress, Settled

-----------------------------------------------------------------------------
(***************************************************************************)
(* Between runs: what success said is withdrawn by every edit.             *)
(***************************************************************************)
LEMMA EditStep ==
  ASSUME BlocksInv, EditArtifact \/ EditLibrary
  PROVE  BlocksInv'
<1>1. /\ phase = "idle" /\ result' = "none"
      /\ UNCHANGED <<files, markers, phase, todo, queue, busy, failures>>
  BY DEF EditArtifact, EditLibrary
<1>2. TypeOK'
  BY DEF BlocksInv, TypeOK, EditArtifact, EditLibrary
<1>3. Held' = Held /\ (\A s : File(s)' = File(s) /\ Marker(s)' = Marker(s))
  BY <1>1 DEF Held, File, Marker
<1>4. MarkersTrue' /\ WorkApart'
  BY <1>1, <1>3 DEF BlocksInv, MarkersTrue, WorkApart
<1> QED BY <1>1, <1>2, <1>4 DEF BlocksInv, Progress, Settled

(* A run starts.                                                           *)
LEMMA StartStep ==
  ASSUME BlocksInv, StartRun
  PROVE  BlocksInv'
<1>1. TypeOK'
  BY DEF BlocksInv, TypeOK, StartRun, inputs
<1>2. Held' = Held /\ (\A s : File(s)' = File(s) /\ Marker(s)' = Marker(s))
  BY DEF StartRun, Held, File, Marker
<1>3. MarkersTrue' /\ WorkApart'
  BY <1>2 DEF StartRun, BlocksInv, MarkersTrue, WorkApart, inputs
<1> QED BY <1>1, <1>3 DEF StartRun, BlocksInv, Progress, Settled, inputs

(* A run ends because a benchmark's two codes differ.                      *)
LEMMA CodesDifferStep ==
  ASSUME BlocksInv, CodesDiffer
  PROVE  BlocksInv'
<1>1. TypeOK'
  BY DEF BlocksInv, TypeOK, CodesDiffer, inputs
<1>2. Held' = Held /\ (\A s : File(s)' = File(s) /\ Marker(s)' = Marker(s))
  BY DEF CodesDiffer, Held, File, Marker
<1>3. MarkersTrue' /\ WorkApart'
  BY <1>2 DEF CodesDiffer, BlocksInv, MarkersTrue, WorkApart, inputs
<1> QED BY <1>1, <1>3 DEF CodesDiffer, BlocksInv, Progress, Settled, inputs

(***************************************************************************)
(* The generator writes the shards of one benchmark, which are all there   *)
(* afterwards; those of the others stay as they are.                       *)
(***************************************************************************)
LEMMA WrittenFacts ==
  ASSUME TypeOK, NEW b \in Benchmarks, files' = Written(b)
  PROVE  /\ files' \in [Benchmarks -> [Numbers -> Contents]]
         /\ \A s \in Shards : s[1] # b => File(s)' = File(s)
         /\ \A s \in Shards : s[1] = b /\ s[2] <= ShardCount[hex[b]]
                                => File(s)' = Text(hex[b], s[2])
         /\ \A s \in Shards : File(s) # NoFile => File(s)' # NoFile
<1> DEFINE new == [i \in Numbers |-> IF i <= ShardCount[hex[b]] THEN Text(hex[b], i)
                                     ELSE files[b][i]]
<1>1. files' = [files EXCEPT ![b] = new]
  BY DEF Written
<1>2. hex[b] \in Codes
  BY DEF TypeOK
<1>3. new \in [Numbers -> Contents]
  BY <1>2 DEF TypeOK, Contents
<1>4. \A i \in Numbers : Text(hex[b], i) # NoFile
  BY <1>2, TextAssumption DEF Numbers
<1>5. files'[b] = new /\ \A c \in Benchmarks : c # b => files'[c] = files[c]
  BY <1>1 DEF TypeOK
<1>6. \A i \in Numbers : new[i] = IF i <= ShardCount[hex[b]] THEN Text(hex[b], i) ELSE files[b][i]
  OBVIOUS
<1>7. files' \in [Benchmarks -> [Numbers -> Contents]]
  BY <1>1, <1>3 DEF TypeOK
<1> HIDE DEF new
<1>8. \A s \in Shards : s[1] \in Benchmarks /\ s[2] \in Numbers
  BY ShardParts
<1> QED BY <1>4, <1>5, <1>6, <1>7, <1>8 DEF File

(* The shards of a benchmark are generated.                                *)
LEMMA GenerateStep ==
  ASSUME BlocksInv, Generate
  PROVE  BlocksInv'
<1> USE DEF BlocksInv
<1>1. PICK b \in todo : /\ hex[b] = lean[b] /\ files' = Written(b)
                        /\ queue' = queue \cup Globbed(b, files') /\ todo' = todo \ {b}
  BY DEF Generate
<1>2. /\ phase = "generating" /\ phase' = IF todo' = {} THEN "compiling" ELSE phase
      /\ UNCHANGED <<hex, lean, library, markers, busy, failures, result>>
  BY DEF Generate, inputs
<1>3. b \in Benchmarks
  BY <1>1 DEF TypeOK
<1>4. /\ files' \in [Benchmarks -> [Numbers -> Contents]]
      /\ \A s \in Shards : s[1] # b => File(s)' = File(s)
      /\ \A s \in Shards : s[1] = b /\ s[2] <= ShardCount[hex[b]]
                             => File(s)' = Text(hex[b], s[2])
      /\ \A s \in Shards : File(s) # NoFile => File(s)' # NoFile
  BY <1>1, <1>3, WrittenFacts
<1>5. Globbed(b, files') = {s \in Shards : s[1] = b /\ File(s)' # NoFile}
  BY <1>3 DEF Globbed, Shards, File
<1>6. TypeOK'
  <2>1. Globbed(b, files') \subseteq Shards
    BY <1>5
  <2> QED BY <1>1, <1>2, <1>4, <2>1 DEF TypeOK
<1>7. Held = {} /\ Held' = {}
  BY <1>2 DEF WorkApart, Held
<1>8. \A s : Marker(s)' = Marker(s)
  BY <1>2 DEF Marker
<1>9. MarkersTrue'
  BY <1>8 DEF MarkersTrue
<1>10. WorkApart'
  <2>1. \A s \in queue' : File(s)' # NoFile
    BY <1>1, <1>4, <1>5 DEF WorkApart, TypeOK
  <2> QED BY <1>2, <1>7, <2>1 DEF WorkApart
<1>11. \A c \in Benchmarks : Current(c)' = Current(c)
  BY <1>2 DEF Current
<1>12. /\ \A c \in Benchmarks \ todo' : Fresh(c)'
       /\ \A c \in Benchmarks \ todo' : Current(c)' \subseteq queue'
  <2> SUFFICES ASSUME NEW c \in Benchmarks \ todo'
               PROVE  Fresh(c)' /\ Current(c) \subseteq queue'
    BY <1>11
  <2>1. \A s \in Current(c) : /\ s \in Shards /\ s[1] = c /\ s[2] <= ShardCount[lean[c]]
                              /\ Text(lean[c], s[2]) # NoFile
    BY ShardParts, ShardCountAssumption DEF Numbers
  <2>2. CASE c = b
    <3>1. \A s \in Current(c) : File(s)' = Text(lean[c], s[2])
      BY <1>1, <1>4, <2>1, <2>2
    <3> QED BY <1>1, <1>2, <1>5, <1>11, <2>1, <2>2, <3>1 DEF Fresh
  <2>3. CASE c # b
    <3>1. c \in Benchmarks \ todo
      BY <1>1, <2>3
    <3>2. Fresh(c) /\ Current(c) \subseteq queue
      BY <1>2, <3>1 DEF Progress
    <3>3. \A s \in Current(c) : File(s)' = Text(lean[c], s[2])
      BY <1>4, <2>1, <2>3, <3>2 DEF Fresh
    <3> QED BY <1>1, <1>2, <1>11, <3>2, <3>3 DEF Fresh
  <2> QED BY <2>2, <2>3
<1>13. Progress'
  <2>1. phase' = "compiling" => todo' = {}
    BY <1>2
  <2>2. phase' = "compiling" => \A c \in Benchmarks : Current(c)' \subseteq queue'
    BY <1>12, <2>1
  <2> QED BY <1>12, <2>1, <2>2 DEF Progress
<1>14. Settled'
  BY <1>2 DEF Settled
<1> QED BY <1>6, <1>9, <1>10, <1>13, <1>14

-----------------------------------------------------------------------------
(***************************************************************************)
(* Workers: one that has nothing takes a shard, one that has something     *)
(* lets go of it, and nobody else has that.                                *)
(***************************************************************************)
LEMMA TakeStep ==
  ASSUME BlocksInv, NEW w \in Workers, Take(w)
  PROVE  BlocksInv'
<1> USE DEF BlocksInv
<1>1. PICK s \in queue : busy' = [busy EXCEPT ![w] = s] /\ queue' = queue \ {s}
  BY DEF Take, Remaining
<1>2. /\ phase = "compiling" /\ busy[w] = NoWork
      /\ UNCHANGED <<hex, lean, library, files, markers, phase, todo, failures, result>>
  BY DEF Take, inputs
<1>3. s \in Shards /\ s # NoWork
  BY <1>1, NoWorkAssumption DEF TypeOK, Shards, Numbers
<1>4. TypeOK'
  BY <1>1, <1>2, <1>3 DEF TypeOK
<1>5. /\ busy'[w] = s /\ \A v \in Workers : v # w => busy'[v] = busy[v]
  BY <1>1 DEF TypeOK
<1>6. Held' = Held \cup {s}
  BY <1>2, <1>3, <1>5, NoWorkAssumption DEF Held, Shards, Numbers
<1>7. \A r : File(r)' = File(r) /\ Marker(r)' = Marker(r)
  BY <1>2 DEF File, Marker
<1>8. \A b \in Benchmarks : Current(b)' = Current(b) /\ Fresh(b)' = Fresh(b)
  BY <1>2, <1>7 DEF Current, Fresh
<1>9. MarkersTrue'
  BY <1>2, <1>7 DEF MarkersTrue
<1>10. WorkApart'
  <2>1. s \notin Held
    BY <1>1 DEF WorkApart
  <2>2. \A v \in Workers : busy[v] # s
    BY <1>3, <2>1 DEF Held
  <2>3. \A u, v \in Workers : busy'[u] = busy'[v] /\ busy'[u] # NoWork => u = v
    BY <1>5, <2>2 DEF WorkApart
  <2> QED BY <1>1, <1>2, <1>6, <1>7, <2>3 DEF WorkApart
<1>11. Progress'
  BY <1>1, <1>2, <1>6, <1>7, <1>8 DEF Progress, Cached
<1>12. Settled'
  BY <1>2 DEF Settled
<1> QED BY <1>4, <1>9, <1>10, <1>11, <1>12

(* A worker is done with its shard.                                        *)
LEMMA ReleaseFacts ==
  ASSUME BlocksInv, NEW w \in Workers, Working(w), busy' = Released(w)
  PROVE  /\ busy[w] \in Shards /\ busy[w] \in Held
         /\ busy' \in [Workers -> Shards \cup {NoWork}]
         /\ Held' = Held \ {busy[w]}
         /\ \A u, v \in Workers : busy'[u] = busy'[v] /\ busy'[u] # NoWork => u = v
<1> USE DEF BlocksInv
<1>1. busy[w] \in Shards /\ busy[w] # NoWork /\ phase = "compiling"
  BY DEF Working, TypeOK
<1>2. busy' = [busy EXCEPT ![w] = NoWork]
  BY DEF Released
<1>3. busy'[w] = NoWork /\ \A v \in Workers : v # w => busy'[v] = busy[v]
  BY <1>2 DEF TypeOK
<1>4. \A v \in Workers : busy[v] = busy[w] => v = w
  BY <1>1 DEF WorkApart
<1>5. Held' = Held \ {busy[w]}
  BY <1>1, <1>3, <1>4, NoWorkAssumption DEF Held, Shards, Numbers
<1> QED BY <1>1, <1>2, <1>3, <1>5 DEF WorkApart, Held, TypeOK

(***************************************************************************)
(* A worker that lets go of a shard has settled it: its marker names its   *)
(* text now, or it is among the failures.  Other markers stay.             *)
(***************************************************************************)
LEMMA SettleStep ==
  ASSUME BlocksInv, NEW w \in Workers, Working(w), busy' = Released(w),
         NEW s \in Shards, busy[w] = s,
         UNCHANGED <<hex, lean, library, files, phase, todo, queue, result>>,
         markers' \in [Benchmarks -> [Numbers -> Contents]],
         failures \subseteq failures', failures' \subseteq Shards,
         \A r \in Shards : Marker(r)' = Marker(r) \/ Cached(r)',
         MarkersTrue',
         Cached(s)' \/ s \in failures'
  PROVE  BlocksInv'
<1> USE DEF BlocksInv
<1>1. /\ busy[w] \in Shards /\ busy[w] \in Held
      /\ busy' \in [Workers -> Shards \cup {NoWork}]
      /\ Held' = Held \ {busy[w]}
      /\ \A u, v \in Workers : busy'[u] = busy'[v] /\ busy'[u] # NoWork => u = v
  BY ReleaseFacts
<1>2. phase = "compiling"
  BY DEF Working
<1>3. TypeOK'
  BY <1>1 DEF TypeOK
<1>4. \A r : File(r)' = File(r)
  BY DEF File
<1>5. \A b \in Benchmarks : Current(b)' = Current(b) /\ Fresh(b)' = Fresh(b)
  BY <1>4 DEF Current, Fresh
<1>6. WorkApart'
  BY <1>1, <1>2, <1>4 DEF WorkApart
<1>7. \A r \in Shards : Cached(r) => Cached(r)'
  BY <1>4 DEF Cached
<1>8. \A b \in Benchmarks : \A r \in Current(b) :
        r \in queue' \cup Held' \/ Cached(r)' \/ r \in failures'
  <2> SUFFICES ASSUME NEW b \in Benchmarks, NEW r \in Current(b)
               PROVE  r \in queue' \cup Held' \/ Cached(r)' \/ r \in failures'
    OBVIOUS
  <2>1. r \in Shards
    BY ShardParts
  <2>2. r \in queue \cup Held \/ Cached(r) \/ r \in failures
    BY <1>2 DEF Progress
  <2> QED BY <1>1, <1>7, <2>1, <2>2
<1>9. Progress'
  BY <1>2, <1>5, <1>8 DEF Progress
<1>10. Settled'
  BY <1>2 DEF Settled
<1> QED BY <1>3, <1>6, <1>9, <1>10

(* A shard is settled by its marker.                                       *)
LEMMA UseCachedStep ==
  ASSUME BlocksInv, NEW w \in Workers, UseCached(w)
  PROVE  BlocksInv'
<1>1. /\ Working(w) /\ busy' = Released(w) /\ Cached(busy[w])
      /\ UNCHANGED <<hex, lean, library, files, markers, phase, todo, queue, failures, result>>
  BY DEF UseCached, inputs
<1>2. \A r : Marker(r)' = Marker(r) /\ File(r)' = File(r)
  BY <1>1 DEF Marker, File
<1>3. MarkersTrue'
  BY <1>1, <1>2 DEF BlocksInv, MarkersTrue
<1>4. PICK s \in Shards : s = busy[w]
  BY <1>1, ReleaseFacts
<1>5. Cached(s)'
  BY <1>1, <1>2, <1>4 DEF Cached
<1> QED BY <1>1, <1>2, <1>3, <1>4, <1>5, SettleStep DEF BlocksInv, TypeOK

(* Lean rejects a shard, or takes too long.                                *)
LEMMA LeanFailsStep ==
  ASSUME BlocksInv, NEW w \in Workers, LeanFails(w)
  PROVE  BlocksInv'
<1>1. /\ Working(w) /\ busy' = Released(w) /\ failures' = failures \cup {busy[w]}
      /\ UNCHANGED <<hex, lean, library, files, markers, phase, todo, queue, result>>
  BY DEF LeanFails, inputs
<1>2. \A r : Marker(r)' = Marker(r)
  BY <1>1 DEF Marker
<1>3. MarkersTrue'
  BY <1>1, <1>2 DEF BlocksInv, MarkersTrue
<1>4. PICK s \in Shards : s = busy[w]
  BY <1>1, ReleaseFacts
<1> QED BY <1>1, <1>2, <1>3, <1>4, SettleStep DEF BlocksInv, TypeOK

(***************************************************************************)
(* What Mark does to the markers.                                          *)
(***************************************************************************)
LEMMA MarkFacts ==
  ASSUME TypeOK, NEW s \in Shards, NEW text \in Contents, Mark(s, text)
  PROVE  /\ markers' \in [Benchmarks -> [Numbers -> Contents]]
         /\ Marker(s)' = text
         /\ \A r \in Shards : r # s => Marker(r)' = Marker(r)
<1>1. s[1] \in Benchmarks /\ s[2] \in Numbers /\ s = <<s[1], s[2]>>
  BY ShardParts
<1>2. markers' = [markers EXCEPT ![s[1]] = [markers[s[1]] EXCEPT ![s[2]] = text]]
  BY DEF Mark
<1>3. markers' \in [Benchmarks -> [Numbers -> Contents]]
  BY <1>1, <1>2 DEF TypeOK
<1>4. ASSUME NEW r \in Shards
      PROVE  markers'[r[1]][r[2]] = IF r[1] = s[1] /\ r[2] = s[2] THEN text
                                    ELSE markers[r[1]][r[2]]
  <2>1. r[1] \in Benchmarks /\ r[2] \in Numbers
    BY ShardParts
  <2> QED BY <1>1, <1>2, <2>1 DEF TypeOK
<1>5. \A r \in Shards : r[1] = s[1] /\ r[2] = s[2] => r = s
  BY <1>1, ShardParts
<1> QED BY <1>3, <1>4, <1>5 DEF Marker

(* Lean accepts a shard, and its marker is written.                        *)
LEMMA LeanAcceptsStep ==
  ASSUME BlocksInv, NEW w \in Workers, LeanAccepts(w)
  PROVE  BlocksInv'
<1>1. /\ Working(w) /\ busy' = Released(w)
      /\ Accepts(busy[w][1], File(busy[w])) /\ Mark(busy[w], File(busy[w]))
      /\ UNCHANGED <<hex, lean, library, files, phase, todo, queue, failures, result>>
  BY DEF LeanAccepts, inputs
<1>2. PICK s \in Shards : s = busy[w]
  BY <1>1, ReleaseFacts
<1>3. PICK text \in Contents : text = File(s)
  BY <1>2, ShardParts DEF BlocksInv, TypeOK, File
<1>4. /\ markers' \in [Benchmarks -> [Numbers -> Contents]]
      /\ Marker(s)' = text
      /\ \A r \in Shards : r # s => Marker(r)' = Marker(r)
  <2>1. Mark(s, text)
    BY <1>1, <1>2, <1>3
  <2> QED BY <1>2, <1>3, <2>1, MarkFacts DEF BlocksInv
<1>5. \A r : File(r)' = File(r)
  BY <1>1 DEF File
<1>6. Cached(s)' /\ \A r \in Shards : Marker(r)' = Marker(r) \/ Cached(r)'
  BY <1>3, <1>4, <1>5 DEF Cached
<1>7. MarkersTrue'
  <2>1. library \in Libraries /\ <<library, text>> \notin Rejected
    BY <1>1, <1>2, <1>3 DEF BlocksInv, TypeOK, Accepts
  <2>2. ASSUME NEW r \in Shards, Marker(r)' # NoFile
        PROVE  \E l \in Libraries : <<l, Marker(r)'>> \notin Rejected
    <3>1. CASE r = s
      BY <1>4, <2>1, <3>1
    <3>2. CASE r # s
      BY <1>4, <2>2, <3>2 DEF BlocksInv, MarkersTrue
    <3> QED BY <3>1, <3>2
  <2> QED BY <2>2 DEF MarkersTrue
<1> QED BY <1>1, <1>2, <1>4, <1>6, <1>7, SettleStep DEF BlocksInv, TypeOK

-----------------------------------------------------------------------------
(***************************************************************************)
(* The two ends of a run: every shard is settled, or it was killed and     *)
(* says nothing, with at most one marker torn.                             *)
(***************************************************************************)
LEMMA ReportStep ==
  ASSUME BlocksInv, Report
  PROVE  BlocksInv'
<1> USE DEF BlocksInv
<1>1. /\ phase = "compiling" /\ queue = {} /\ phase' = "idle"
      /\ result' = IF failures = {} THEN "ok" ELSE "failed"
      /\ UNCHANGED <<hex, lean, library, files, markers, todo, queue, busy, failures>>
  BY DEF Report, inputs
<1>2. Held = {} /\ Held' = {}
  BY <1>1, NoWorkAssumption DEF Report, Held, Shards, Numbers
<1>3. \A s : File(s)' = File(s) /\ Marker(s)' = Marker(s)
  BY <1>1 DEF File, Marker
<1>4. TypeOK'
  BY <1>1 DEF TypeOK
<1>5. MarkersTrue' /\ WorkApart'
  BY <1>1, <1>2, <1>3 DEF MarkersTrue, WorkApart
<1>6. Progress'
  BY <1>1 DEF Progress
<1>7. Settled'
  <2> SUFFICES ASSUME failures = {}, NEW b \in Benchmarks
               PROVE  Fresh(b)' /\ \A s \in Current(b)' : Cached(s)'
    BY <1>1 DEF Settled
  <2>1. Current(b)' = Current(b)
    BY <1>1 DEF Current
  <2>2. Fresh(b) /\ \A s \in Current(b) : Cached(s)
    BY <1>1, <1>2 DEF Progress
  <2> QED BY <1>1, <1>3, <2>1, <2>2 DEF Fresh, Cached
<1> QED BY <1>4, <1>5, <1>6, <1>7

(* A run is interrupted, perhaps while a marker is written.                *)
LEMMA InterruptStep ==
  ASSUME BlocksInv, Interrupt
  PROVE  BlocksInv'
<1> USE DEF BlocksInv
<1>1. /\ phase' = "idle" /\ todo' = {} /\ queue' = {}
      /\ busy' = [w \in Workers |-> NoWork]
      /\ UNCHANGED <<hex, lean, library, files, failures, result>>
  BY DEF Interrupt, inputs
<1>2. Held' = {}
  BY <1>1, NoWorkAssumption DEF Held, Shards, Numbers
<1>3. /\ markers' \in [Benchmarks -> [Numbers -> Contents]]
      /\ \A s \in Shards : Marker(s)' = Marker(s) \/ Marker(s)' = NoFile
  <2>1. CASE UNCHANGED markers
    BY <2>1 DEF TypeOK, Marker
  <2>2. ASSUME NEW w \in Workers, Working(w), Mark(busy[w], Torn)
        PROVE  /\ markers' \in [Benchmarks -> [Numbers -> Contents]]
               /\ \A s \in Shards : Marker(s)' = Marker(s) \/ Marker(s)' = NoFile
    <3>1. PICK s \in Shards : s = busy[w]
      BY <2>2 DEF Working, TypeOK
    <3>2. Mark(s, NoFile)
      BY <2>2, <3>1 DEF Torn
    <3>3. NoFile \in Contents
      BY DEF Contents
    <3> QED BY <3>2, <3>3, MarkFacts
  <2> QED BY <2>1, <2>2 DEF Interrupt
<1>4. TypeOK'
  BY <1>1, <1>3 DEF TypeOK
<1>5. MarkersTrue'
  BY <1>3 DEF MarkersTrue
<1>6. WorkApart' /\ Progress'
  BY <1>1, <1>2 DEF WorkApart, Progress
<1>7. Settled'
  BY <1>1 DEF Settled, Interrupt
<1> QED BY <1>4, <1>5, <1>6, <1>7

(* Every step keeps the invariant.                                         *)
LEMMA BlocksStep == BlocksInv /\ [Next]_vars => BlocksInv'
<1> SUFFICES ASSUME BlocksInv, [Next]_vars PROVE BlocksInv'
  OBVIOUS
<1>1. CASE EditArtifact
  BY <1>1, EditStep
<1>2. CASE EditLibrary
  BY <1>2, EditStep
<1>3. CASE StartRun
  BY <1>3, StartStep
<1>4. CASE Generate
  BY <1>4, GenerateStep
<1>5. CASE CodesDiffer
  BY <1>5, CodesDifferStep
<1>6. CASE Compile
  BY <1>6, TakeStep, UseCachedStep, LeanAcceptsStep, LeanFailsStep DEF Compile
<1>7. CASE Report
  BY <1>7, ReportStep
<1>8. CASE Interrupt
  BY <1>8, InterruptStep
<1>9. CASE UNCHANGED vars
  <2>1. /\ UNCHANGED <<hex, lean, library, files, markers, phase, todo, queue>>
        /\ UNCHANGED <<busy, failures, result>>
    BY <1>9 DEF vars, inputs
  <2>2. TypeOK'
    BY <2>1 DEF BlocksInv, TypeOK
  <2>3. Held' = Held /\ \A s : File(s)' = File(s) /\ Marker(s)' = Marker(s)
    BY <2>1 DEF Held, File, Marker
  <2>4. \A b : Current(b)' = Current(b)
    BY <2>1 DEF Current
  <2>5. MarkersTrue' /\ WorkApart'
    BY <2>1, <2>3 DEF BlocksInv, MarkersTrue, WorkApart
  <2>6. \A b : Fresh(b)' = Fresh(b)
    BY <2>1, <2>3, <2>4 DEF Fresh
  <2>7. Progress' /\ Settled'
    BY <2>1, <2>3, <2>4, <2>6 DEF BlocksInv, Progress, Settled, Cached
  <2> QED BY <2>2, <2>5, <2>7 DEF BlocksInv
<1> QED BY <1>1, <1>2, <1>3, <1>4, <1>5, <1>6, <1>7, <1>8, <1>9 DEF Next

-----------------------------------------------------------------------------
(***************************************************************************)
(* The inductive invariant of the checker: markers are evidence, no shard  *)
(* is in two places, and the shards of the code at hand are waiting, held  *)
(* or settled from the moment their benchmark is generated.                *)
(***************************************************************************)
THEOREM BlocksInvariant == Spec => []BlocksInv
<1> QED BY BlocksInit, BlocksStep, PTL DEF Spec

(***************************************************************************)
(* The pool of check_all_benchmark_blocks.py forgets no shard and gives    *)
(* none to two workers, for any number of workers.                         *)
(***************************************************************************)
THEOREM NothingForgotten == Spec => []NoShardForgotten
<1>1. BlocksInv => NoShardForgotten
  <2> SUFFICES ASSUME BlocksInv, phase = "compiling",
                      NEW b \in Benchmarks, NEW s \in Current(b)
               PROVE  LET workers == {w \in Workers : busy[w] = s} IN
                      IF s \in queue THEN workers = {}
                      ELSE \/ Cardinality(workers) = 1
                           \/ workers = {} /\ (Cached(s) \/ s \in failures)
    BY DEF NoShardForgotten
  <2> DEFINE workers == {w \in Workers : busy[w] = s}
  <2>1. s \in Shards /\ s # NoWork
    BY ShardParts, NoWorkAssumption DEF BlocksInv, Shards, Numbers
  <2>2. s \in Held <=> workers # {}
    BY <2>1 DEF Held
  <2>3. CASE s \in queue
    BY <2>2, <2>3 DEF BlocksInv, WorkApart
  <2>4. CASE s \notin queue /\ s \in Held
    <3>1. PICK w \in Workers : busy[w] = s
      BY <2>4 DEF Held
    <3>2. workers = {w}
      BY <2>1, <3>1 DEF BlocksInv, WorkApart
    <3>3. Cardinality(workers) = 1
      BY <3>2, FS_Singleton
    <3> QED BY <2>4, <3>3
  <2>5. CASE s \notin queue /\ s \notin Held
    BY <2>2, <2>5 DEF BlocksInv, Progress
  <2> QED BY <2>3, <2>4, <2>5
<1> QED BY <1>1, BlocksInvariant, PTL

(***************************************************************************)
(* A run that reports success has every summary of every benchmark on      *)
(* disk, accepted by Lean: the markers that earlier runs left, finished or *)
(* killed, never vouch for a text that nothing accepted.                   *)
(***************************************************************************)
THEOREM SuccessSound == Spec => []SuccessMeansAccepted
<1>1. BlocksInv => SuccessMeansAccepted
  <2> SUFFICES ASSUME BlocksInv, result = "ok", NEW b \in Benchmarks, NEW s \in Current(b)
               PROVE  /\ File(s) = Text(lean[b], s[2])
                      /\ \E l \in Libraries : <<l, File(s)>> \notin Rejected
    BY DEF SuccessMeansAccepted
  <2>1. s \in Shards /\ Text(lean[b], s[2]) # NoFile
    BY ShardParts DEF BlocksInv
  <2>2. File(s) = Text(lean[b], s[2]) /\ Marker(s) = File(s)
    BY DEF BlocksInv, Settled, Fresh, Cached
  <2> QED BY <2>1, <2>2 DEF BlocksInv, MarkersTrue
<1> QED BY <1>1, BlocksInvariant, PTL
=============================================================================
