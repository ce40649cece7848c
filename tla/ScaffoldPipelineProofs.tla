------------------------- MODULE ScaffoldPipelineProofs -------------------------
(***************************************************************************)
(* Proofs about ScaffoldPipeline, for any versions of the sources, any     *)
(* contract names and any number of commands, edits and interruptions.     *)
(***************************************************************************)
EXTENDS ScaffoldPipeline, SequenceTheorems, WellFoundedInduction, TLAPS

(***************************************************************************)
(* What is left of a sequence t.                                           *)
(***************************************************************************)
IsRest(s, t) ==
  /\ Len(s) <= Len(t)
  /\ \A m \in 1..Len(s) : s[m] = t[m + (Len(t) - Len(s))]

(* Nothing of a sequence is done yet.                                      *)
LEMMA RestOfAll ==
  ASSUME NEW S, NEW t \in Seq(S)
  PROVE  IsRest(t, t)
<1>1. Len(t) \in Nat
  OBVIOUS
<1> QED BY <1>1 DEF IsRest

(* The next item, and what is left after it.                               *)
LEMMA RestOfRest ==
  ASSUME NEW S, NEW T, NEW t \in Seq(T), NEW s \in Seq(S), IsRest(s, t), s # <<>>
  PROVE  /\ Len(s) \in 1..Len(t) /\ Len(t) \in Nat
         /\ Head(s) = t[Len(t) - Len(s) + 1]
         /\ Tail(s) \in Seq(S) /\ Len(Tail(s)) = Len(s) - 1
         /\ IsRest(Tail(s), t)
         /\ \A m \in 1..Len(Tail(s)) : Tail(s)[m] = s[m + 1]
<1>1. Len(t) \in Nat /\ Len(s) \in Nat \ {0} /\ Head(s) = s[1]
  OBVIOUS
<1>2. /\ Tail(s) \in Seq(S) /\ Len(Tail(s)) = Len(s) - 1
      /\ \A m \in 1..Len(Tail(s)) : Tail(s)[m] = s[m + 1]
  OBVIOUS
<1>3. Len(s) \in 1..Len(t)
  BY <1>1 DEF IsRest
<1>4. Head(s) = t[Len(t) - Len(s) + 1]
  <2>1. s[1] = t[1 + (Len(t) - Len(s))]
    BY <1>1 DEF IsRest
  <2>2. 1 + (Len(t) - Len(s)) = Len(t) - Len(s) + 1
    BY <1>1
  <2> QED BY <1>1, <2>1, <2>2
<1>5. IsRest(Tail(s), t)
  <2>1. ASSUME NEW m \in 1..Len(Tail(s))
        PROVE  Tail(s)[m] = t[m + (Len(t) - Len(Tail(s)))]
    <3>1. m + 1 \in 1..Len(s) /\ (m + 1) + (Len(t) - Len(s)) = m + (Len(t) - Len(Tail(s)))
      BY <1>1, <1>2
    <3>2. s[m + 1] = t[(m + 1) + (Len(t) - Len(s))]
      BY <3>1 DEF IsRest
    <3> QED BY <1>2, <3>1, <3>2
  <2> QED BY <1>1, <1>2, <1>3, <2>1 DEF IsRest
<1> QED BY <1>2, <1>1, <1>3, <1>4, <1>5

-----------------------------------------------------------------------------
(***************************************************************************)
(* The stages of a command, and what they write.                           *)
(***************************************************************************)
StageNames == {"compile", "lean", "difftest", "blocks", "creation", "check"}
Artifacts  == {"runtime", "creation", "abi", "ast", "build", "hashes"}
Whats      == Artifacts \cup LeanFiles \cup {"unsupported", "no table", "registry", "shard", "index"}
Jobs       == [what : Whats, n : Nat]

(* Short sequences written out.                                            *)
LEMMA SixOf ==
  ASSUME NEW S, NEW a \in S, NEW b \in S, NEW c \in S, NEW d \in S, NEW e \in S, NEW f \in S
  PROVE  <<a, b, c, d, e, f>> \in Seq(S) /\ Len(<<a, b, c, d, e, f>>) = 6
OBVIOUS

LEMMA FewOf ==
  ASSUME NEW S, NEW a \in S, NEW b \in S
  PROVE  /\ <<a, b>> \in Seq(S) /\ Len(<<a, b>>) = 2
         /\ <<a>> \in Seq(S) /\ Len(<<a>>) = 1
OBVIOUS

(* Every command has stages; those of "all", in their order.               *)
LEMMA StagesFacts ==
  /\ \A c \in Commands : Stages(c) \in Seq(StageNames) /\ Len(Stages(c)) \in Nat \ {0}
  /\ Len(Stages("all")) = 6
  /\ Stages("all")[1] = "compile" /\ Stages("all")[2] = "lean" /\ Stages("all")[3] = "difftest"
  /\ Stages("all")[4] = "blocks" /\ Stages("all")[5] = "creation" /\ Stages("all")[6] = "check"
  /\ Len(Stages("check")) = 1 /\ Stages("check")[1] = "check"
<1>1. Stages("all") = <<"compile", "lean", "difftest", "blocks", "creation", "check">>
  BY DEF Stages
<1>2. Stages("blocks") = <<"blocks", "creation">>
  BY DEF Stages
<1>3. \A c \in {"compile", "lean", "difftest", "check"} : Stages(c) = <<c>> /\ c \in StageNames
  BY DEF Stages, StageNames
<1>4. Stages("all") \in Seq(StageNames) /\ Len(Stages("all")) = 6
  <2> DEFINE w == <<"compile", "lean", "difftest", "blocks", "creation", "check">>
  <2>1. w \in Seq(StageNames) /\ Len(w) = 6
    BY SixOf DEF StageNames
  <2> HIDE DEF w
  <2> QED BY <1>1, <2>1 DEF w
<1>5. Stages("blocks") \in Seq(StageNames) /\ Len(Stages("blocks")) = 2
  BY <1>2, FewOf DEF StageNames
<1>6. \A c \in {"compile", "lean", "difftest", "check"} :
        Stages(c) \in Seq(StageNames) /\ Len(Stages(c)) = 1 /\ Stages(c)[1] = c
  BY <1>3, FewOf
<1>7. \A c \in Commands : c = "all" \/ c = "blocks" \/ c \in {"compile", "lean", "difftest", "check"}
  BY DEF Commands
<1>8. /\ Stages("all")[1] = "compile" /\ Stages("all")[2] = "lean" /\ Stages("all")[3] = "difftest"
      /\ Stages("all")[4] = "blocks" /\ Stages("all")[5] = "creation" /\ Stages("all")[6] = "check"
  BY <1>1
<1>9. \A c \in Commands : Stages(c) \in Seq(StageNames) /\ Len(Stages(c)) \in Nat \ {0}
  BY <1>4, <1>5, <1>6, <1>7
<1> QED BY <1>4, <1>6, <1>8, <1>9

(* A list of files to write has the files in the order of their names.     *)
LEMMA EachFacts ==
  ASSUME NEW w \in Seq(Whats)
  PROVE  /\ Each(w) \in Seq(Jobs) /\ Len(Each(w)) = Len(w)
         /\ \A m \in 1..Len(w) : Each(w)[m].what = w[m]
<1>1. \A x \in Whats : File(x) \in Jobs /\ File(x).what = x
  BY DEF File, Jobs
<1>2. Each(w) = [m \in 1..Len(w) |-> File(w[m])] /\ Len(w) \in Nat
  BY DEF Each
<1>3. \A m \in 1..Len(w) : w[m] \in Whats
  OBVIOUS
<1>4. Each(w) \in [1..Len(w) -> Jobs]
  BY <1>1, <1>2, <1>3
<1>5. Each(w) \in Seq(Jobs) /\ Len(Each(w)) = Len(w)
  BY <1>2, <1>4
<1> QED BY <1>1, <1>2, <1>3, <1>5

(* What solc's compilation writes, and in which order.                     *)
LEMMA SolcFacts ==
  /\ SolcWrites \in Seq(Jobs) /\ Len(SolcWrites) = 6
  /\ SolcWrites[1].what = "runtime" /\ SolcWrites[2].what = "creation"
  /\ SolcWrites[3].what = "abi" /\ SolcWrites[4].what = "ast"
  /\ SolcWrites[5].what = "build" /\ SolcWrites[6].what = "hashes"
<1> DEFINE w == <<"runtime", "creation", "abi", "ast", "build", "hashes">>
<1>1. w \in Seq(Whats) /\ Len(w) = 6
  BY SixOf DEF Whats, Artifacts
<1>2. /\ w[1] = "runtime" /\ w[2] = "creation" /\ w[3] = "abi" /\ w[4] = "ast"
      /\ w[5] = "build" /\ w[6] = "hashes"
  OBVIOUS
<1>3. SolcWrites = Each(w)
  BY DEF SolcWrites
<1> HIDE DEF w
<1> QED BY <1>1, <1>2, <1>3, EachFacts

(* The same of Vyper's.                                                    *)
LEMMA VyperFacts ==
  /\ VyperWrites \in Seq(Jobs) /\ Len(VyperWrites) = 6
  /\ VyperWrites[1].what = "ast" /\ VyperWrites[2].what = "runtime"
  /\ VyperWrites[3].what = "creation" /\ VyperWrites[4].what = "abi"
  /\ VyperWrites[5].what = "build" /\ VyperWrites[6].what = "hashes"
<1> DEFINE w == <<"ast", "runtime", "creation", "abi", "build", "hashes">>
<1>1. w \in Seq(Whats) /\ Len(w) = 6
  BY SixOf DEF Whats, Artifacts
<1>2. /\ w[1] = "ast" /\ w[2] = "runtime" /\ w[3] = "creation" /\ w[4] = "abi"
      /\ w[5] = "build" /\ w[6] = "hashes"
  OBVIOUS
<1>3. VyperWrites = Each(w)
  BY DEF VyperWrites
<1> HIDE DEF w
<1> QED BY <1>1, <1>2, <1>3, EachFacts

(* An immutable that is not supported stops Vyper's after the AST.         *)
LEMMA UnsupportedFacts ==
  LET w == Each(<<"ast", "unsupported">>) IN
    w \in Seq(Jobs) /\ Len(w) = 2 /\ w[1].what = "ast" /\ w[2].what = "unsupported"
<1> DEFINE w == <<"ast", "unsupported">>
<1>1. w \in Seq(Whats) /\ Len(w) = 2 /\ w[1] = "ast" /\ w[2] = "unsupported"
  BY FewOf DEF Whats, Artifacts
<1> HIDE DEF w
<1>2. Each(w) \in Seq(Jobs) /\ Len(Each(w)) = 2 /\ Each(w)[1].what = "ast" /\ Each(w)[2].what = "unsupported"
  BY <1>1, EachFacts
<1> QED BY <1>2 DEF w

-----------------------------------------------------------------------------
(***************************************************************************)
(* The command that runs.  It is at one of its stages, and the last stage  *)
(* of "all" and "check" is the one that ends them.                         *)
(***************************************************************************)
Ran        == Len(Stages(command)) - Len(stages)
Now(stage) == command # "none" /\ Ran >= 1 /\ Stages(command)[Ran] = stage

ProcessInv ==
  /\ command \in Commands \cup {"none"}
  /\ command = "none" => todo = <<>> /\ stages = <<>>
  /\ stages \in Seq(StageNames) /\ todo \in Seq(Jobs)
  /\ command # "none" => IsRest(stages, Stages(command))
  /\ command \in {"all", "check"} => stages # <<>>
  /\ last # Absent => command = "none"
  /\ options.contract \in Names \cup {Absent}

LEMMA NoneFacts == "none" \notin Commands
BY DEF Commands

(* A stage begins.                                                         *)
LEMMA ReadsStep ==
  ASSUME ProcessInv, NEW stage, stage # "check", NEW what, NEW writes \in Seq(Jobs),
         Reads(stage, what, writes)
  PROVE  /\ ProcessInv'
         /\ Ran' = Ran + 1 /\ Ran \in Nat
         /\ Stages(command)[Ran + 1] = stage
         /\ \A s : Now(s)' <=> s = stage
         /\ command \in Commands
<1>1. /\ command # "none" /\ todo = <<>> /\ stages # <<>> /\ Head(stages) = stage
      /\ todo' = writes /\ stages' = Tail(stages) /\ command' = command /\ last' = last
      /\ options' = options
  BY DEF Reads, At
<1>2. /\ command \in Commands /\ stages \in Seq(StageNames) /\ IsRest(stages, Stages(command))
      /\ Stages(command) \in Seq(StageNames)
  BY <1>1, StagesFacts DEF ProcessInv
<1>3. /\ Len(stages) \in 1..Len(Stages(command)) /\ Len(Stages(command)) \in Nat
      /\ Head(stages) = Stages(command)[Len(Stages(command)) - Len(stages) + 1]
      /\ Tail(stages) \in Seq(StageNames) /\ Len(Tail(stages)) = Len(stages) - 1
      /\ IsRest(Tail(stages), Stages(command))
  BY <1>1, <1>2, RestOfRest
<1>4. Ran' = Ran + 1 /\ Ran \in Nat /\ Stages(command)[Ran + 1] = stage
  BY <1>1, <1>3 DEF Ran
<1>5. command \in {"all", "check"} => stages' # <<>>
  <2> SUFFICES ASSUME command \in {"all", "check"}, stages' = <<>> PROVE FALSE
    OBVIOUS
  <2>1. Len(stages) = 1
    <3>1. Len(<<>>) = 0 /\ Len(stages) \in Nat
      BY <1>3
    <3>2. Len(Tail(stages)) = 0
      BY <1>1, <3>1
    <3>3. Len(Tail(stages)) = Len(stages) - 1
      BY <1>3
    <3> QED BY <3>1, <3>2, <3>3
  <2>2. stage = Stages(command)[Len(Stages(command))]
    BY <1>1, <1>3, <2>1
  <2> QED BY <2>2, StagesFacts
<1>6. ProcessInv'
  BY <1>1, <1>2, <1>3, <1>5 DEF ProcessInv
<1>7. \A s : Now(s)' <=> s = stage
  <2>1. Stages(command)' = Stages(command)
    BY <1>1
  <2> QED BY <1>1, <1>4, <2>1 DEF Now
<1> QED BY <1>2, <1>4, <1>6, <1>7

(* A file is written: there is one less to come.                           *)
LEMMA WritesStep ==
  ASSUME ProcessInv, NEW f, Writes(f)
  PROVE  /\ ProcessInv'
         /\ todo # <<>> /\ Head(todo).what = f /\ command # "none" /\ last = Absent
         /\ Len(todo) \in Nat /\ Len(todo) >= 1 /\ Len(todo') = Len(todo) - 1
         /\ Ran' = Ran /\ \A s : Now(s)' <=> Now(s)
         /\ \A t \in Seq(Jobs) : IsRest(todo, t) =>
              IsRest(todo', t) /\ Head(todo) = t[Len(t) - Len(todo) + 1]
         /\ \A m \in 1..Len(todo') : todo'[m] = todo[m + 1] /\ m + 1 \in 1..Len(todo)
         /\ Head(todo) = todo[1] /\ 1 \in 1..Len(todo)
<1>1. /\ todo # <<>> /\ Head(todo).what = f /\ todo' = Tail(todo)
      /\ command' = command /\ stages' = stages /\ last' = last /\ options' = options
  BY DEF Writes
<1>2. /\ todo \in Seq(Jobs) /\ command # "none" /\ last = Absent
  BY <1>1 DEF ProcessInv
<1>3. /\ Len(todo) \in Nat /\ Len(todo) >= 1 /\ Len(Tail(todo)) = Len(todo) - 1
      /\ Tail(todo) \in Seq(Jobs) /\ Head(todo) = todo[1]
      /\ \A m \in 1..Len(Tail(todo)) : Tail(todo)[m] = todo[m + 1]
  BY <1>1, <1>2
<1>4. ProcessInv'
  BY <1>1, <1>2, <1>3 DEF ProcessInv
<1>5. Ran' = Ran /\ \A s : Now(s)' <=> Now(s)
  BY <1>1 DEF Ran, Now
<1>6. \A t \in Seq(Jobs) : IsRest(todo, t) =>
        IsRest(todo', t) /\ Head(todo) = t[Len(t) - Len(todo) + 1]
  BY <1>1, <1>2, RestOfRest
<1>7. \A m \in 1..Len(todo') : todo'[m] = todo[m + 1] /\ m + 1 \in 1..Len(todo)
  BY <1>1, <1>3
<1> QED BY <1>1, <1>2, <1>3, <1>4, <1>5, <1>6, <1>7

(* A command ends, in whatever way.                                        *)
LEMMA EndsStep ==
  ASSUME ProcessInv, NEW status, Ends(status)
  PROVE  ProcessInv' /\ \A s : ~Now(s)'
<1>1. command' = "none" /\ stages' = <<>> /\ todo' = <<>> /\ options' = options
  BY DEF Ends
<1>2. ProcessInv'
  BY <1>1, NoneFacts DEF ProcessInv
<1> QED BY <1>1, <1>2 DEF Now

(* A command starts with all of its stages to come.                        *)
LEMMA StartStep ==
  ASSUME ProcessInv, NEW c \in Commands, NEW force, NEW contract \in Contracts, Start(c, force, contract)
  PROVE  ProcessInv' /\ (\A s : ~Now(s)') /\ Ran' = 0
<1>1. /\ command' = c /\ stages' = Stages(c) /\ todo' = <<>> /\ last' = Absent
      /\ options'.contract \in Names \cup {Absent}
  BY ContractsAssumption DEF Start
<1>2. Stages(c) \in Seq(StageNames) /\ Len(Stages(c)) \in Nat \ {0} /\ IsRest(Stages(c), Stages(c))
  BY StagesFacts, RestOfAll
<1>3. stages' # <<>>
  BY <1>1, <1>2
<1>4. ProcessInv'
  BY <1>1, <1>2, <1>3, NoneFacts DEF ProcessInv
<1>5. Ran' = 0
  BY <1>1, <1>2 DEF Ran
<1> QED BY <1>4, <1>5 DEF Now

-----------------------------------------------------------------------------
(***************************************************************************)
(* The files.                                                              *)
(***************************************************************************)
FilesType ==
  /\ source \in Versions /\ vyper \in BOOLEAN
  /\ hex = [runtime |-> hex.runtime, creation |-> hex.creation]
  /\ own = [n \in Names |-> [abi |-> own[n].abi, ast |-> own[n].ast, build |-> own[n].build]]
  /\ lean = [f \in LeanFiles |-> lean[f]]

(* One of several files is written, the others stay.                       *)
LEMMA HexWritten ==
  ASSUME FilesType, NEW f \in {"runtime", "creation"}, NEW x, hex' = [hex EXCEPT ![f] = x]
  PROVE  /\ hex' = [runtime |-> hex'.runtime, creation |-> hex'.creation]
         /\ hex'.runtime = IF f = "runtime" THEN x ELSE hex.runtime
         /\ hex'.creation = IF f = "creation" THEN x ELSE hex.creation
<1>1. CASE f = "runtime"
  BY <1>1 DEF FilesType
<1>2. CASE f = "creation"
  BY <1>2 DEF FilesType
<1> QED BY <1>1, <1>2

LEMMA FieldWritten ==
  ASSUME NEW o, o = [abi |-> o.abi, ast |-> o.ast, build |-> o.build],
         NEW f \in {"abi", "ast", "build"}, NEW x, NEW p, p = [o EXCEPT ![f] = x]
  PROVE  /\ p = [abi |-> p.abi, ast |-> p.ast, build |-> p.build]
         /\ p.abi = IF f = "abi" THEN x ELSE o.abi
         /\ p.ast = IF f = "ast" THEN x ELSE o.ast
         /\ p.build = IF f = "build" THEN x ELSE o.build
<1>1. CASE f = "abi"
  BY <1>1
<1>2. CASE f = "ast"
  BY <1>2
<1>3. CASE f = "build"
  BY <1>3
<1> QED BY <1>1, <1>2, <1>3

LEMMA OwnWritten ==
  ASSUME FilesType, NEW n \in Names, NEW p,
         p = [abi |-> p.abi, ast |-> p.ast, build |-> p.build], own' = [own EXCEPT ![n] = p]
  PROVE  /\ own' = [m \in Names |-> [abi |-> own'[m].abi, ast |-> own'[m].ast, build |-> own'[m].build]]
         /\ own'[n] = p /\ \A m \in Names \ {n} : own'[m] = own[m]
<1>1. /\ DOMAIN own = Names
      /\ \A m \in Names : own[m] = [abi |-> own[m].abi, ast |-> own[m].ast, build |-> own[m].build]
  BY DEF FilesType
<1>2. own' = [m \in Names |-> IF m = n THEN p ELSE own[m]]
  BY <1>1
<1>3. own'[n] = p /\ \A m \in Names \ {n} : own'[m] = own[m]
  BY <1>2
<1>4. \A m \in Names : own'[m] = [abi |-> own'[m].abi, ast |-> own'[m].ast, build |-> own'[m].build]
  BY <1>1, <1>3
<1> QED BY <1>2, <1>3, <1>4

LEMMA LeanWritten ==
  ASSUME FilesType, NEW f \in LeanFiles, NEW x, lean' = [lean EXCEPT ![f] = x]
  PROVE  /\ lean' = [g \in LeanFiles |-> lean'[g]]
         /\ lean'[f] = x /\ \A g \in LeanFiles \ {f} : lean'[g] = lean[g]
BY DEF FilesType

-----------------------------------------------------------------------------
(***************************************************************************)
(* A compilation: of a version that the compiler takes, with the files     *)
(* written that are not to come.                                           *)
(***************************************************************************)
CompileWrites(v) ==
  IF ~vyper THEN SolcWrites
  ELSE IF Compiled[v].supported THEN VyperWrites ELSE Each(<<"ast", "unsupported">>)

(* A version with a build.json.                                            *)
Buildable(v) ==
  v \in Versions /\ (vyper => TRUE \in Compiled[v].compiles /\ Compiled[v].supported)

Written(v) ==
  LET c    == Compiled[v]
      n    == read.name
      left == Len(todo)
  IN /\ left <= 1 => own[n].build = Made(v, n)
     /\ ~vyper => /\ left <= 5 => hex.runtime = c.runtime
                  /\ left <= 4 => hex.creation = c.creation
                  /\ left <= 3 => own[n].abi = c.abi
                  /\ left <= 2 => own[n].ast = v
     /\ vyper  => /\ left <= 5 => own[n].ast = v
                  /\ left <= 4 => hex.runtime = c.runtime
                  /\ left <= 3 => hex.creation = c.creation
                  /\ left <= 2 => own[n].abi = c.abi

CompileInv ==
  Now("compile") =>
    /\ read.version \in Versions /\ vyper \in Compiled[read.version].compiles
    /\ read.name \in Names /\ (~vyper => read.name = Compiled[read.version].name)
    /\ IsRest(todo, CompileWrites(read.version))
    /\ Buildable(read.version) => Written(read.version)
    /\ ~Buildable(read.version) => todo # <<>>

OthersInv ==
  ~Now("compile") => \A m \in 1..Len(todo) : todo[m].what \notin Artifacts \cup {"unsupported"}

(* sources.sha256, build.json and the module with the bytecode say what    *)
(* they were made from.                                                    *)
HashesInv ==
  hashes # Absent =>
    /\ Buildable(hashes.compiled)
    /\ hashes.name \in Names
    /\ ~vyper => hashes.name = Compiled[hashes.compiled].name
    /\ hashes.hex.runtime = Compiled[hashes.compiled].runtime
    /\ hashes.hex.creation = Compiled[hashes.compiled].creation
    /\ hashes.abi = Compiled[hashes.compiled].abi
    /\ hashes.ast = hashes.compiled
    /\ own[hashes.name].build # Absent

HexInv ==
  /\ hex.runtime # Absent => \E v \in Versions : hex.runtime = Compiled[v].runtime
  /\ hex.creation # Absent => \E v \in Versions : hex.creation = Compiled[v].creation

BuildsInv ==
  \A n \in Names : own[n].build # Absent =>
    \E v \in Versions : Buildable(v) /\ own[n].build = Made(v, n)

BytecodeInv ==
  lean["Bytecode"] # Absent =>
    lean["Bytecode"] = BytecodeText(lean["Bytecode"].name, lean["Bytecode"])

(* build.json agrees with sources.sha256, or with the other files of its   *)
(* contract, unless a compilation is between them; and as long as no       *)
(* command was interrupted, it agrees with sources.sha256 but for the last *)
(* write of a compilation.                                                 *)
Compiling(n) ==
  Now("compile") /\ Buildable(read.version) /\ read.name = n
Between(n)  == Compiling(n) /\ Len(todo) >= 2 /\ Len(todo) <= IF vyper THEN 2 ELSE 3
Unhashed(n) == Compiling(n) /\ Len(todo) = 1

AgreesWithFiles(n) ==
  /\ own[n].build.abi = own[n].abi
  /\ ~vyper => own[n].ast = own[n].build.version

InterruptsInv ==
  /\ interrupts \in Nat
  /\ hashes # Absent =>
       LET n == hashes.name IN
       /\ interrupts = 0 => own[n].build = Made(hashes.compiled, n) \/ Unhashed(n)
       /\ interrupts < 2 => \/ own[n].build = Made(hashes.compiled, n)
                            \/ AgreesWithFiles(n)
                            \/ Between(n)

(* A verdict is about the directory as it still is.                        *)
VerdictInv == last # Absent => last.options = options /\ (Approved => Agreed)

DirectoryInv == FilesType /\ HexInv /\ HashesInv /\ BuildsInv /\ BytecodeInv

PipelineInv ==
  DirectoryInv /\ ProcessInv /\ CompileInv /\ OthersInv /\ InterruptsInv /\ VerdictInv

-----------------------------------------------------------------------------
(***************************************************************************)
(* Steps that leave the files alone.                                       *)
(***************************************************************************)
LEMMA DirectoryKept ==
  ASSUME DirectoryInv, source' \in Versions, UNCHANGED <<vyper, hex, own, hashes, lean>>
  PROVE  DirectoryInv'
<1>1. hex' = hex /\ own' = own /\ hashes' = hashes /\ lean' = lean /\ vyper' = vyper
  OBVIOUS
<1>2. \A v : Buildable(v)' <=> Buildable(v)
  BY <1>1 DEF Buildable
<1>3. FilesType'
  BY <1>1 DEF DirectoryInv, FilesType
<1>4. HexInv'
  BY <1>1 DEF DirectoryInv, HexInv
<1>5. HashesInv'
  BY <1>1, <1>2 DEF DirectoryInv, HashesInv
<1>6. BuildsInv'
  BY <1>1, <1>2 DEF DirectoryInv, BuildsInv
<1>7. BytecodeInv'
  BY <1>1 DEF DirectoryInv, BytecodeInv
<1> QED BY <1>3, <1>4, <1>5, <1>6, <1>7 DEF DirectoryInv

(* Steps that bring a compilation no further and change no hashes.         *)
LEMMA InterruptsKept ==
  ASSUME InterruptsInv, UNCHANGED <<vyper, hashes, interrupts>>,
         hashes # Absent => UNCHANGED own,
         \A n : (Unhashed(n) => Unhashed(n)') /\ (Between(n) => Between(n)')
  PROVE  InterruptsInv'
BY DEF InterruptsInv, AgreesWithFiles

(* With nothing to write, no compilation is between two files.             *)
LEMMA NotReading ==
  ASSUME todo = <<>>
  PROVE  \A n : ~Unhashed(n) /\ ~Between(n)
<1>1. Len(todo) = 0
  OBVIOUS
<1> QED BY <1>1 DEF Unhashed, Between

(***************************************************************************)
(* A stage other than "compile" reads what it needs.                       *)
(***************************************************************************)
LEMMA ReadsOther ==
  ASSUME PipelineInv, NEW stage, stage # "check", stage # "compile", NEW what, NEW writes \in Seq(Jobs),
         \A m \in 1..Len(writes) : writes[m].what \notin Artifacts \cup {"unsupported"},
         Reads(stage, what, writes)
  PROVE  PipelineInv'
<1>1. ProcessInv' /\ ~Now("compile")'
  <2>1. ProcessInv
    BY DEF PipelineInv
  <2>2. ProcessInv' /\ \A s : Now(s)' <=> s = stage
    BY <2>1, ReadsStep
  <2>3. Now("compile")' <=> "compile" = stage
    BY <2>2
  <2> QED BY <2>2, <2>3
<1>2. /\ UNCHANGED <<vyper, source, files, interrupts>> /\ todo' = writes /\ last' = last
      /\ command # "none" /\ todo = <<>>
  BY DEF Reads, At, inputs, bounds
<1>3. DirectoryInv'
  BY <1>2, DirectoryKept DEF PipelineInv, DirectoryInv, FilesType, files
<1>4. InterruptsInv'
  BY <1>2, NotReading, InterruptsKept DEF PipelineInv, files
<1>5. last' = Absent
  BY <1>2 DEF PipelineInv, ProcessInv
<1>6. CompileInv' /\ OthersInv'
  BY <1>1, <1>2 DEF CompileInv, OthersInv
<1> QED BY <1>1, <1>3, <1>4, <1>5, <1>6 DEF PipelineInv, VerdictInv

(* The lists of other stages name none of the compiler's files.            *)
LEMMA OtherEach ==
  ASSUME NEW w \in Seq(Whats), \A m \in 1..Len(w) : w[m] \notin Artifacts \cup {"unsupported"}
  PROVE  /\ Each(w) \in Seq(Jobs)
         /\ \A m \in 1..Len(Each(w)) : Each(w)[m].what \notin Artifacts \cup {"unsupported"}
BY EachFacts

(* The lists of "lean", with immutables or without.                        *)
LEMMA LeanWritesFacts ==
  ASSUME NEW build
  PROVE  /\ LeanWrites(build) \in Seq(Jobs)
         /\ Len(LeanWrites(build)) = IF Immutables(build) # {} THEN 4 ELSE 2
         /\ LeanWrites(build)[1].what = "Bytecode" /\ LeanWrites(build)[2].what = "Selectors"
         /\ Immutables(build) # {} => /\ LeanWrites(build)[3].what = "Immutables"
                                      /\ LeanWrites(build)[4].what = "ImmutableCode"
         /\ \A m \in 1..Len(LeanWrites(build)) :
              LeanWrites(build)[m].what \notin Artifacts \cup {"unsupported"}
<1> DEFINE w == <<"Bytecode", "Selectors">>
                 \o IF Immutables(build) # {} THEN <<"Immutables", "ImmutableCode">> ELSE <<>>
<1>1. /\ w \in Seq(Whats) /\ Len(w) = IF Immutables(build) # {} THEN 4 ELSE 2
      /\ w[1] = "Bytecode" /\ w[2] = "Selectors"
      /\ Immutables(build) # {} => w[3] = "Immutables" /\ w[4] = "ImmutableCode"
  <2>1. CASE Immutables(build) # {}
    <3> DEFINE s == <<"Bytecode", "Selectors">>
               t == <<"Immutables", "ImmutableCode">>
    <3>1. s \in Seq(Whats) /\ Len(s) = 2 /\ s[1] = "Bytecode" /\ s[2] = "Selectors"
      BY FewOf DEF Whats, LeanFiles
    <3>2. t \in Seq(Whats) /\ Len(t) = 2 /\ t[1] = "Immutables" /\ t[2] = "ImmutableCode"
      BY FewOf DEF Whats, LeanFiles
    <3>3. w = s \o t
      BY <2>1
    <3> HIDE DEF s, t, w
    <3>4. /\ s \o t \in Seq(Whats) /\ Len(s \o t) = 4
          /\ (s \o t)[1] = s[1] /\ (s \o t)[2] = s[2] /\ (s \o t)[3] = t[1] /\ (s \o t)[4] = t[2]
      <4>1. /\ s \o t \in Seq(Whats) /\ Len(s \o t) = Len(s) + Len(t)
            /\ \A m \in 1..(Len(s) + Len(t)) :
                 (s \o t)[m] = IF m <= Len(s) THEN s[m] ELSE t[m - Len(s)]
        <5>1. s \in Seq(Whats) /\ t \in Seq(Whats)
          BY <3>1, <3>2
        <5> QED BY <5>1, ConcatProperties
      <4> QED BY <3>1, <3>2, <4>1
    <3> QED BY <2>1, <3>1, <3>2, <3>3, <3>4
  <2>2. CASE Immutables(build) = {}
    <3>1. w = <<"Bytecode", "Selectors">>
      BY <2>2
    <3>2. <<"Bytecode", "Selectors">> \in Seq(Whats)
      BY DEF Whats, LeanFiles
    <3> QED BY <2>2, <3>1, <3>2
  <2> QED BY <2>1, <2>2
<1>2. \A m \in 1..Len(w) : w[m] \notin Artifacts \cup {"unsupported"}
  BY <1>1 DEF Artifacts
<1>3. LeanWrites(build) = Each(w)
  BY DEF LeanWrites
<1> HIDE DEF w
<1>4. /\ Each(w) \in Seq(Jobs) /\ Len(Each(w)) = Len(w)
      /\ \A m \in 1..Len(w) : Each(w)[m].what = w[m]
  BY <1>1, EachFacts
<1> QED BY <1>1, <1>2, <1>3, <1>4

(* The list of "lean" without a table.                                     *)
LEMMA TablelessFacts ==
  LET w == TablelessWrites IN
    /\ w \in Seq(Jobs) /\ Len(w) = 2 /\ w[1].what = "Bytecode" /\ w[2].what = "no table"
    /\ \A m \in 1..Len(w) : w[m].what \notin Artifacts \cup {"unsupported"}
<1> DEFINE w == <<"Bytecode", "no table">>
<1>1. w \in Seq(Whats) /\ Len(w) = 2 /\ w[1] = "Bytecode" /\ w[2] = "no table"
  BY FewOf DEF Whats, LeanFiles
<1>2. TablelessWrites = Each(w)
  BY DEF TablelessWrites
<1> HIDE DEF w
<1>3. /\ Each(w) \in Seq(Jobs) /\ Len(Each(w)) = 2
      /\ Each(w)[1].what = "Bytecode" /\ Each(w)[2].what = "no table"
  <2>1. /\ Each(w) \in Seq(Jobs) /\ Len(Each(w)) = Len(w)
        /\ \A m \in 1..Len(w) : Each(w)[m].what = w[m]
    BY <1>1, EachFacts
  <2>2. 1 \in 1..2 /\ 2 \in 1..2
    OBVIOUS
  <2> QED BY <1>1, <2>1, <2>2
<1>4. \A m \in 1..Len(Each(w)) : Each(w)[m].what \notin Artifacts \cup {"unsupported"}
  <2>1. \A m \in 1..2 : m = 1 \/ m = 2
    OBVIOUS
  <2> QED BY <1>3, <2>1 DEF Artifacts
<1> QED BY <1>2, <1>3, <1>4

(* The list of "difftest".                                                 *)
LEMMA DiffTestFacts ==
  LET w == Each(<<"DiffTarget", "registry">>) IN
    /\ w \in Seq(Jobs) /\ Len(w) = 2 /\ w[1].what = "DiffTarget" /\ w[2].what = "registry"
    /\ \A m \in 1..Len(w) : w[m].what \notin Artifacts \cup {"unsupported"}
<1> DEFINE w == <<"DiffTarget", "registry">>
<1>1. w \in Seq(Whats) /\ Len(w) = 2 /\ w[1] = "DiffTarget" /\ w[2] = "registry"
  BY FewOf DEF Whats, LeanFiles
<1> HIDE DEF w
<1>2. /\ Each(w) \in Seq(Jobs) /\ Len(Each(w)) = 2
      /\ Each(w)[1].what = "DiffTarget" /\ Each(w)[2].what = "registry"
  BY <1>1, EachFacts
<1>3. \A m \in 1..Len(Each(w)) : Each(w)[m].what \notin Artifacts \cup {"unsupported"}
  <2>1. \A m \in 1..2 : m = 1 \/ m = 2
    OBVIOUS
  <2> QED BY <1>2, <2>1 DEF Artifacts
<1> QED BY <1>2, <1>3 DEF w

(* The lists of "blocks": every shard, then the index.                     *)
LEMMA ShardWritesFacts ==
  ASSUME NEW code, code.shards \in Nat
  PROVE  /\ ShardWrites(code) \in Seq(Jobs) /\ Len(ShardWrites(code)) = code.shards + 1
         /\ \A m \in 1..code.shards :
              ShardWrites(code)[m].what = "shard" /\ ShardWrites(code)[m].n = m
         /\ ShardWrites(code)[code.shards + 1].what = "index"
         /\ \A m \in 1..Len(ShardWrites(code)) :
              ShardWrites(code)[m].what \notin Artifacts \cup {"unsupported"}
<1> DEFINE k == code.shards
           s == [n \in 1..k |-> [what |-> "shard", n |-> n]]
           i == <<File("index")>>
<1>1. s \in Seq(Jobs) /\ Len(s) = k /\ \A m \in 1..k : s[m].what = "shard" /\ s[m].n = m
  <2>1. \A m \in 1..k : [what |-> "shard", n |-> m] \in Jobs
    BY DEF Jobs, Whats
  <2>2. s \in [1..k -> Jobs]
    BY <2>1
  <2>3. s \in Seq(Jobs) /\ Len(s) = k
    BY <2>2
  <2> QED BY <2>3
<1>2. i \in Seq(Jobs) /\ Len(i) = 1 /\ i[1].what = "index"
  BY DEF File, Jobs, Whats
<1>3. ShardWrites(code) = s \o i
  BY DEF ShardWrites
<1>4. k \in Nat
  OBVIOUS
<1> HIDE DEF s, i, k
<1>5. /\ s \o i \in Seq(Jobs) /\ Len(s \o i) = k + 1
      /\ \A m \in 1..k : (s \o i)[m] = s[m]
      /\ (s \o i)[k + 1] = i[1]
  <2>1. /\ s \o i \in Seq(Jobs) /\ Len(s \o i) = Len(s) + Len(i)
        /\ \A m \in 1..(Len(s) + Len(i)) :
             (s \o i)[m] = IF m <= Len(s) THEN s[m] ELSE i[m - Len(s)]
    <3>1. s \in Seq(Jobs) /\ i \in Seq(Jobs)
      BY <1>1, <1>2
    <3> QED BY <3>1, ConcatProperties
  <2>2. Len(s) = k /\ Len(s) + Len(i) = k + 1
    BY <1>1, <1>2, <1>4
  <2>3. \A m \in 1..k : m \in 1..(k + 1) /\ m <= k
    BY <1>4
  <2>4. k + 1 \in 1..(k + 1) /\ ~(k + 1 <= k) /\ k + 1 - k = 1
    BY <1>4
  <2> QED BY <2>1, <2>2, <2>3, <2>4
<1>6. \A m \in 1..k + 1 : m \in 1..k \/ m = k + 1
  BY <1>4
<1>7. \A m \in 1..k + 1 : (s \o i)[m].what \notin Artifacts \cup {"unsupported"}
  BY <1>1, <1>2, <1>5, <1>6 DEF Artifacts
<1>8. /\ \A m \in 1..k : (s \o i)[m].what = "shard" /\ (s \o i)[m].n = m
      /\ (s \o i)[k + 1].what = "index" /\ Len(s \o i) = k + 1
  BY <1>1, <1>2, <1>5
<1> QED BY <1>3, <1>5, <1>7, <1>8 DEF k

(* "lean", "difftest" and the two parts of "blocks" begin.                 *)
LEMMA OtherStages ==
  ASSUME PipelineInv, Lean \/ DiffTest \/ Blocks \/ Creation
  PROVE  PipelineInv'
<1>1. CASE Lean
  <2>1. PICK build, what :
          \/ Reads("lean", what, LeanWrites(build))
          \/ Reads("lean", what, TablelessWrites)
    BY <1>1 DEF Lean
  <2> QED BY <2>1, LeanWritesFacts, TablelessFacts, ReadsOther
<1>2. CASE DiffTest
  <2>1. PICK what : Reads("difftest", what, Each(<<"DiffTarget", "registry">>))
    BY <1>2 DEF DiffTest
  <2> QED BY <2>1, DiffTestFacts, ReadsOther
<1>3. CASE Blocks
  <2>1. hex.runtime.shards \in Nat
    BY <1>3, ShardsAssumption DEF Blocks, CanBlocks, PipelineInv, DirectoryInv, HexInv
  <2>2. Reads("blocks", [family |-> "RuntimeBlocks", code |-> hex.runtime], ShardWrites(hex.runtime))
    BY <1>3 DEF Blocks
  <2> QED BY <2>1, <2>2, ShardWritesFacts, ReadsOther
<1>4. CASE Creation
  <2>1. CASE hex.creation = Absent
    <3>1. Reads("creation", [family |-> "CreationBlocks", code |-> hex.creation], <<>>)
      BY <1>4, <2>1 DEF Creation
    <3>2. <<>> \in Seq(Jobs) /\ \A m \in 1..Len(<<>>) : <<>>[m].what \notin Artifacts \cup {"unsupported"}
      OBVIOUS
    <3> QED BY <3>1, <3>2, ReadsOther
  <2>2. CASE hex.creation # Absent
    <3>1. hex.creation.shards \in Nat
      BY <2>2, ShardsAssumption DEF PipelineInv, DirectoryInv, HexInv
    <3>2. Reads("creation", [family |-> "CreationBlocks", code |-> hex.creation], ShardWrites(hex.creation))
      BY <1>4, <2>2 DEF Creation
    <3> QED BY <3>1, <3>2, ShardWritesFacts, ReadsOther
  <2> QED BY <2>1, <2>2
<1> QED BY <1>1, <1>2, <1>3, <1>4

(***************************************************************************)
(* "compile" reads the sources.                                            *)
(***************************************************************************)
LEMMA CompileWritesFacts ==
  ASSUME NEW v
  PROVE  /\ CompileWrites(v) \in Seq(Jobs)
         /\ Len(CompileWrites(v)) = IF vyper /\ ~Compiled[v].supported THEN 2 ELSE 6
BY SolcFacts, VyperFacts, UnsupportedFacts DEF CompileWrites

(* A compilation begins.                                                   *)
LEMMA ReadsSources ==
  ASSUME PipelineInv, Compile \/ CompileVyper
  PROVE  PipelineInv'
<1>1. /\ Reads("compile", Sources, CompileWrites(source))
      /\ vyper \in Compiled[source].compiles
      /\ vyper \/ options.contract \in {Absent, Compiled[source].name}
  BY DEF Compile, CompileVyper, CanCompile, CompileWrites
<1>2. /\ UNCHANGED <<vyper, source, files, interrupts>> /\ todo' = CompileWrites(source)
      /\ read' = Sources /\ last' = last /\ command # "none" /\ todo = <<>>
  BY <1>1 DEF Reads, At, inputs, bounds
<1>3. ProcessInv' /\ Now("compile")'
  <2>1. ProcessInv
    BY DEF PipelineInv
  <2>2. ProcessInv' /\ \A s : Now(s)' <=> s = "compile"
    BY <1>1, <2>1, CompileWritesFacts, ReadsStep
  <2> QED BY <2>2
<1>4. DirectoryInv'
  BY <1>2, DirectoryKept DEF PipelineInv, DirectoryInv, FilesType, files
<1>5. InterruptsInv'
  BY <1>2, NotReading, InterruptsKept DEF PipelineInv, files
<1>6. last' = Absent
  BY <1>2 DEF PipelineInv, ProcessInv
<1>7. CompileInv'
  <2>1. source \in Versions /\ source' = source /\ read'.version = source
    BY <1>2 DEF PipelineInv, DirectoryInv, FilesType, Sources
  <2>8. read'.name \in Names /\ (~vyper' => read'.name = Compiled[source].name)
    <3>1. read'.name = CompiledName /\ vyper' = vyper
      BY <1>2 DEF Sources
    <3>2. options.contract \in Names \cup {Absent} /\ Compiled[source].name \in Names
      BY <2>1, CompiledAssumption DEF PipelineInv, ProcessInv
    <3> QED BY <1>1, <3>1, <3>2 DEF CompiledName
  <2>2. /\ CompileWrites(source)' = CompileWrites(source)
        /\ Buildable(source)' = Buildable(source)
    BY <1>2, <2>1 DEF CompileWrites, Buildable
  <2>3. IsRest(todo, CompileWrites(source))'
    BY <1>2, <2>2, CompileWritesFacts, RestOfAll
  <2>4. Len(todo') = IF vyper /\ ~Compiled[source].supported THEN 2 ELSE 6
    BY <1>2, CompileWritesFacts
  <2>5. Buildable(source) => ~(vyper /\ ~Compiled[source].supported)
    BY DEF Buildable
  <2>6. Buildable(source) => Written(source)'
    BY <2>4, <2>5 DEF Written
  <2>7. todo' # <<>>
    BY <2>4
  <2> QED BY <1>1, <1>2, <2>1, <2>2, <2>3, <2>6, <2>7, <2>8 DEF CompileInv
<1>8. OthersInv'
  BY <1>3 DEF OthersInv
<1> QED BY <1>3, <1>4, <1>5, <1>6, <1>7, <1>8 DEF PipelineInv, VerdictInv

(***************************************************************************)
(* A command ends.                                                         *)
(***************************************************************************)
LEMMA AgreedKept ==
  ASSUME UNCHANGED <<inputs, files, options>>
  PROVE  Agreed' <=> Agreed
<1>1. /\ vyper' = vyper /\ source' = source /\ spec' = spec /\ options' = options
      /\ hex' = hex /\ own' = own /\ hashes' = hashes /\ lean' = lean
  BY DEF inputs, files
<1>2. Builds' = Builds /\ FirstBuild' = FirstBuild /\ Abis' = Abis
  BY <1>1 DEF Builds, FirstBuild, Abis
<1>3. ContractName' = ContractName
  BY <1>1, <1>2 DEF ContractName
<1>4. \A n : /\ FindBuild(n)' = FindBuild(n) /\ HasTable(n)' = HasTable(n)
             /\ SelectorTable(n)' = SelectorTable(n)
  BY <1>1, <1>2 DEF FindBuild, HasTable, SelectorTable
<1> QED BY <1>1, <1>3, <1>4 DEF Agreed, BytecodeAgrees, ImmutablesAgree, Found, HashesHold

(* The invariant at the end of a command whose success is justified.       *)
LEMMA EndsKeeps ==
  ASSUME PipelineInv, NEW status, Ends(status),
         status = "ok" /\ command \in {"all", "check"} => Agreed,
         InterruptsInv'
  PROVE  PipelineInv'
<1>1. ProcessInv' /\ ~Now("compile")' /\ todo' = <<>>
  BY EndsStep DEF PipelineInv, Ends
<1>2. /\ UNCHANGED <<vyper, source, inputs, files, options>>
      /\ last' = [command |-> command, options |-> options, status |-> status,
                  undisturbed |-> undisturbed]
  BY DEF Ends, inputs
<1>3. DirectoryInv'
  BY <1>2, DirectoryKept DEF PipelineInv, DirectoryInv, FilesType, files
<1>4. CompileInv' /\ OthersInv'
  <2>1. Len(todo') = 0
    BY <1>1
  <2> QED BY <1>1, <2>1 DEF CompileInv, OthersInv
<1>5. Agreed' <=> Agreed
  BY <1>2, AgreedKept
<1>6. VerdictInv'
  BY <1>2, <1>5 DEF VerdictInv, Approved
<1> QED BY <1>1, <1>3, <1>4, <1>6 DEF PipelineInv

(* A command ends because a stage decides so.                              *)
LEMMA EndOfStage ==
  ASSUME PipelineInv, NEW stage, NEW status, At(stage), End(status),
         status = "ok" => Agreed
  PROVE  PipelineInv'
<1>1. Ends(status) /\ UNCHANGED <<vyper, hashes, own, interrupts>> /\ todo = <<>>
  BY DEF End, Ends, At, files, inputs
<1>2. InterruptsInv'
  BY <1>1, NotReading, InterruptsKept DEF PipelineInv
<1> QED BY <1>1, <1>2, EndsKeeps

(* A stage fails.                                                          *)
LEMMA FailedStages ==
  ASSUME PipelineInv,
         CompileFails \/ LeanFails \/ DiffTestFails \/ BlocksFail \/ CheckFails
  PROVE  PipelineInv'
<1>1. PICK stage : At(stage) /\ End("failed")
  BY DEF CompileFails, LeanFails, DiffTestFails, BlocksFail, CheckFails, Fails
<1> QED BY <1>1, EndOfStage

(* "check" approves the directory.                                         *)
LEMMA Checked ==
  ASSUME PipelineInv, Check
  PROVE  PipelineInv'
BY EndOfStage DEF Check

(* The stages are through.                                                 *)
LEMMA Finished ==
  ASSUME PipelineInv, Finish
  PROVE  PipelineInv'
<1>1. Ends("ok") /\ UNCHANGED <<vyper, hashes, own, interrupts>> /\ todo = <<>> /\ stages = <<>>
  BY DEF Finish, End, Ends, files, inputs
<1>2. InterruptsInv'
  BY <1>1, NotReading, InterruptsKept DEF PipelineInv
<1>3. command \notin {"all", "check"}
  BY <1>1 DEF PipelineInv, ProcessInv
<1> QED BY <1>1, <1>2, <1>3, EndsKeeps

(***************************************************************************)
(* "compile" writes a file: how many are left says which.                  *)
(***************************************************************************)
Left(f) ==
  IF vyper
  THEN CASE f = "ast" -> 6 [] f = "runtime" -> 5 [] f = "creation" -> 4
         [] f = "abi" -> 3 [] f = "build" -> 2 [] f = "hashes" -> 1
  ELSE CASE f = "runtime" -> 6 [] f = "creation" -> 5 [] f = "abi" -> 4
         [] f = "ast" -> 3 [] f = "build" -> 2 [] f = "hashes" -> 1

(* The file that is next says which ones are written.                      *)
LEMMA CompileOrder ==
  ASSUME NEW v, v \in Versions, vyper \in BOOLEAN, vyper => TRUE \in Compiled[v].compiles,
         NEW k \in 1..Len(CompileWrites(v)),
         NEW f, f = CompileWrites(v)[Len(CompileWrites(v)) - k + 1].what
  PROVE  /\ Buildable(v) => f \in Artifacts /\ k \in 1..6 /\ k = Left(f)
         /\ ~Buildable(v) => \/ k = 2 /\ f = "ast"
                             \/ k = 1 /\ f = "unsupported"
<1>1. CASE ~vyper
  <2>1. Buildable(v) /\ CompileWrites(v) = SolcWrites
    BY <1>1 DEF Buildable, CompileWrites
  <2>2. k \in 1..6 /\ f = SolcWrites[7 - k].what
    BY <2>1, SolcFacts
  <2>3. k = 1 \/ k = 2 \/ k = 3 \/ k = 4 \/ k = 5 \/ k = 6
    BY <2>2
  <2>4. f \in Artifacts /\ k = Left(f)
    BY <1>1, <2>2, <2>3, SolcFacts DEF Left, Artifacts
  <2> QED BY <2>1, <2>2, <2>4
<1>2. CASE vyper /\ Compiled[v].supported
  <2>1. Buildable(v) /\ CompileWrites(v) = VyperWrites
    BY <1>2 DEF Buildable, CompileWrites
  <2>2. k \in 1..6 /\ f = VyperWrites[7 - k].what
    BY <2>1, VyperFacts
  <2>3. k = 1 \/ k = 2 \/ k = 3 \/ k = 4 \/ k = 5 \/ k = 6
    BY <2>2
  <2>4. f \in Artifacts /\ k = Left(f)
    BY <1>2, <2>2, <2>3, VyperFacts DEF Left, Artifacts
  <2> QED BY <2>1, <2>2, <2>4
<1>3. CASE vyper /\ ~Compiled[v].supported
  <2>1. ~Buildable(v) /\ CompileWrites(v) = Each(<<"ast", "unsupported">>)
    BY <1>3 DEF Buildable, CompileWrites
  <2>2. PICK w : w = CompileWrites(v)
    OBVIOUS
  <2>3. Len(w) = 2 /\ w[1].what = "ast" /\ w[2].what = "unsupported"
    BY <2>1, <2>2, UnsupportedFacts
  <2>4. k \in 1..2 /\ f = w[2 - k + 1].what
    BY <2>2, <2>3
  <2>5. \/ k = 1 /\ f = w[2].what
        \/ k = 2 /\ f = w[1].what
    BY <2>4
  <2> QED BY <2>1, <2>3, <2>5
<1> QED BY <1>1, <1>2, <1>3

(* The compiler's file that is next is one of these.                       *)
LEMMA NextArtifact ==
  ASSUME PipelineInv, todo # <<>>, Head(todo).what \in Artifacts \cup {"unsupported"}
  PROVE  /\ Now("compile") /\ read.version \in Versions
         /\ Len(todo) \in Nat /\ Len(todo) >= 1
         /\ Buildable(read.version) => /\ Head(todo).what \in Artifacts
                                       /\ Len(todo) \in 1..6
                                       /\ Len(todo) = Left(Head(todo).what)
         /\ ~Buildable(read.version) => \/ Len(todo) = 2 /\ Head(todo).what = "ast"
                                        \/ Len(todo) = 1 /\ Head(todo).what = "unsupported"
<1>1. todo \in Seq(Jobs) /\ todo # <<>>
  BY DEF PipelineInv, ProcessInv
<1>2. Len(todo) \in Nat /\ Len(todo) >= 1 /\ Head(todo) = todo[1] /\ 1 \in 1..Len(todo)
  BY <1>1
<1>3. Now("compile")
  BY <1>2 DEF PipelineInv, OthersInv
<1> DEFINE v == read.version
<1>4. /\ v \in Versions /\ vyper \in Compiled[v].compiles /\ vyper \in BOOLEAN
      /\ IsRest(todo, CompileWrites(v)) /\ CompileWrites(v) \in Seq(Jobs)
  BY <1>3, CompileWritesFacts DEF PipelineInv, CompileInv, DirectoryInv, FilesType
<1>5. vyper => TRUE \in Compiled[v].compiles
  BY <1>4
<1>6. /\ Len(todo) \in 1..Len(CompileWrites(v)) /\ Len(CompileWrites(v)) \in Nat
      /\ Head(todo) = CompileWrites(v)[Len(CompileWrites(v)) - Len(todo) + 1]
  BY <1>1, <1>4, RestOfRest
<1> HIDE DEF v
<1>7. /\ Buildable(v) => Head(todo).what \in Artifacts /\ Len(todo) \in 1..6
                         /\ Len(todo) = Left(Head(todo).what)
      /\ ~Buildable(v) => \/ Len(todo) = 2 /\ Head(todo).what = "ast"
                          \/ Len(todo) = 1 /\ Head(todo).what = "unsupported"
  BY <1>4, <1>5, <1>6, CompileOrder
<1> QED BY <1>2, <1>3, <1>4, <1>7 DEF v

(* Vyper's compilation stops after the AST.                                *)
LEMMA UnsupportedEnds ==
  ASSUME PipelineInv, Unsupported
  PROVE  PipelineInv'
<1>1. /\ todo # <<>> /\ Head(todo).what = "unsupported" /\ Ends("failed")
      /\ UNCHANGED <<vyper, hashes, own, interrupts>>
  BY DEF Unsupported, End, Ends, files, inputs
<1>2. ~Buildable(read.version)
  BY <1>1, NextArtifact DEF Artifacts
<1>3. \A n : ~Unhashed(n) /\ ~Between(n)
  BY <1>2 DEF Unhashed, Between, Compiling
<1>4. InterruptsInv'
  BY <1>1, <1>3, InterruptsKept DEF PipelineInv
<1> QED BY <1>1, <1>4, EndsKeeps

(***************************************************************************)
(* The first interruption can fall between build.json and sources.sha256,  *)
(* or between the ABI and build.json; the second one is one too many.      *)
(***************************************************************************)
LEMMA Interrupted ==
  ASSUME PipelineInv, Interrupt
  PROVE  PipelineInv'
<1>1. /\ Ends("interrupted") /\ interrupts' = interrupts + 1 /\ interrupts \in Nat
      /\ UNCHANGED <<vyper, hashes, own>>
  BY DEF Interrupt, Ends, files, inputs, PipelineInv, InterruptsInv
<1>2. ASSUME hashes # Absent, interrupts' < 2
      PROVE  \/ own[hashes.name].build = Made(hashes.compiled, hashes.name)
             \/ AgreesWithFiles(hashes.name)
  <2> DEFINE n == hashes.name
             v == read.version
  <2>1. interrupts = 0
    BY <1>1, <1>2
  <2>2. own[n].build = Made(hashes.compiled, n) \/ Unhashed(n)
    BY <1>2, <2>1 DEF PipelineInv, InterruptsInv
  <2>3. ASSUME Unhashed(n) PROVE AgreesWithFiles(n)
    <3>1. /\ Now("compile") /\ Buildable(v) /\ read.name = n /\ Len(todo) = 1
          /\ Written(v)
      BY <2>3 DEF Unhashed, Compiling, PipelineInv, CompileInv
    <3>2. own[n].build = Made(v, n) /\ own[n].abi = Compiled[v].abi /\ (~vyper => own[n].ast = v)
      BY <3>1 DEF Written, PipelineInv, DirectoryInv, FilesType
    <3> QED BY <3>2 DEF AgreesWithFiles, Made
  <2> QED BY <2>2, <2>3
<1>3. InterruptsInv'
  BY <1>1, <1>2 DEF InterruptsInv, AgreesWithFiles
<1> QED BY <1>1, <1>3, EndsKeeps

(***************************************************************************)
(* A file is written.                                                      *)
(***************************************************************************)
LEMMA ArtifactWritten ==
  ASSUME PipelineInv, NEW f \in Artifacts, Writes(f),
         Buildable(read.version) => Written(read.version)'
  PROVE  /\ CompileInv' /\ OthersInv' /\ ProcessInv'
         /\ last' = Absent /\ source' = source /\ vyper' = vyper /\ UNCHANGED interrupts
<1> DEFINE v == read.version
<1>1. /\ todo # <<>> /\ Head(todo).what = f /\ last' = last /\ read' = read
      /\ UNCHANGED <<source, vyper, interrupts>>
  BY DEF Writes, inputs, bounds
<1>2. /\ Now("compile") /\ v \in Versions
      /\ ~Buildable(v) => Len(todo) = 2
  BY <1>1, NextArtifact DEF Artifacts
<1>3. /\ ProcessInv' /\ last = Absent /\ (Now("compile")' <=> Now("compile"))
      /\ Len(todo') = Len(todo) - 1
      /\ \A t \in Seq(Jobs) : IsRest(todo, t) => IsRest(todo', t)
  BY WritesStep DEF PipelineInv
<1>4. /\ vyper \in Compiled[v].compiles
      /\ read.name \in Names /\ (~vyper => read.name = Compiled[v].name)
      /\ IsRest(todo, CompileWrites(v)) /\ CompileWrites(v) \in Seq(Jobs)
  BY <1>2, CompileWritesFacts DEF PipelineInv, CompileInv
<1>5. read'.version = v /\ Buildable(v)' = Buildable(v) /\ CompileWrites(v)' = CompileWrites(v)
  BY <1>1 DEF Buildable, CompileWrites
<1>6. ~Buildable(v) => todo' # <<>>
  BY <1>2, <1>3
<1>7. IsRest(todo, CompileWrites(v))'
  BY <1>3, <1>4, <1>5
<1>8. CompileInv'
  BY <1>1, <1>2, <1>4, <1>5, <1>6, <1>7 DEF CompileInv
<1>9. OthersInv'
  BY <1>2, <1>3 DEF OthersInv
<1> QED BY <1>1, <1>3, <1>8, <1>9

(* runtime.hex and creation.hex.                                           *)
LEMMA HexStep ==
  ASSUME PipelineInv, WriteHex
  PROVE  PipelineInv'
<1> DEFINE v == read.version
           c == Compiled[v]
<1>1. PICK f \in {"runtime", "creation"} :
        Writes(f) /\ hex' = [hex EXCEPT ![f] = Compiled[read.version][f]]
  BY DEF WriteHex
<1>2. /\ todo # <<>> /\ Head(todo).what = f /\ f \in Artifacts
      /\ UNCHANGED <<own, hashes, lean, read, vyper, source>>
  BY <1>1 DEF Writes, Artifacts, WriteHex, inputs
<1>3. /\ Now("compile") /\ v \in Versions /\ Buildable(v) /\ Len(todo) \in 1..6 /\ Len(todo) = Left(f)
      /\ Written(v)
  BY <1>1, <1>2, NextArtifact DEF PipelineInv, CompileInv
<1>4. Len(todo') = Len(todo) - 1
  BY <1>1, WritesStep DEF PipelineInv
<1>5. FilesType
  BY DEF PipelineInv, DirectoryInv
<1>6. /\ hex' = [runtime |-> hex'.runtime, creation |-> hex'.creation]
      /\ hex'.runtime = IF f = "runtime" THEN c[f] ELSE hex.runtime
      /\ hex'.creation = IF f = "creation" THEN c[f] ELSE hex.creation
  BY <1>1, <1>5, HexWritten
<1>7. /\ hex'.runtime = IF f = "runtime" THEN c.runtime ELSE hex.runtime
      /\ hex'.creation = IF f = "creation" THEN c.creation ELSE hex.creation
  BY <1>6
<1>8. Left(f) = IF f = "runtime" THEN IF vyper THEN 5 ELSE 6 ELSE IF vyper THEN 4 ELSE 5
  BY <1>1 DEF Left
<1>9. Written(v)'
  <2>1. CASE f = "runtime"
    BY <1>2, <1>3, <1>4, <1>7, <1>8, <2>1 DEF Written
  <2>2. CASE f = "creation"
    BY <1>2, <1>3, <1>4, <1>7, <1>8, <2>2 DEF Written
  <2> QED BY <1>1, <2>1, <2>2
<1>10. CompileInv' /\ OthersInv' /\ ProcessInv' /\ last' = Absent /\ UNCHANGED interrupts
  BY <1>1, <1>2, <1>9, ArtifactWritten
<1>11. InterruptsInv'
  <2>1. \A n : ~Unhashed(n) /\ ~Between(n)
    BY <1>3, <1>8 DEF Unhashed, Between
  <2> QED BY <1>2, <1>10, <2>1, InterruptsKept DEF PipelineInv
<1>12. DirectoryInv'
  <2>1. FilesType'
    BY <1>2, <1>5, <1>6 DEF FilesType
  <2>2. HexInv'
    BY <1>3, <1>7 DEF HexInv, PipelineInv, DirectoryInv
  <2>3. \A w : Buildable(w)' = Buildable(w)
    BY <1>2 DEF Buildable
  <2>4. HashesInv' /\ BuildsInv' /\ BytecodeInv'
    BY <1>2, <2>3 DEF HashesInv, BuildsInv, BytecodeInv, PipelineInv, DirectoryInv
  <2> QED BY <2>1, <2>2, <2>4 DEF DirectoryInv
<1> QED BY <1>10, <1>11, <1>12 DEF PipelineInv, VerdictInv

(* The files with the contract's name, build.json among them.              *)
LEMMA OwnStep ==
  ASSUME PipelineInv, WriteOwn
  PROVE  PipelineInv'
<1> DEFINE v == read.version
           c == Compiled[v]
           n == read.name
<1>1. PICK f \in {"abi", "ast", "build"} :
        /\ Writes(f)
        /\ own' = [own EXCEPT ![n] = [@ EXCEPT ![f] = CASE f = "abi" -> c.abi [] f = "ast" -> v
                                                        [] f = "build" -> Made(v, n)]]
  BY DEF WriteOwn
<1> DEFINE text == CASE f = "abi" -> c.abi [] f = "ast" -> v [] f = "build" -> Made(v, n)
<1>2. /\ todo # <<>> /\ Head(todo).what = f /\ f \in Artifacts
      /\ UNCHANGED <<hex, hashes, lean, read, vyper, source>>
  BY <1>1 DEF Writes, Artifacts, WriteOwn, inputs
<1>3. /\ Now("compile") /\ v \in Versions
      /\ Buildable(v) => Len(todo) \in 1..6 /\ Len(todo) = Left(f) /\ Written(v)
      /\ ~Buildable(v) => Len(todo) = 2 /\ f = "ast"
  BY <1>1, <1>2, NextArtifact DEF PipelineInv, CompileInv
<1>4. Len(todo') = Len(todo) - 1 /\ (Now("compile")' <=> Now("compile"))
  BY <1>1, WritesStep DEF PipelineInv
<1>5. FilesType /\ n \in Names
  BY <1>3 DEF PipelineInv, DirectoryInv, CompileInv
<1>6. /\ own' = [m \in Names |-> [abi |-> own'[m].abi, ast |-> own'[m].ast, build |-> own'[m].build]]
      /\ \A m \in Names \ {n} : own'[m] = own[m]
      /\ own'[n].abi = IF f = "abi" THEN text ELSE own[n].abi
      /\ own'[n].ast = IF f = "ast" THEN text ELSE own[n].ast
      /\ own'[n].build = IF f = "build" THEN text ELSE own[n].build
  <2>1. PICK k, x, o, p : /\ k \in Names /\ k = n /\ x = text /\ o = own[k]
                          /\ p = [o EXCEPT ![f] = x] /\ own' = [own EXCEPT ![k] = p]
    BY <1>1, <1>5
  <2>2. o = [abi |-> o.abi, ast |-> o.ast, build |-> o.build]
    BY <1>5, <2>1 DEF FilesType
  <2> HIDE DEF n, text
  <2>3. /\ p = [abi |-> p.abi, ast |-> p.ast, build |-> p.build]
        /\ p.abi = IF f = "abi" THEN x ELSE o.abi
        /\ p.ast = IF f = "ast" THEN x ELSE o.ast
        /\ p.build = IF f = "build" THEN x ELSE o.build
    BY <2>1, <2>2, FieldWritten
  <2>4. /\ own' = [m \in Names |-> [abi |-> own'[m].abi, ast |-> own'[m].ast, build |-> own'[m].build]]
        /\ own'[k] = p /\ \A m \in Names \ {k} : own'[m] = own[m]
    BY <1>5, <2>1, <2>3, OwnWritten
  <2> QED BY <2>1, <2>3, <2>4
<1>7. /\ own'[n].abi = IF f = "abi" THEN c.abi ELSE own[n].abi
      /\ own'[n].ast = IF f = "ast" THEN v ELSE own[n].ast
      /\ own'[n].build = IF f = "build" THEN Made(v, n) ELSE own[n].build
  BY <1>6
<1>8. /\ f = "abi" => Left(f) = IF vyper THEN 3 ELSE 4
      /\ f = "ast" => Left(f) = IF vyper THEN 6 ELSE 3
      /\ f = "build" => Left(f) = 2
  BY <1>1 DEF Left
<1> HIDE DEF text
<1>9. Buildable(v) => Written(v)'
  <2> SUFFICES ASSUME Buildable(v) PROVE Written(v)'
    OBVIOUS
  <2>1. CASE f = "abi"
    <3>1. CASE vyper
      BY <1>2, <1>3, <1>4, <1>7, <1>8, <2>1, <3>1 DEF Written
    <3>2. CASE ~vyper
      BY <1>2, <1>3, <1>4, <1>7, <1>8, <2>1, <3>2 DEF Written
    <3> QED BY <1>5, <3>1, <3>2
  <2>2. CASE f = "ast"
    <3>1. CASE vyper
      BY <1>2, <1>3, <1>4, <1>7, <1>8, <2>2, <3>1 DEF Written
    <3>2. CASE ~vyper
      BY <1>2, <1>3, <1>4, <1>7, <1>8, <2>2, <3>2 DEF Written
    <3> QED BY <1>5, <3>1, <3>2
  <2>3. CASE f = "build"
    <3>1. CASE vyper
      BY <1>2, <1>3, <1>4, <1>7, <1>8, <2>3, <3>1 DEF Written
    <3>2. CASE ~vyper
      BY <1>2, <1>3, <1>4, <1>7, <1>8, <2>3, <3>2 DEF Written
    <3> QED BY <1>5, <3>1, <3>2
  <2> QED BY <1>1, <2>1, <2>2, <2>3
<1>10. CompileInv' /\ OthersInv' /\ ProcessInv' /\ last' = Absent /\ UNCHANGED interrupts
  BY <1>1, <1>2, <1>9, ArtifactWritten
<1>11. \A w : Buildable(w)' = Buildable(w)
  BY <1>2 DEF Buildable
<1>12. DirectoryInv'
  <2>1. FilesType'
    BY <1>2, <1>5, <1>6 DEF FilesType
  <2>2. HexInv' /\ BytecodeInv'
    BY <1>2 DEF HexInv, BytecodeInv, PipelineInv, DirectoryInv
  <2>3. f = "build" => Buildable(v) /\ Made(v, n) # Absent
    BY <1>3, <1>5, AbsentAssumption
  <2>4. HashesInv'
    <3> SUFFICES ASSUME hashes # Absent PROVE own'[hashes.name].build # Absent
      BY <1>2, <1>11 DEF HashesInv, PipelineInv, DirectoryInv
    <3>1. own[hashes.name].build # Absent /\ hashes.name \in Names
      BY CompiledAssumption DEF HashesInv, PipelineInv, DirectoryInv, Buildable
    <3> QED BY <1>6, <1>7, <2>3, <3>1
  <2>5. BuildsInv'
    <3> SUFFICES ASSUME NEW m \in Names, own'[m].build # Absent
                 PROVE  \E w \in Versions : Buildable(w) /\ own'[m].build = Made(w, m)
      BY <1>2, <1>11 DEF BuildsInv
    <3>1. CASE m = n /\ f = "build"
      BY <1>3, <1>7, <2>3, <3>1
    <3>2. CASE ~(m = n /\ f = "build")
      <4>1. own'[m].build = own[m].build
        BY <1>6, <1>7, <3>2
      <4> QED BY <4>1 DEF BuildsInv, PipelineInv, DirectoryInv
    <3> QED BY <3>1, <3>2
  <2> QED BY <2>1, <2>2, <2>4, <2>5 DEF DirectoryInv
<1>13. InterruptsInv'
  <2> DEFINE h == hashes.name
  <2>1. interrupts \in Nat /\ interrupts' = interrupts /\ hashes' = hashes
    BY <1>2, <1>10 DEF PipelineInv, InterruptsInv
  <2>2. /\ Compiling(h)' <=> Compiling(h)
        /\ Compiling(h) <=> Buildable(v) /\ n = h
    <3>1. read' = read /\ (Now("compile")' <=> Now("compile"))
      BY <1>2, <1>4
    <3> QED BY <1>2, <1>3, <1>11, <3>1 DEF Compiling
  <2>3. CASE hashes = Absent
    BY <2>1, <2>3 DEF InterruptsInv
  <2>4. ASSUME hashes # Absent PROVE InterruptsInv'
    <3>1. h \in Names
      BY <2>4, CompiledAssumption DEF HashesInv, PipelineInv, DirectoryInv, Buildable
    <3>2. /\ interrupts = 0 => own[h].build = Made(hashes.compiled, h) \/ Unhashed(h)
          /\ interrupts < 2 => \/ own[h].build = Made(hashes.compiled, h)
                               \/ AgreesWithFiles(h) \/ Between(h)
      BY <2>4 DEF PipelineInv, InterruptsInv
    <3> SUFFICES /\ interrupts = 0 => own'[h].build = Made(hashes.compiled, h) \/ Unhashed(h)'
                 /\ interrupts < 2 => \/ own'[h].build = Made(hashes.compiled, h)
                                      \/ AgreesWithFiles(h)' \/ Between(h)'
      BY <2>1 DEF InterruptsInv
    <3>3. CASE n # h
      <4>1. own'[h] = own[h] /\ ~Unhashed(h) /\ ~Between(h)
        BY <1>6, <2>2, <3>1, <3>3 DEF Unhashed, Between
      <4>2. AgreesWithFiles(h)' <=> AgreesWithFiles(h)
        BY <1>2, <4>1 DEF AgreesWithFiles
      <4> QED BY <3>2, <4>1, <4>2
    <3>4. CASE n = h /\ ~Buildable(v)
      <4>1. f = "ast" /\ vyper
        BY <1>3, <3>4 DEF Buildable, PipelineInv, DirectoryInv, FilesType
      <4>2. own'[h].build = own[h].build /\ own'[h].abi = own[h].abi
        BY <1>7, <3>4, <4>1
      <4>3. AgreesWithFiles(h)' <=> AgreesWithFiles(h)
        BY <1>2, <4>1, <4>2 DEF AgreesWithFiles
      <4>4. ~Unhashed(h) /\ ~Between(h)
        BY <2>2, <3>4 DEF Unhashed, Between
      <4> QED BY <3>2, <4>2, <4>3, <4>4
    <3>5. CASE n = h /\ Buildable(v) /\ f = "abi"
      <4>1. own'[h].build = own[h].build /\ ~Unhashed(h)
        BY <1>3, <1>7, <1>8, <3>5 DEF Unhashed
      <4>2. Between(h)'
        BY <1>2, <1>3, <1>4, <1>8, <2>2, <3>5 DEF Between
      <4> QED BY <3>2, <4>1, <4>2
    <3>6. CASE n = h /\ Buildable(v) /\ f = "ast"
      <4>1. own'[h].build = own[h].build /\ own'[h].abi = own[h].abi /\ ~Unhashed(h)
        BY <1>3, <1>7, <1>8, <3>6 DEF Unhashed
      <4>2. CASE ~vyper
        <5>1. Between(h)'
          BY <1>2, <1>3, <1>4, <1>8, <2>2, <3>6, <4>2 DEF Between
        <5> QED BY <3>2, <4>1, <5>1
      <4>3. CASE vyper
        <5>1. ~Between(h)
          BY <1>3, <1>8, <3>6, <4>3 DEF Between
        <5>2. AgreesWithFiles(h)' <=> AgreesWithFiles(h)
          BY <1>2, <4>1, <4>3 DEF AgreesWithFiles
        <5> QED BY <3>2, <4>1, <5>1, <5>2
      <4> QED BY <4>2, <4>3
    <3>7. CASE n = h /\ Buildable(v) /\ f = "build"
      <4>1. Len(todo) = 2 /\ Len(todo') = 1 /\ Written(v)
        BY <1>3, <1>4, <1>8, <3>7
      <4>2. Unhashed(h)'
        BY <2>2, <3>7, <4>1 DEF Unhashed
      <4>3. /\ own'[h].build = Made(v, n) /\ own'[h].abi = own[h].abi /\ own'[h].ast = own[h].ast
            /\ own[h].abi = c.abi /\ (~vyper => own[h].ast = v)
        <5>1. /\ own'[h].build = Made(v, n) /\ own'[h].abi = own[h].abi
              /\ own'[h].ast = own[h].ast
          BY <1>7, <3>7
        <5>2. own[h].abi = c.abi /\ (~vyper => own[h].ast = v)
          BY <3>7, <4>1 DEF Written
        <5> QED BY <5>1, <5>2
      <4>4. AgreesWithFiles(h)'
        BY <1>2, <4>3 DEF AgreesWithFiles, Made
      <4> QED BY <4>2, <4>4
    <3> QED BY <1>1, <3>3, <3>4, <3>5, <3>6, <3>7
  <2> QED BY <2>3, <2>4
<1> QED BY <1>10, <1>12, <1>13 DEF PipelineInv, VerdictInv

(* sources.sha256, the last file of a compilation.                         *)
LEMMA HashesStep ==
  ASSUME PipelineInv, WriteHashes
  PROVE  PipelineInv'
<1> DEFINE v == read.version
           c == Compiled[v]
           n == read.name
<1>1. /\ Writes("hashes")
      /\ hashes' = [source |-> source, name |-> n, hex |-> hex,
                    abi |-> own[n].abi, ast |-> own[n].ast, compiled |-> v]
      /\ UNCHANGED <<hex, own, lean, read, vyper, source>>
  BY DEF WriteHashes, Writes, inputs
<1>2. todo # <<>> /\ Head(todo).what = "hashes" /\ "hashes" \in Artifacts
  BY <1>1 DEF Writes, Artifacts
<1>3. /\ Now("compile") /\ v \in Versions /\ Buildable(v) /\ Len(todo) = 1
      /\ Written(v)
  BY <1>2, NextArtifact DEF PipelineInv, CompileInv, Left
<1>4. Len(todo') = 0
  BY <1>1, <1>3, WritesStep DEF PipelineInv
<1>5. FilesType /\ n \in Names
  BY <1>3 DEF PipelineInv, DirectoryInv, CompileInv
<1>6. /\ own[n].build = Made(v, n) /\ own[n].abi = c.abi /\ own[n].ast = v
      /\ hex.runtime = c.runtime /\ hex.creation = c.creation
  <2>1. Len(todo) <= 1 /\ Len(todo) <= 2 /\ Len(todo) <= 3 /\ Len(todo) <= 4 /\ Len(todo) <= 5
    BY <1>3
  <2>2. CASE vyper
    BY <1>3, <2>1, <2>2, Zenon DEF Written
  <2>3. CASE ~vyper
    BY <1>3, <2>1, <2>3, Zenon DEF Written
  <2> QED BY <2>2, <2>3, Zenon
<1>7. Written(v)'
  BY <1>1, <1>4, <1>6 DEF Written
<1>8. CompileInv' /\ OthersInv' /\ ProcessInv' /\ last' = Absent /\ UNCHANGED interrupts
  BY <1>1, <1>2, <1>7, ArtifactWritten
<1>9. \A w : Buildable(w)' = Buildable(w)
  BY <1>1 DEF Buildable
<1>10. Made(v, n) # Absent /\ (~vyper => n = c.name)
  BY <1>3, <1>5, AbsentAssumption DEF PipelineInv, CompileInv
<1>11. HashesInv'
  BY <1>1, <1>3, <1>5, <1>6, <1>9, <1>10 DEF HashesInv
<1>12. InterruptsInv'
  BY <1>1, <1>6, <1>8 DEF InterruptsInv, PipelineInv
<1>13. FilesType' /\ HexInv' /\ BuildsInv' /\ BytecodeInv'
  BY <1>1, <1>9 DEF FilesType, HexInv, BuildsInv, BytecodeInv, PipelineInv, DirectoryInv
<1> QED BY <1>8, <1>11, <1>12, <1>13 DEF PipelineInv, DirectoryInv, VerdictInv

(***************************************************************************)
(* Another stage writes a file.                                            *)
(***************************************************************************)
LEMMA NotCompiling ==
  ASSUME PipelineInv, todo # <<>>, NEW f, f = Head(todo).what,
         f \notin Artifacts \cup {"unsupported"}
  PROVE  ~Now("compile")
<1> SUFFICES ASSUME Now("compile") PROVE FALSE
  OBVIOUS
<1> DEFINE v == read.version
           w == CompileWrites(v)
           k == Len(todo)
<1>1. /\ v \in Versions /\ vyper \in Compiled[v].compiles /\ vyper \in BOOLEAN
      /\ IsRest(todo, w) /\ w \in Seq(Jobs) /\ todo \in Seq(Jobs)
  BY CompileWritesFacts DEF PipelineInv, CompileInv, DirectoryInv, FilesType, ProcessInv
<1>2. f = w[Len(w) - k + 1].what /\ k \in 1..Len(w)
  BY <1>1, RestOfRest
<1>3. vyper => TRUE \in Compiled[v].compiles
  BY <1>1
<1> HIDE DEF v, k
<1>4. /\ Buildable(v) => f \in Artifacts
      /\ ~Buildable(v) => f = "ast" \/ f = "unsupported"
  BY <1>1, <1>2, <1>3, CompileOrder
<1> QED BY <1>4 DEF Artifacts

LEMMA OtherWritten ==
  ASSUME PipelineInv, NEW f, f \notin Artifacts \cup {"unsupported"}, Writes(f)
  PROVE  /\ ~Now("compile") /\ CompileInv' /\ OthersInv' /\ ProcessInv' /\ last' = Absent
         /\ source' = source /\ UNCHANGED <<vyper, interrupts>>
         /\ \A n : ~Unhashed(n) /\ ~Between(n)
<1>1. /\ todo # <<>> /\ Head(todo).what = f /\ last' = last
      /\ UNCHANGED <<source, vyper, interrupts>>
  BY DEF Writes, inputs, bounds
<1>2. /\ ProcessInv' /\ last = Absent /\ (Now("compile")' <=> Now("compile"))
      /\ Len(todo) \in Nat /\ Len(todo) >= 1 /\ Head(todo) = todo[1]
      /\ \A m \in 1..Len(todo') : todo'[m] = todo[m + 1] /\ m + 1 \in 1..Len(todo)
      /\ \A t \in Seq(Jobs) : IsRest(todo, t) => Head(todo) = t[Len(t) - Len(todo) + 1]
  BY WritesStep DEF PipelineInv
<1>3. ~Now("compile")
  BY <1>1, NotCompiling
<1>4. OthersInv'
  BY <1>2, <1>3 DEF OthersInv, PipelineInv
<1>5. CompileInv' /\ \A n : ~Unhashed(n) /\ ~Between(n)
  BY <1>2, <1>3 DEF CompileInv, Unhashed, Between, Compiling
<1> QED BY <1>1, <1>2, <1>3, <1>4, <1>5

(* The files of "lean" and "difftest", written or kept.                    *)
LEMMA LeanStep ==
  ASSUME PipelineInv, WriteLean
  PROVE  PipelineInv'
<1> DEFINE Text(f) == CASE f = "Bytecode" -> BytecodeText(read.name, read.hex)
                        [] f = "Selectors" -> SelectorTable(read.name)
                        [] f \in {"Immutables", "ImmutableCode"} -> read.build.immutables
                        [] f = "DiffTarget" -> read
<1>0. PICK f \in LeanFiles : Writes(f) /\ lean' = [lean EXCEPT ![f] = IF Kept(f) THEN @ ELSE Text(f)]
  BY DEF WriteLean
<1>1. PICK g : /\ Writes(f) /\ lean' = [lean EXCEPT ![f] = g]
               /\ g = IF Kept(f) THEN lean[f] ELSE Text(f)
               /\ f = "Bytecode" => Text(f) = BytecodeText(read.name, read.hex)
  <2>1. f = "Bytecode" => Text(f) = BytecodeText(read.name, read.hex)
    OBVIOUS
  <2>2. PICK k : k = IF Kept(f) THEN lean[f] ELSE Text(f)
    OBVIOUS
  <2> HIDE DEF Text
  <2>3. lean' = [lean EXCEPT ![f] = k]
    BY <1>0, <2>2
  <2> QED BY <1>0, <2>1, <2>2, <2>3
<1> HIDE DEF Text
<1>2. UNCHANGED <<vyper, source, hex, own, hashes, interrupts>>
  BY <1>1 DEF WriteLean, Writes, inputs, bounds
<1>3. f \notin Artifacts \cup {"unsupported"}
  BY <1>1 DEF LeanFiles, Artifacts
<1>4. /\ CompileInv' /\ OthersInv' /\ ProcessInv' /\ last' = Absent
      /\ \A n : ~Unhashed(n) /\ ~Between(n)
  BY <1>1, <1>3, OtherWritten
<1>5. InterruptsInv'
  BY <1>2, <1>4, InterruptsKept DEF PipelineInv
<1>6. /\ lean' = [h \in LeanFiles |-> lean'[h]] /\ lean'[f] = g
      /\ \A h \in LeanFiles \ {f} : lean'[h] = lean[h]
  BY <1>1, LeanWritten DEF PipelineInv, DirectoryInv
<1>7. BytecodeInv'
  <2>1. CASE f # "Bytecode" \/ Kept(f)
    <3>1. lean'["Bytecode"] = lean["Bytecode"]
      BY <1>1, <1>6, <2>1 DEF LeanFiles
    <3> QED BY <3>1 DEF BytecodeInv, PipelineInv, DirectoryInv
  <2>2. CASE f = "Bytecode" /\ ~Kept(f)
    <3>1. lean'["Bytecode"] = BytecodeText(read.name, read.hex)
      BY <1>1, <1>6, <2>2
    <3> QED BY <3>1 DEF BytecodeInv, BytecodeText
  <2> QED BY <2>1, <2>2
<1>8. \A w : Buildable(w)' = Buildable(w)
  BY <1>2 DEF Buildable
<1>9. FilesType' /\ HexInv' /\ HashesInv' /\ BuildsInv'
  BY <1>2, <1>6, <1>8 DEF PipelineInv, DirectoryInv, FilesType, HexInv, HashesInv, BuildsInv
<1> QED BY <1>4, <1>5, <1>7, <1>9 DEF PipelineInv, DirectoryInv, VerdictInv

(* The registry, the shards and the indexes.                               *)
LEMMA SummaryStep ==
  ASSUME PipelineInv, WriteRegistry \/ WriteShard \/ WriteIndex
  PROVE  PipelineInv'
<1>1. PICK f : f \in {"registry", "shard", "index"} /\ Writes(f)
  BY DEF WriteRegistry, WriteShard, WriteIndex
<1>2. UNCHANGED <<vyper, source, hex, own, hashes, lean, interrupts>>
  BY DEF WriteRegistry, WriteShard, WriteIndex, Writes, inputs, bounds
<1>3. f \notin Artifacts \cup {"unsupported"}
  BY <1>1 DEF Artifacts
<1>4. /\ CompileInv' /\ OthersInv' /\ ProcessInv' /\ last' = Absent
      /\ \A n : ~Unhashed(n) /\ ~Between(n)
  BY <1>1, <1>3, OtherWritten
<1>5. InterruptsInv'
  BY <1>2, <1>4, InterruptsKept DEF PipelineInv
<1>6. DirectoryInv'
  BY <1>2, DirectoryKept DEF PipelineInv, DirectoryInv, FilesType
<1> QED BY <1>4, <1>5, <1>6 DEF PipelineInv, VerdictInv

(* "lean" stops after the bytecode.                                        *)
LEMMA NoTableEnds ==
  ASSUME PipelineInv, NoTable
  PROVE  PipelineInv'
<1>1. /\ todo # <<>> /\ Head(todo).what = "no table" /\ Ends("failed")
      /\ UNCHANGED <<vyper, hashes, own, interrupts>>
  BY DEF NoTable, End, Ends, files, inputs
<1>2. ~Now("compile")
  BY <1>1, NotCompiling DEF Artifacts
<1>3. InterruptsInv'
  BY <1>1, <1>2, InterruptsKept DEF PipelineInv, Unhashed, Between, Compiling
<1> QED BY <1>1, <1>3, EndsKeeps

(***************************************************************************)
(* The user starts a command, or edits.                                    *)
(***************************************************************************)
LEMMA Started ==
  ASSUME PipelineInv, NEW c \in Commands, NEW force, NEW contract \in Contracts, Start(c, force, contract)
  PROVE  PipelineInv'
<1>1. ProcessInv' /\ ~Now("compile")'
  BY StartStep DEF PipelineInv
<1>2. /\ UNCHANGED <<vyper, source, hex, own, hashes, lean, interrupts>>
      /\ todo' = <<>> /\ last' = Absent /\ command = "none"
  BY DEF Start, inputs, files, bounds
<1>3. DirectoryInv'
  BY <1>2, DirectoryKept DEF PipelineInv, DirectoryInv, FilesType
<1>4. CompileInv' /\ OthersInv'
  <2>1. Len(todo') = 0
    BY <1>2
  <2> QED BY <1>1, <2>1 DEF CompileInv, OthersInv
<1>5. InterruptsInv'
  <2>1. \A n : ~Unhashed(n) /\ ~Between(n)
    BY <1>2 DEF Unhashed, Between, Compiling, Now
  <2> QED BY <1>2, <2>1, InterruptsKept DEF PipelineInv
<1> QED BY <1>1, <1>2, <1>3, <1>4, <1>5 DEF PipelineInv, VerdictInv

(* No file changes and no command goes on.                                 *)
LEMMA Untouched ==
  ASSUME PipelineInv, UNCHANGED <<vyper, files, command, options, stages, todo, read, commands, interrupts>>,
         source' \in Versions, last' = Absent \/ UNCHANGED <<inputs, last>>
  PROVE  PipelineInv'
<1>1. UNCHANGED <<vyper, hex, own, hashes, lean, interrupts, command, options, stages, todo, read>>
  BY DEF files
<1>2. Ran' = Ran /\ \A s : Now(s)' <=> Now(s)
  BY <1>1 DEF Ran, Now
<1>3. \A v : Buildable(v)' = Buildable(v) /\ CompileWrites(v)' = CompileWrites(v)
  BY <1>1 DEF Buildable, CompileWrites
<1>4. \A v : Written(v)' <=> Written(v)
  BY <1>1 DEF Written
<1>5. \A n : (Unhashed(n)' <=> Unhashed(n)) /\ (Between(n)' <=> Between(n))
  BY <1>1, <1>2, <1>3 DEF Unhashed, Between, Compiling
<1>6. ProcessInv' /\ OthersInv'
  BY <1>1, <1>2 DEF ProcessInv, OthersInv, PipelineInv
<1>7. CompileInv'
  BY <1>1, <1>2, <1>3, <1>4 DEF CompileInv, PipelineInv
<1>8. InterruptsInv'
  BY <1>1, <1>5, InterruptsKept DEF PipelineInv
<1>9. DirectoryInv'
  BY <1>1, DirectoryKept DEF PipelineInv
<1>10. VerdictInv'
  <2>1. CASE last' = Absent
    BY <2>1 DEF VerdictInv
  <2>2. CASE UNCHANGED <<inputs, last>>
    <3>1. (Agreed' <=> Agreed) /\ last' = last
      BY <2>2, AgreedKept
    <3> QED BY <1>1, <3>1 DEF VerdictInv, Approved, PipelineInv
  <2> QED BY <2>1, <2>2
<1> QED BY <1>6, <1>7, <1>8, <1>9, <1>10 DEF PipelineInv

LEMMA Edited ==
  ASSUME PipelineInv, EditSource \/ EditSpec
  PROVE  PipelineInv'
<1>1. /\ UNCHANGED <<vyper, files, command, options, stages, todo, read, commands, interrupts>>
      /\ last' = Absent
  BY DEF EditSource, EditSpec, Edit
<1>2. source' \in Versions
  BY DEF EditSource, EditSpec, PipelineInv, DirectoryInv, FilesType
<1> QED BY <1>1, <1>2, Untouched

LEMMA Stuttered ==
  ASSUME PipelineInv, UNCHANGED vars
  PROVE  PipelineInv'
BY Untouched DEF vars, inputs, process, bounds, PipelineInv, DirectoryInv, FilesType

(* Any directory to start from.                                            *)
LEMMA Begun ==
  ASSUME Init
  PROVE  PipelineInv
<1>1. /\ command = "none" /\ stages = <<>> /\ todo = <<>> /\ last = Absent /\ interrupts = 0
      /\ options.contract = Absent
      /\ source \in Versions /\ vyper \in BOOLEAN
      /\ hex = [runtime |-> Absent, creation |-> Absent] /\ hashes = Absent
      /\ own = [n \in Names |-> [abi |-> Absent, ast |-> Absent, build |-> Absent]]
      /\ lean = [f \in LeanFiles |-> Absent]
  BY VersionsAssumption DEF Init
<1>2. ProcessInv
  BY <1>1, NoneFacts DEF ProcessInv
<1>3. Len(todo) = 0 /\ ~Now("compile")
  BY <1>1 DEF Now
<1>4. CompileInv /\ OthersInv /\ InterruptsInv /\ VerdictInv
  BY <1>1, <1>3 DEF CompileInv, OthersInv, InterruptsInv, VerdictInv
<1>5. \A n \in Names : own[n] = [abi |-> Absent, ast |-> Absent, build |-> Absent]
  BY <1>1
<1>6. FilesType
  BY <1>1, <1>5 DEF FilesType
<1>7. HexInv /\ HashesInv /\ BuildsInv
  BY <1>1, <1>5 DEF HexInv, HashesInv, BuildsInv
<1>8. BytecodeInv
  BY <1>1 DEF BytecodeInv, LeanFiles
<1> QED BY <1>2, <1>4, <1>6, <1>7, <1>8 DEF PipelineInv, DirectoryInv

(* Every step keeps the invariant.                                         *)
LEMMA PipelineStep ==
  ASSUME PipelineInv, [Next]_vars
  PROVE  PipelineInv'
<1>1. CASE Step
  BY <1>1, OtherStages, ReadsSources, FailedStages, UnsupportedEnds, NoTableEnds, Checked, Finished,
     HexStep, OwnStep, HashesStep, LeanStep, SummaryStep DEF Step
<1>2. CASE EditSource \/ EditSpec
  BY <1>2, Edited
<1>3. CASE Interrupt
  BY <1>3, Interrupted
<1>4. CASE \E c \in Commands, force \in BOOLEAN, contract \in Contracts : Start(c, force, contract)
  BY <1>4, Started
<1>5. CASE UNCHANGED vars
  BY <1>5, Stuttered
<1> QED BY <1>1, <1>2, <1>3, <1>4, <1>5 DEF Next

(***************************************************************************)
(* The inductive invariant: what the directory and the command that runs   *)
(* always are.                                                             *)
(***************************************************************************)
THEOREM PipelineInvariant == Spec => []PipelineInv
<1>1. Init => PipelineInv
  BY Begun
<1>2. PipelineInv /\ [Next]_vars => PipelineInv'
  BY PipelineStep
<1> QED BY <1>1, <1>2, PTL DEF Spec

-----------------------------------------------------------------------------
(***************************************************************************)
(* What "check" reads when it reads the build.json of contract n.          *)
(***************************************************************************)
LEMMA OnlyBuild ==
  ASSUME NEW n \in Names, own[n].build # Absent, own[n].build.name = n,
         options.contract = n \/ (options.contract = Absent /\ ~Several)
  PROVE  ContractName = n /\ FindBuild(n) = own[n].build
<1>1. n # Absent
  BY AbsentAssumption
<1>2. FindBuild(n) = own[n].build
  BY <1>1 DEF FindBuild
<1>3. CASE options.contract = n
  BY <1>1, <1>2, <1>3 DEF ContractName
<1>4. CASE options.contract = Absent /\ ~Several
  <2>1. PICK k \in DOMAIN NameOrder : NameOrder[k] = n
    BY DEF Names, ToSet
  <2>2. k \in Nat /\ k \in Builds
    BY <2>1, NamesAssumption DEF Builds
  <2>3. Builds = {k}
    BY <1>4, <2>2 DEF Several
  <2>4. (CHOOSE j \in Builds : \A l \in Builds : j <= l) = k
    BY <2>2, <2>3
  <2>5. FirstBuild = own[n].build
    BY <2>1, <2>4 DEF FirstBuild
  <2>6. ContractName = n
    BY <1>4, <2>2, <2>5 DEF ContractName
  <2> QED BY <1>2, <2>6
<1> QED BY <1>3, <1>4

(* What the invariant says of an approved directory.                       *)
LEMMA VerdictFollows ==
  ASSUME PipelineInv
  PROVE  VerdictSound
<1> SUFFICES ASSUME Approved, Hashed, Unambiguous, OwnBuild
             PROVE  /\ ~vyper => hashes.name = Current.name
                    /\ hex = [runtime |-> Current.runtime, creation |-> Current.creation]
                    /\ own[hashes.name].abi = Current.abi
                    /\ ~vyper => own[hashes.name].ast = source
                    /\ lean["Bytecode"] = BytecodeText(hashes.name, Current)
                    /\ lean["Selectors"] = [abi |-> Current.abi, order |-> spec]
                    /\ Current.immutables # {} =>
                         lean["Immutables"] = Current.immutables \/ StaleSlots
  BY DEF VerdictSound
<1> DEFINE n == hashes.name
           b == own[n].build
<1>1. last # Absent /\ command = "none" /\ last.options = options /\ Agreed
  BY DEF Approved, PipelineInv, VerdictInv, ProcessInv
<1>2. /\ hashes # Absent /\ hashes.compiled = source
      /\ hashes.hex = hex /\ hashes.abi = own[hashes.name].abi
      /\ ~vyper => hashes.ast = own[hashes.name].ast
  BY <1>1 DEF Hashed, Agreed, HashesHold
<1>3. /\ Buildable(source) /\ n \in Names /\ (~vyper => n = Current.name) /\ hashes.ast = source /\ b # Absent
      /\ hashes.hex.runtime = Current.runtime /\ hashes.hex.creation = Current.creation
      /\ hashes.abi = Current.abi
  BY <1>2 DEF PipelineInv, DirectoryInv, HashesInv, Current
<1>4. source \in Versions /\ n \in Names /\ Current.creation # Absent
  BY <1>3, AbsentAssumption DEF Buildable, Current
<1>5. hex = [runtime |-> Current.runtime, creation |-> Current.creation]
  <2>1. hex = [runtime |-> hex.runtime, creation |-> hex.creation]
    BY DEF PipelineInv, DirectoryInv, FilesType
  <2> QED BY <1>2, <1>3, <2>1
<1>6. own[n].abi = Current.abi /\ (~vyper => own[n].ast = source)
  BY <1>2, <1>3
<1>7. PICK w \in Versions : Buildable(w) /\ b = Made(w, n)
  BY <1>3, <1>4 DEF PipelineInv, DirectoryInv, BuildsInv
<1>8. b.abi = Current.abi /\ b.immutables = Current.immutables /\ b.name = n
  <2>1. b = Made(source, n) \/ AgreesWithFiles(n)
    <3>1. ~Between(n)
      BY <1>1 DEF Between, Compiling, Now
    <3>2. b = Made(source, n) \/ interrupts < 2
      BY DEF OwnBuild
    <3> QED BY <1>2, <1>3, <3>1, <3>2 DEF PipelineInv, InterruptsInv
  <2>2. CASE b = Made(source, n)
    BY <2>2 DEF Made, Current
  <2>3. CASE AgreesWithFiles(n) /\ ~vyper
    <3>1. w = source
      BY <1>6, <1>7, <2>3 DEF AgreesWithFiles, Made
    <3> QED BY <1>7, <3>1 DEF Made, Current
  <2>4. CASE AgreesWithFiles(n) /\ vyper
    <3>1. Compiled[w].abi = Current.abi
      BY <1>6, <1>7, <2>4 DEF AgreesWithFiles, Made
    <3>2. Compiled[w].immutables = Current.immutables
      BY <1>3, <1>4, <1>7, <2>4, <3>1, LayoutAssumption DEF Buildable, Current
    <3> QED BY <1>7, <3>1, <3>2 DEF Made
  <2> QED BY <2>1, <2>2, <2>3, <2>4
<1>9. ContractName = n /\ FindBuild(n) = b
  <2>1. options.contract = n \/ (options.contract = Absent /\ ~Several)
    BY <1>1 DEF Unambiguous
  <2> QED BY <1>3, <1>4, <1>8, <2>1, OnlyBuild
<1>10. lean["Bytecode"] = BytecodeText(n, Current)
  <2>1. /\ lean["Bytecode"] # Absent /\ lean["Bytecode"].name = n
        /\ lean["Bytecode"].runtime = Current.runtime /\ lean["Bytecode"].creation = Current.creation
    BY <1>1, <1>4, <1>5, <1>9 DEF Agreed, BytecodeAgrees
  <2>2. lean["Bytecode"] = BytecodeText(lean["Bytecode"].name, lean["Bytecode"])
    BY <2>1 DEF PipelineInv, DirectoryInv, BytecodeInv
  <2> QED BY <2>1, <2>2 DEF BytecodeText
<1>11. lean["Selectors"] = [abi |-> Current.abi, order |-> spec]
  BY <1>1, <1>3, <1>8, <1>9 DEF Agreed, SelectorTable
<1>12. Current.immutables # {} => lean["Immutables"] = Current.immutables \/ StaleSlots
  <2>1. Immutables(FindBuild(n)) = Current.immutables /\ ImmutablesAgree(n)
    BY <1>1, <1>3, <1>8, <1>9 DEF Agreed, Immutables
  <2> QED BY <2>1 DEF ImmutablesAgree, StaleSlots
<1> QED BY <1>3, <1>5, <1>6, <1>10, <1>11, <1>12

(***************************************************************************)
(* What "check" approves is what the present sources compile to and what   *)
(* the specification asks for.                                             *)
(***************************************************************************)
THEOREM VerdictsSound == Spec => []VerdictSound
BY PipelineInvariant, VerdictFollows, PTL

-----------------------------------------------------------------------------
(***************************************************************************)
(* The run of "all" while nothing is edited.  Each stage leaves what the   *)
(* later ones read, and does not touch what the earlier ones wrote.        *)
(***************************************************************************)
Undisturbed == command = "all" /\ undisturbed

Done(k) == Ran > k \/ (Ran = k /\ todo = <<>>)

(* The contract is found by its name, or is the only one.                  *)
Resolved ==
  \/ options.contract = CompiledName
  \/ options.contract = Absent /\ ~Several

CompiledNow ==
  /\ Buildable(source) /\ HashesHold
  /\ CompiledName \in Names /\ (~vyper => FALSE \in Current.compiles)
  /\ hex.runtime = Current.runtime /\ hex.creation = Current.creation
  /\ own[CompiledName].build = Made(source, CompiledName)

CompileStage ==
  /\ Ran = 0 => todo = <<>>
  /\ Ran >= 1 => (vyper \/ options.contract \in {Absent, Current.name})
  /\ Ran = 1 => read = Sources
  /\ Done(1) => CompiledNow

LeanStage ==
  options.force /\ Resolved =>
    LET writes == LeanWrites(Made(source, CompiledName))
        left   == IF Ran = 2 THEN Len(todo) ELSE 0
    IN /\ Ran = 2 => /\ IsRest(todo, writes)
                     /\ read.name = CompiledName /\ read.build = Made(source, CompiledName)
                     /\ read.hex = hex
       /\ Ran >= 2 =>
            /\ left + 1 <= Len(writes) => lean["Bytecode"] = BytecodeText(CompiledName, hex)
            /\ left + 2 <= Len(writes) =>
                 lean["Selectors"] = [abi |-> Current.abi, order |-> spec]
            /\ left + 3 <= Len(writes) => lean["Immutables"] = Current.immutables

DiffTestStage == Ran = 3 => IsRest(todo, Each(<<"DiffTarget", "registry">>))

SummaryStage(k, f, code) ==
  LET left == IF Ran = k THEN Len(todo) ELSE 0 IN
  /\ Ran = k => IsRest(todo, ShardWrites(code)) /\ read.family = f /\ read.code = code
  /\ Ran >= k => /\ \A m \in 1..code.shards : m + left <= code.shards + 1 => shard[f][m] = code
                 /\ left = 0 => index[f] = code

SummariesType ==
  /\ shard = [f \in Families |-> [m \in 1..MaxShards |-> shard[f][m]]]
  /\ index = [f \in Families |-> index[f]]

AllInv ==
  Undisturbed =>
    /\ CompileStage /\ LeanStage /\ DiffTestStage
    /\ SummaryStage(4, "RuntimeBlocks", Current.runtime)
    /\ SummaryStage(5, "CreationBlocks", Current.creation)

RunInv == PipelineInv /\ SummariesType /\ AllInv /\ SummariesCurrent /\ ForceRepairs

(* Where "all" is, by the number of stages that have begun.                *)
LEMMA AtStage ==
  ASSUME ProcessInv, NEW stage, At(stage), command = "all"
  PROVE  /\ Ran \in 0..5 /\ Len(stages) = 6 - Ran /\ todo = <<>>
         /\ stage = "compile" <=> Ran = 0
         /\ stage = "lean" <=> Ran = 1
         /\ stage = "difftest" <=> Ran = 2
         /\ stage = "blocks" <=> Ran = 3
         /\ stage = "creation" <=> Ran = 4
         /\ stage = "check" <=> Ran = 5
<1> DEFINE all == Stages("all")
<1>1. /\ stages \in Seq(StageNames) /\ stages # <<>> /\ IsRest(stages, all) /\ Head(stages) = stage
      /\ todo = <<>> /\ all \in Seq(StageNames)
  BY StagesFacts DEF ProcessInv, At, Commands
<1>2. Len(all) = 6
  BY StagesFacts
<1> HIDE DEF all
<1>3. Len(stages) \in 1..Len(all) /\ Head(stages) = all[Len(all) - Len(stages) + 1]
  BY <1>1, RestOfRest
<1>4. Ran = 6 - Len(stages)
  BY <1>2 DEF Ran, all
<1>5. Ran \in 0..5 /\ Len(stages) = 6 - Ran /\ stage = all[Ran + 1]
  <2>1. PICK k : k = Len(stages)
    OBVIOUS
  <2>2. k \in 1..6 /\ stage = all[6 - k + 1] /\ Ran = 6 - k
    BY <1>1, <1>2, <1>3, <1>4, <2>1
  <2>3. 6 - k \in 0..5 /\ k = 6 - (6 - k) /\ 6 - k + 1 = (6 - k) + 1
    BY <2>2
  <2> QED BY <2>1, <2>2, <2>3
<1> HIDE DEF Ran
<1>6. \/ Ran = 0 /\ stage = "compile"
      \/ Ran = 1 /\ stage = "lean"
      \/ Ran = 2 /\ stage = "difftest"
      \/ Ran = 3 /\ stage = "blocks"
      \/ Ran = 4 /\ stage = "creation"
      \/ Ran = 5 /\ stage = "check"
  <2>1. Ran = 0 \/ Ran = 1 \/ Ran = 2 \/ Ran = 3 \/ Ran = 4 \/ Ran = 5
    BY <1>5
  <2> QED BY <1>5, <2>1, StagesFacts DEF all
<1> QED BY <1>1, <1>5, <1>6

LEMMA NowCompiling ==
  ASSUME ProcessInv, command = "all"
  PROVE  Ran \in 0..5 /\ (Now("compile") <=> Ran = 1)
<1> DEFINE all == Stages("all")
<1>1. all \in Seq(StageNames) /\ Len(all) = 6
  BY StagesFacts DEF Commands
<1>2. Len(stages) <= 6 /\ Len(stages) \in Nat /\ Len(stages) # 0
  <2>1. stages \in Seq(StageNames) /\ Len(stages) <= 6 /\ stages # <<>>
    BY <1>1 DEF ProcessInv, IsRest
  <2> QED BY <2>1
<1>3. Ran = 6 - Len(stages)
  BY <1>1 DEF Ran
<1>4. Ran \in 0..5
  <2>1. PICK k \in Nat : k = Len(stages)
    BY <1>2, Zenon
  <2>2. Ran = 6 - k
    BY <1>3, <2>1, Zenon
  <2>4. k \in 1..6
    <3>1. k <= 6 /\ k # 0
      BY <1>2, <2>1, Zenon
    <3> QED BY <3>1
  <2>3. 6 - k \in 0..5
    BY <2>4
  <2> QED BY <2>2, <2>3
<1> HIDE DEF Ran
<1>5. Now("compile") <=> Ran >= 1 /\ all[Ran] = "compile"
  BY DEF Now
<1>6. Ran = 0 \/ Ran = 1 \/ Ran = 2 \/ Ran = 3 \/ Ran = 4 \/ Ran = 5
  BY <1>4
<1>7. Ran >= 1 /\ all[Ran] = "compile" <=> Ran = 1
  BY <1>6, StagesFacts
<1> QED BY <1>4, <1>5, <1>7

(***************************************************************************)
(* The stages of "all" read what they need.                                *)
(***************************************************************************)
LEMMA CurrentKept ==
  ASSUME UNCHANGED <<inputs, files, options>>
  PROVE  /\ Current' = Current /\ (Several' <=> Several) /\ (Resolved' <=> Resolved)
         /\ CompiledName' = CompiledName /\ (CompiledNow' <=> CompiledNow)
<1>1. /\ vyper' = vyper /\ source' = source /\ spec' = spec /\ options' = options
      /\ hex' = hex /\ own' = own /\ hashes' = hashes
  BY DEF inputs, files
<1>2. Current' = Current /\ Builds' = Builds /\ CompiledName' = CompiledName
  BY <1>1 DEF Current, Builds, CompiledName
<1>3. (Several' <=> Several) /\ (HashesHold' <=> HashesHold) /\ (Buildable(source)' <=> Buildable(source))
  BY <1>1, <1>2 DEF Several, HashesHold, Buildable
<1> QED BY <1>1, <1>2, <1>3 DEF Resolved, CompiledNow

(* "all" compiles.                                                         *)
LEMMA AllCompiles ==
  ASSUME PipelineInv, AllInv, Compile \/ CompileVyper
  PROVE  AllInv'
<1> SUFFICES ASSUME Undisturbed' PROVE AllInv'
  BY DEF AllInv
<1>1. /\ Reads("compile", Sources, CompileWrites(source))
      /\ (vyper \/ options.contract \in {Absent, Current.name})
  BY DEF Compile, CompileVyper, CanCompile, CompileWrites, Current
<1>2. /\ UNCHANGED <<inputs, files, options, source, vyper, command>> /\ todo' = CompileWrites(source)
      /\ read' = Sources /\ At("compile")
  BY <1>1 DEF Reads, inputs
<1>3. command = "all"
  BY <1>2 DEF Undisturbed
<1>4. Ran' = 1
  <2>1. ProcessInv
    BY DEF PipelineInv
  <2>2. Ran = 0
    BY <1>2, <1>3, <2>1, AtStage
  <2>3. Ran' = Ran + 1
    BY <1>1, <2>1, CompileWritesFacts, ReadsStep
  <2> QED BY <2>2, <2>3
<1>5. todo' # <<>>
  <2>1. Len(todo') = 2 \/ Len(todo') = 6
    BY <1>2, CompileWritesFacts
  <2>2. Len(<<>>) = 0
    OBVIOUS
  <2> QED BY <2>1, <2>2
<1>6. Current' = Current /\ Sources' = Sources
  BY <1>2, CurrentKept DEF Sources
<1>7. ~Done(1)'
  BY <1>4, <1>5 DEF Done
<1>8. CompileStage'
  BY <1>1, <1>2, <1>4, <1>6, <1>7 DEF CompileStage
<1> QED BY <1>4, <1>8 DEF AllInv, LeanStage, DiffTestStage, SummaryStage

(* The files of the compilation.                                           *)
LEMMA AllArtifacts ==
  ASSUME PipelineInv, AllInv, WriteHex \/ WriteOwn \/ WriteHashes
  PROVE  AllInv'
<1> SUFFICES ASSUME Undisturbed' PROVE AllInv'
  BY DEF AllInv
<1>1. PICK f : f \in Artifacts /\ Writes(f) /\ (f = "hashes" => WriteHashes)
  BY DEF WriteHex, WriteOwn, WriteHashes, Artifacts
<1>2. /\ todo # <<>> /\ Head(todo).what = f /\ Undisturbed /\ command = "all"
      /\ UNCHANGED <<source, vyper, options, read>>
  BY <1>1 DEF Writes, inputs, Undisturbed
<1>3. /\ Now("compile") /\ Len(todo) \in Nat
      /\ Buildable(read.version) => Len(todo) = Left(f)
      /\ ~Buildable(read.version) => Len(todo) = 2 /\ f = "ast"
  BY <1>1, <1>2, NextArtifact DEF Artifacts
<1>4. Len(todo') = Len(todo) - 1 /\ Ran' = Ran
  BY <1>1, WritesStep DEF PipelineInv
<1>5. Ran = 1
  BY <1>2, <1>3, NowCompiling DEF PipelineInv
<1>6. /\ vyper \/ options.contract \in {Absent, Current.name}
      /\ read = Sources /\ read.version = source /\ read.name = CompiledName
  BY <1>2, <1>5 DEF AllInv, CompileStage, Sources
<1>7. Current' = Current /\ Sources' = Sources /\ CompiledName' = CompiledName
  BY <1>2 DEF Current, Sources, CompiledName
<1>8. Done(1)' => CompiledNow'
  <2>1. CASE f # "hashes"
    <3>1. Len(todo) >= 2
      <4>1. f \in Artifacts => f = "hashes" \/ Left(f) >= 2
        BY DEF Left, Artifacts
      <4> QED BY <1>1, <1>3, <2>1, <4>1
    <3>2. todo' # <<>>
      BY <1>3, <1>4, <3>1
    <3> QED BY <1>4, <1>5, <3>2 DEF Done
  <2>2. CASE f = "hashes"
    <3> DEFINE n == CompiledName
    <3>1. /\ UNCHANGED <<hex, own, source, vyper>>
          /\ hashes' = [source |-> source, name |-> n, hex |-> hex,
                        abi |-> own[n].abi, ast |-> own[n].ast, compiled |-> source]
      BY <1>1, <1>2, <1>6, <2>2 DEF WriteHashes
    <3>2. Buildable(source) /\ Len(todo) = 1 /\ Written(source)
      <4>1. Buildable(read.version) /\ Len(todo) = 1
        BY <1>3, <2>2 DEF Left
      <4>2. Written(read.version)
        BY <1>3, <4>1 DEF PipelineInv, CompileInv
      <4> QED BY <1>6, <4>1, <4>2
    <3>3. /\ hex.runtime = Current.runtime /\ hex.creation = Current.creation
          /\ own[n].build = Made(source, n)
      BY <1>6, <3>2 DEF Written, Current, PipelineInv, DirectoryInv, FilesType
    <3>4. Buildable(source)'
      BY <3>1, <3>2 DEF Buildable
    <3>5. HashesHold'
      BY <3>1 DEF HashesHold
    <3>6. n \in Names /\ (~vyper => FALSE \in Current.compiles)
      BY <1>3, <1>6 DEF PipelineInv, CompileInv, DirectoryInv, FilesType, Current
    <3> QED BY <1>7, <3>1, <3>3, <3>4, <3>5, <3>6 DEF CompiledNow
  <2> QED BY <2>1, <2>2
<1>9. CompileStage'
  BY <1>2, <1>4, <1>5, <1>6, <1>7, <1>8 DEF CompileStage
<1> QED BY <1>4, <1>5, <1>9 DEF AllInv, LeanStage, DiffTestStage, SummaryStage

(* A later stage begins: the earlier ones are done.                        *)
LEMMA ReadsNext ==
  ASSUME PipelineInv, AllInv, NEW stage, stage # "check", stage # "compile", NEW what,
         NEW writes \in Seq(Jobs), Reads(stage, what, writes), Undisturbed'
  PROVE  /\ Undisturbed /\ command = "all" /\ At(stage) /\ todo = <<>>
         /\ UNCHANGED <<inputs, files, options, source, spec, hex, lean, shard, index>>
         /\ todo' = writes /\ read' = what
         /\ Ran \in 0..5 /\ Ran >= 1 /\ Ran' = Ran + 1
         /\ CompileStage' /\ CompiledNow /\ Current' = Current /\ (Resolved' <=> Resolved)
         /\ CompiledName' = CompiledName
<1>1. /\ UNCHANGED <<inputs, files, options, source, vyper, spec, hex, lean, shard, index>>
      /\ todo' = writes /\ read' = what /\ At(stage) /\ todo = <<>>
      /\ command' = command /\ undisturbed' = undisturbed
  BY DEF Reads, inputs, files, At
<1>2. Undisturbed /\ command = "all"
  BY <1>1 DEF Undisturbed
<1>3. ProcessInv
  BY DEF PipelineInv
<1>4. Ran \in 0..5 /\ Ran >= 1
  BY <1>1, <1>2, <1>3, AtStage
<1>5. Ran' = Ran + 1
  BY <1>3, ReadsStep
<1>6. CompiledNow /\ (vyper \/ options.contract \in {Absent, Current.name})
  BY <1>1, <1>2, <1>4 DEF AllInv, CompileStage, Done
<1>7. /\ Current' = Current /\ (Resolved' <=> Resolved) /\ (CompiledNow' <=> CompiledNow)
      /\ CompiledName' = CompiledName
  BY <1>1, CurrentKept
<1>8. CompileStage'
  <2>1. Ran' >= 2
    BY <1>4, <1>5
  <2> QED BY <1>1, <1>4, <1>5, <1>6, <1>7, <2>1 DEF CompileStage
<1> QED BY <1>1, <1>2, <1>4, <1>5, <1>6, <1>7, <1>8

(* What the present sources compile to is no missing file.                 *)
LEMMA CurrentFacts ==
  ASSUME CompiledNow
  PROVE  /\ CompiledName \in Names /\ Made(source, CompiledName) # Absent /\ Made(source, CompiledName).name = CompiledName
         /\ Current.runtime # Absent /\ Current.creation # Absent
         /\ Current.runtime.shards \in 1..MaxShards /\ Current.creation.shards \in 1..MaxShards
         /\ Made(source, CompiledName).abi = Current.abi /\ Made(source, CompiledName).immutables = Current.immutables
         /\ ~vyper => {i.at : i \in Current.immutables} \subseteq Current.runtime.sites
         /\ Current.immutables # Absent /\ source \in Versions
<1>1. source \in Versions /\ CompiledName \in Names /\ (~vyper => FALSE \in Current.compiles)
  BY DEF CompiledNow, Buildable
<1>2. ~vyper => {i.at : i \in Current.immutables} \subseteq Current.runtime.sites
  BY <1>1, CompiledAssumption DEF Current
<1>3. /\ Made(source, CompiledName) # Absent /\ Current.immutables # Absent
      /\ Current.runtime # Absent /\ Current.creation # Absent
  BY <1>1, AbsentAssumption DEF Current
<1>4. /\ Made(source, CompiledName).name = CompiledName
      /\ Made(source, CompiledName).abi = Current.abi
      /\ Made(source, CompiledName).immutables = Current.immutables
  BY DEF Current, Made
<1>5. Current.runtime.shards \in 1..MaxShards /\ Current.creation.shards \in 1..MaxShards
  BY <1>1, ShardsAssumption DEF Current
<1> QED BY <1>1, <1>2, <1>3, <1>4, <1>5

(* The contract that is meant is the one just compiled.                    *)
LEMMA Named ==
  ASSUME CompiledNow, Resolved
  PROVE  ContractName = CompiledName /\ FindBuild(CompiledName) = Made(source, CompiledName)
<1>1. own[CompiledName].build = Made(source, CompiledName)
  BY DEF CompiledNow
<1>2. options.contract = CompiledName \/ (options.contract = Absent /\ ~Several)
  BY DEF Resolved
<1> QED BY <1>1, <1>2, CurrentFacts, OnlyBuild

(* "lean" reads.                                                           *)
LEMMA AllLean ==
  ASSUME PipelineInv, AllInv, Lean
  PROVE  AllInv'
<1> SUFFICES ASSUME Undisturbed' PROVE AllInv'
  BY DEF AllInv
<1> DEFINE build == FindBuild(ContractName)
<1>1. PICK writes \in Seq(Jobs) :
        /\ Reads("lean", [name |-> ContractName, build |-> build, hex |-> hex], writes)
        /\ HasTable(ContractName) => writes = LeanWrites(build)
  BY LeanWritesFacts, TablelessFacts DEF Lean
<1> HIDE DEF build
<1>2. /\ Undisturbed /\ command = "all" /\ At("lean")
      /\ UNCHANGED <<options, source, hex>>
      /\ todo' = writes /\ read' = [name |-> ContractName, build |-> build, hex |-> hex]
      /\ Ran' = Ran + 1
      /\ CompileStage' /\ CompiledNow /\ Current' = Current /\ (Resolved' <=> Resolved)
      /\ CompiledName' = CompiledName
  BY <1>1, ReadsNext
<1>3. Ran' = 2
  BY <1>2, AtStage DEF PipelineInv
<1>4. LeanStage'
  <2> SUFFICES ASSUME Resolved PROVE LeanStage'
    BY <1>2 DEF LeanStage
  <2>1. /\ ContractName = CompiledName /\ build = Made(source, CompiledName)
        /\ todo' = LeanWrites(Made(source, CompiledName))
    <3>1. ContractName = CompiledName /\ build = Made(source, CompiledName)
      BY <1>2, Named DEF build
    <3>2. HasTable(ContractName)
      BY <1>2, <3>1, CurrentFacts DEF HasTable, build
    <3> QED BY <1>1, <1>2, <3>1, <3>2
  <2>2. IsRest(todo', LeanWrites(Made(source, CompiledName))) /\ Len(todo') = Len(LeanWrites(Made(source, CompiledName)))
    BY <2>1, LeanWritesFacts, RestOfAll
  <2>3. /\ read'.name = CompiledName /\ read'.build = Made(source, CompiledName) /\ read'.hex = hex'
        /\ LeanWrites(Made(source, CompiledName))' = LeanWrites(Made(source, CompiledName))
    BY <1>2, <2>1
  <2>4. IsRest(todo, LeanWrites(Made(source, CompiledName)))'
    BY <1>2, <2>2
  <2>5. Len(todo') \in Nat
    BY <2>1, LeanWritesFacts
  <2> QED BY <1>2, <1>3, <2>2, <2>3, <2>4, <2>5 DEF LeanStage
<1> QED BY <1>2, <1>3, <1>4 DEF AllInv, DiffTestStage, SummaryStage

(* What "lean" wrote stays.                                                *)
LEMMA LeanStays ==
  ASSUME LeanStage, Ran \in 2..5, todo = <<>>, Ran' = Ran + 1, Current' = Current,
         Resolved' <=> Resolved, CompiledName' = CompiledName,
         UNCHANGED <<options, source, spec, hex, lean>>
  PROVE  LeanStage'
<1> SUFFICES ASSUME options.force, Resolved PROVE LeanStage'
  BY DEF LeanStage
<1> DEFINE writes == LeanWrites(Made(source, CompiledName))
<1>1. Len(todo) = 0 /\ Ran >= 2 /\ Ran' > 2 /\ Ran' # 2
  OBVIOUS
<1>2. /\ 0 + 1 <= Len(writes) => lean["Bytecode"] = BytecodeText(CompiledName, hex)
      /\ 0 + 2 <= Len(writes) => lean["Selectors"] = [abi |-> Current.abi, order |-> spec]
      /\ 0 + 3 <= Len(writes) => lean["Immutables"] = Current.immutables
  BY <1>1 DEF LeanStage
<1>3. writes' = writes
  OBVIOUS
<1> QED BY <1>1, <1>2, <1>3 DEF LeanStage

(* "difftest" reads.                                                       *)
LEMMA AllDiffTest ==
  ASSUME PipelineInv, AllInv, DiffTest
  PROVE  AllInv'
<1> SUFFICES ASSUME Undisturbed' PROVE AllInv'
  BY DEF AllInv
<1> DEFINE writes == Each(<<"DiffTarget", "registry">>)
<1>1. PICK what : Reads("difftest", what, writes)
  BY DEF DiffTest
<1>2. writes \in Seq(Jobs)
  BY DiffTestFacts
<1> HIDE DEF writes
<1>3. /\ Undisturbed /\ command = "all" /\ At("difftest") /\ todo = <<>>
      /\ UNCHANGED <<options, source, spec, hex, lean>>
      /\ todo' = writes /\ Ran' = Ran + 1
      /\ CompileStage' /\ CompiledNow /\ Current' = Current /\ (Resolved' <=> Resolved)
      /\ CompiledName' = CompiledName
  BY <1>1, <1>2, ReadsNext
<1>4. Ran = 2 /\ Ran' = 3
  BY <1>3, AtStage DEF PipelineInv
<1>5. LeanStage'
  BY <1>3, <1>4, LeanStays DEF AllInv
<1>6. IsRest(todo', writes)
  BY <1>2, <1>3, RestOfAll
<1>7. DiffTestStage'
  BY <1>6 DEF DiffTestStage, writes
<1> QED BY <1>3, <1>4, <1>5, <1>7 DEF AllInv, SummaryStage

(* A family of summaries is begun with all shards to come.                 *)
LEMMA SummaryBegins ==
  ASSUME NEW k \in Nat, NEW f, NEW code, code.shards \in Nat, Ran' = k,
         todo' = ShardWrites(code), read'.family = f, read'.code = code
  PROVE  SummaryStage(k, f, code)'
<1>1. IsRest(todo', ShardWrites(code)) /\ Len(todo') = code.shards + 1
  BY ShardWritesFacts, RestOfAll
<1>2. \A m \in 1..code.shards : ~(m + (code.shards + 1) <= code.shards + 1)
  OBVIOUS
<1>3. code.shards + 1 # 0
  OBVIOUS
<1> QED BY <1>1, <1>2, <1>3 DEF SummaryStage

(* "blocks" reads the runtime code.                                        *)
LEMMA AllBlocks ==
  ASSUME PipelineInv, AllInv, Blocks
  PROVE  AllInv'
<1> SUFFICES ASSUME Undisturbed' PROVE AllInv'
  BY DEF AllInv
<1>1. Reads("blocks", [family |-> "RuntimeBlocks", code |-> hex.runtime], ShardWrites(hex.runtime))
  BY DEF Blocks
<1>2. hex.runtime.shards \in Nat
  BY ShardsAssumption DEF Blocks, CanBlocks, PipelineInv, DirectoryInv, HexInv
<1>3. /\ Undisturbed /\ command = "all" /\ At("blocks") /\ todo = <<>>
      /\ UNCHANGED <<options, source, spec, hex, lean>>
      /\ todo' = ShardWrites(hex.runtime)
      /\ read' = [family |-> "RuntimeBlocks", code |-> hex.runtime] /\ Ran' = Ran + 1
      /\ CompileStage' /\ CompiledNow /\ Current' = Current /\ (Resolved' <=> Resolved)
      /\ CompiledName' = CompiledName
  <2>1. ShardWrites(hex.runtime) \in Seq(Jobs)
    BY <1>2, ShardWritesFacts, Zenon
  <2>2. "blocks" # "check" /\ "blocks" # "compile"
    OBVIOUS
  <2> QED BY <1>1, <2>1, <2>2, ReadsNext, Zenon
<1>4. Ran = 3 /\ Ran' = 4
  BY <1>3, AtStage DEF PipelineInv
<1>5. LeanStage'
  BY <1>3, <1>4, LeanStays DEF AllInv
<1>6. SummaryStage(4, "RuntimeBlocks", Current.runtime)'
  <2>1. hex.runtime = Current.runtime
    BY <1>3 DEF CompiledNow
  <2>2. SummaryStage(4, "RuntimeBlocks", hex.runtime)'
    BY <1>2, <1>3, <1>4, SummaryBegins
  <2> QED BY <1>3, <2>1, <2>2 DEF SummaryStage
<1> QED BY <1>3, <1>4, <1>5, <1>6 DEF AllInv, DiffTestStage, SummaryStage

(* "blocks" reads the creation code.                                       *)
LEMMA AllCreation ==
  ASSUME PipelineInv, AllInv, Creation
  PROVE  AllInv'
<1> SUFFICES ASSUME Undisturbed' PROVE AllInv'
  BY DEF AllInv
<1> DEFINE writes == IF hex.creation = Absent THEN <<>> ELSE ShardWrites(hex.creation)
<1>1. Reads("creation", [family |-> "CreationBlocks", code |-> hex.creation], writes)
  BY DEF Creation
<1>2. hex.creation # Absent => hex.creation.shards \in Nat
  BY ShardsAssumption DEF PipelineInv, DirectoryInv, HexInv
<1>3. writes \in Seq(Jobs) /\ (hex.creation # Absent => writes = ShardWrites(hex.creation))
  BY <1>2, ShardWritesFacts
<1> HIDE DEF writes
<1>4. /\ Undisturbed /\ command = "all" /\ At("creation") /\ todo = <<>>
      /\ UNCHANGED <<options, source, spec, hex, lean, shard, index>>
      /\ todo' = writes
      /\ read' = [family |-> "CreationBlocks", code |-> hex.creation] /\ Ran' = Ran + 1
      /\ CompileStage' /\ CompiledNow /\ Current' = Current /\ (Resolved' <=> Resolved)
      /\ CompiledName' = CompiledName
  BY <1>1, <1>3, ReadsNext
<1>5. Ran = 4 /\ Ran' = 5
  BY <1>4, AtStage DEF PipelineInv
<1>6. LeanStage'
  BY <1>4, <1>5, LeanStays DEF AllInv
<1>7. SummaryStage(4, "RuntimeBlocks", Current.runtime)'
  <2>1. Len(todo) = 0
    BY <1>4
  <2>2. /\ \A m \in 1..Current.runtime.shards :
             m + 0 <= Current.runtime.shards + 1 => shard["RuntimeBlocks"][m] = Current.runtime
        /\ index["RuntimeBlocks"] = Current.runtime
    BY <1>4, <1>5, <2>1 DEF AllInv, SummaryStage
  <2> QED BY <1>4, <1>5, <2>2 DEF SummaryStage
<1>8. SummaryStage(5, "CreationBlocks", Current.creation)'
  <2>1. hex.creation = Current.creation /\ Current.creation # Absent
    BY <1>4, CurrentFacts DEF CompiledNow
  <2>2. SummaryStage(5, "CreationBlocks", hex.creation)'
    BY <1>2, <1>3, <1>4, <1>5, <2>1, SummaryBegins
  <2> QED BY <1>4, <2>1, <2>2 DEF SummaryStage
<1> QED BY <1>4, <1>5, <1>6, <1>7, <1>8 DEF AllInv, DiffTestStage

(***************************************************************************)
(* The stages of "all" after "compile" write.                              *)
(***************************************************************************)
LEMMA OtherNow ==
  ASSUME PipelineInv, AllInv, NEW f, f \notin Artifacts \cup {"unsupported"}, Writes(f),
         UNCHANGED <<hex, own, hashes>>, Undisturbed'
  PROVE  /\ Undisturbed /\ command = "all" /\ Ran \in 2..5 /\ Ran' = Ran
         /\ todo # <<>> /\ Head(todo).what = f
         /\ UNCHANGED <<options, source, spec, hex, read>>
         /\ CompiledNow /\ CompileStage' /\ Current' = Current /\ (Resolved' <=> Resolved)
         /\ CompiledName' = CompiledName
         /\ Len(todo) \in Nat /\ Len(todo) >= 1 /\ Len(todo') = Len(todo) - 1
         /\ \A t \in Seq(Jobs) : IsRest(todo, t) =>
              IsRest(todo', t) /\ Head(todo) = t[Len(t) - Len(todo) + 1] /\ Len(todo) <= Len(t)
<1>1. /\ todo # <<>> /\ Head(todo).what = f /\ command' = command /\ undisturbed' = undisturbed
      /\ UNCHANGED <<options, source, vyper, spec, hex, own, hashes, read>>
  BY DEF Writes, inputs
<1>2. Undisturbed /\ command = "all"
  BY <1>1 DEF Undisturbed
<1>3. /\ Ran' = Ran /\ Len(todo) \in Nat /\ Len(todo) >= 1 /\ Len(todo') = Len(todo) - 1
      /\ \A t \in Seq(Jobs) : IsRest(todo, t) =>
           IsRest(todo', t) /\ Head(todo) = t[Len(t) - Len(todo) + 1]
  BY WritesStep DEF PipelineInv
<1>4. \A t \in Seq(Jobs) : IsRest(todo, t) => Len(todo) <= Len(t)
  BY DEF IsRest
<1>5. ~Now("compile")
  BY OtherWritten
<1>6. Ran \in 0..5 /\ Ran # 1 /\ Ran # 0
  BY <1>1, <1>2, <1>5, NowCompiling DEF PipelineInv, AllInv, CompileStage
<1>7. Ran \in 2..5
  BY <1>6
<1>8. CompiledNow /\ (vyper \/ options.contract \in {Absent, Current.name})
  BY <1>2, <1>7 DEF AllInv, CompileStage, Done
<1>9. /\ Current' = Current /\ (Resolved' <=> Resolved) /\ (CompiledNow' <=> CompiledNow)
      /\ CompiledName' = CompiledName
  <2>1. Current' = Current /\ Builds' = Builds /\ CompiledName' = CompiledName
    BY <1>1 DEF Current, Builds, CompiledName
  <2>2. (Several' <=> Several) /\ (HashesHold' <=> HashesHold) /\ (Buildable(source)' <=> Buildable(source))
    BY <1>1, <2>1 DEF Several, HashesHold, Buildable
  <2> QED BY <1>1, <2>1, <2>2 DEF Resolved, CompiledNow
<1>10. CompileStage'
  BY <1>1, <1>3, <1>7, <1>8, <1>9 DEF CompileStage
<1> QED BY <1>1, <1>2, <1>3, <1>4, <1>7, <1>8, <1>9, <1>10

(* Which file of "lean" comes next.                                        *)
LEMMA NextLean ==
  ASSUME CompiledNow, Len(todo) \in Nat, Len(todo) >= 1,
         NEW h, NEW writes, writes = LeanWrites(Made(source, CompiledName)),
         h = writes[Len(writes) - Len(todo) + 1], Len(todo) <= Len(writes)
  PROVE  LET p == Len(writes) - Len(todo) + 1 IN
         /\ p \in 1..4 /\ (p >= 3 => Current.immutables # {})
         /\ p = 1 => h.what = "Bytecode"
         /\ p = 2 => h.what = "Selectors"
         /\ p = 3 => h.what = "Immutables"
         /\ p = 4 => h.what = "ImmutableCode"
<1>1. Immutables(Made(source, CompiledName)) = Current.immutables
  BY CurrentFacts DEF Immutables
<1>2. /\ Len(writes) = IF Current.immutables # {} THEN 4 ELSE 2
      /\ writes[1].what = "Bytecode" /\ writes[2].what = "Selectors"
      /\ Current.immutables # {} => writes[3].what = "Immutables" /\ writes[4].what = "ImmutableCode"
  BY <1>1, LeanWritesFacts
<1>3. PICK k : k = Len(todo)
  OBVIOUS
<1>4. k \in 1..Len(writes) /\ h = writes[Len(writes) - k + 1]
  BY <1>2, <1>3
<1>5. CASE Current.immutables # {}
  <2>1. k = 1 \/ k = 2 \/ k = 3 \/ k = 4
    BY <1>2, <1>4, <1>5
  <2> QED BY <1>2, <1>3, <1>4, <1>5, <2>1
<1>6. CASE Current.immutables = {}
  <2>1. k = 1 \/ k = 2
    BY <1>2, <1>4, <1>6
  <2> QED BY <1>2, <1>3, <1>4, <1>6, <2>1
<1> QED BY <1>5, <1>6

(* The shard, or the index, that comes next.                               *)
LEMMA NextSummary ==
  ASSUME NEW code, code.shards \in Nat, IsRest(todo, ShardWrites(code)),
         Len(todo) \in Nat, Len(todo) >= 1,
         \A t \in Seq(Jobs) : IsRest(todo, t) =>
           IsRest(todo', t) /\ Head(todo) = t[Len(t) - Len(todo) + 1] /\ Len(todo) <= Len(t)
  PROVE  Head(todo).what \in {"shard", "index"}
<1>1. PICK t \in Seq(Jobs) : /\ IsRest(todo, t) /\ Len(t) = code.shards + 1
                             /\ \A m \in 1..code.shards : t[m].what = "shard"
                             /\ t[code.shards + 1].what = "index"
  BY ShardWritesFacts
<1>2. Head(todo) = t[Len(t) - Len(todo) + 1] /\ Len(t) - Len(todo) + 1 \in 1..(code.shards + 1)
  BY <1>1
<1>3. \A m \in 1..(code.shards + 1) : m \in 1..code.shards \/ m = code.shards + 1
  OBVIOUS
<1> QED BY <1>1, <1>2, <1>3

(* A file of "lean", or of a later stage.                                  *)
LEMMA LeanStageWritten ==
  ASSUME PipelineInv, AllInv, NEW f, f \notin Artifacts \cup {"unsupported"}, Writes(f),
         UNCHANGED <<hex, own, hashes>>, Undisturbed',
         \/ f \notin LeanFiles /\ UNCHANGED lean
         \/ WriteLean
  PROVE  LeanStage'
<1>1. /\ Undisturbed /\ command = "all" /\ Ran \in 2..5 /\ Ran' = Ran
      /\ todo # <<>> /\ Head(todo).what = f
      /\ UNCHANGED <<options, source, spec, hex, read>>
      /\ CompiledNow /\ Current' = Current /\ (Resolved' <=> Resolved)
      /\ CompiledName' = CompiledName
      /\ Len(todo) \in Nat /\ Len(todo) >= 1 /\ Len(todo') = Len(todo) - 1
      /\ \A t \in Seq(Jobs) : IsRest(todo, t) =>
           IsRest(todo', t) /\ Head(todo) = t[Len(t) - Len(todo) + 1] /\ Len(todo) <= Len(t)
  BY OtherNow
<1> SUFFICES ASSUME options.force, Resolved PROVE LeanStage'
  BY <1>1 DEF LeanStage
<1>2. PICK writes : writes = LeanWrites(Made(source, CompiledName))
  OBVIOUS
<1>3. writes \in Seq(Jobs) /\ Len(writes) \in Nat /\ LeanWrites(Made(source, CompiledName))' = writes
  BY <1>1, <1>2, LeanWritesFacts
<1>4. AllInv /\ LeanStage
  BY <1>1 DEF AllInv
<1>5. CASE Ran = 2
  <2>1. /\ IsRest(todo, writes) /\ read.name = CompiledName /\ read.build = Made(source, CompiledName)
        /\ read.hex = hex
        /\ Len(todo) + 1 <= Len(writes) => lean["Bytecode"] = BytecodeText(CompiledName, hex)
        /\ Len(todo) + 2 <= Len(writes) =>
             lean["Selectors"] = [abi |-> Current.abi, order |-> spec]
        /\ Len(todo) + 3 <= Len(writes) => lean["Immutables"] = Current.immutables
    BY <1>2, <1>4, <1>5 DEF LeanStage
  <2>2. PICK p : p = Len(writes) - Len(todo) + 1
    OBVIOUS
  <2>3. /\ p \in 1..4
        /\ p = 1 => f = "Bytecode"
        /\ p = 2 => f = "Selectors"
        /\ p = 3 => f = "Immutables"
        /\ p = 4 => f = "ImmutableCode"
    BY <1>1, <1>2, <1>3, <2>1, <2>2, NextLean
  <2>4. f \in LeanFiles /\ WriteLean
    BY <2>3 DEF LeanFiles
  <2>5. PICK g \in LeanFiles :
          /\ Writes(g)
          /\ LET text == CASE g = "Bytecode" -> BytecodeText(read.name, read.hex)
                           [] g = "Selectors" -> SelectorTable(read.name)
                           [] g \in {"Immutables", "ImmutableCode"} -> read.build.immutables
                           [] g = "DiffTarget" -> read
             IN lean' = [lean EXCEPT ![g] = IF Kept(g) THEN @ ELSE text]
    BY <2>4 DEF WriteLean
  <2>6. g = f /\ ~Kept(f)
    BY <1>1, <2>5 DEF Writes, Kept
  <2>7. PICK text :
          /\ lean' = [lean EXCEPT ![f] = text]
          /\ f = "Bytecode" => text = BytecodeText(read.name, read.hex)
          /\ f = "Selectors" => text = SelectorTable(read.name)
          /\ f = "Immutables" => text = read.build.immutables
    BY <2>5, <2>6
  <2>8. lean'[f] = text /\ \A h \in LeanFiles \ {f} : lean'[h] = lean[h]
    BY <2>4, <2>7, LeanWritten DEF PipelineInv, DirectoryInv
  <2>9. /\ f = "Bytecode" => lean'["Bytecode"] = BytecodeText(CompiledName, hex)
        /\ f = "Selectors" => lean'["Selectors"] = [abi |-> Current.abi, order |-> spec]
        /\ f = "Immutables" => lean'["Immutables"] = Current.immutables
    <3>1. SelectorTable(CompiledName) = [abi |-> Current.abi, order |-> spec]
      BY <1>1, Named, CurrentFacts DEF SelectorTable
    <3>2. Made(source, CompiledName).immutables = Current.immutables
      BY <1>1, CurrentFacts
    <3> QED BY <2>1, <2>7, <2>8, <3>1, <3>2
  <2>10. /\ p >= 1 => lean'["Bytecode"] = BytecodeText(CompiledName, hex)
         /\ p >= 2 => lean'["Selectors"] = [abi |-> Current.abi, order |-> spec]
         /\ p >= 3 => lean'["Immutables"] = Current.immutables
    <3>1. /\ p >= 2 => lean["Bytecode"] = BytecodeText(CompiledName, hex)
          /\ p >= 3 => lean["Selectors"] = [abi |-> Current.abi, order |-> spec]
          /\ p >= 4 => lean["Immutables"] = Current.immutables
      BY <1>1, <1>3, <2>1, <2>2
    <3>2. p = 1 \/ p = 2 \/ p = 3 \/ p = 4
      BY <2>3
    <3>3. /\ "Bytecode" \in LeanFiles /\ "Selectors" \in LeanFiles /\ "Immutables" \in LeanFiles
      BY DEF LeanFiles
    <3> QED BY <2>3, <2>8, <2>9, <3>1, <3>2, <3>3
  <2>11. /\ Len(todo') + 1 <= Len(writes) => p >= 1
         /\ Len(todo') + 2 <= Len(writes) => p >= 2
         /\ Len(todo') + 3 <= Len(writes) => p >= 3
    BY <1>1, <1>3, <2>2
  <2>12. IsRest(todo, LeanWrites(Made(source, CompiledName)))'
    BY <1>1, <1>3, <2>1
  <2>13. LET left == Len(todo') IN
           /\ left + 1 <= Len(writes) => lean'["Bytecode"] = BytecodeText(CompiledName, hex)
           /\ left + 2 <= Len(writes) => lean'["Selectors"] = [abi |-> Current.abi, order |-> spec]
           /\ left + 3 <= Len(writes) => lean'["Immutables"] = Current.immutables
    BY <2>10, <2>11
  <2> QED BY <1>1, <1>3, <1>5, <2>1, <2>12, <2>13 DEF LeanStage
<1>6. CASE Ran # 2
  <2>1. /\ 0 + 1 <= Len(writes) => lean["Bytecode"] = BytecodeText(CompiledName, hex)
        /\ 0 + 2 <= Len(writes) => lean["Selectors"] = [abi |-> Current.abi, order |-> spec]
        /\ 0 + 3 <= Len(writes) => lean["Immutables"] = Current.immutables
    BY <1>1, <1>2, <1>4, <1>6 DEF LeanStage
  <2>2. /\ lean'["Bytecode"] = lean["Bytecode"] /\ lean'["Selectors"] = lean["Selectors"]
        /\ lean'["Immutables"] = lean["Immutables"]
    <3>1. CASE UNCHANGED lean
      BY <3>1
    <3>2. CASE WriteLean
      <4>1. PICK g, x : g \in LeanFiles /\ Writes(g) /\ lean' = [lean EXCEPT ![g] = x]
        BY <3>2 DEF WriteLean
      <4>2. g = f
        BY <1>1, <4>1 DEF Writes
      <4>3. f \in {"DiffTarget", "registry", "shard", "index"}
        <5>1. CASE Ran = 3
          <6>1. IsRest(todo, Each(<<"DiffTarget", "registry">>))
            BY <1>1, <5>1 DEF AllInv, DiffTestStage
          <6>2. PICK t \in Seq(Jobs) : /\ IsRest(todo, t) /\ Len(t) = 2
                                       /\ t[1].what = "DiffTarget" /\ t[2].what = "registry"
            BY <6>1, DiffTestFacts
          <6>3. PICK k : k = Len(todo)
            OBVIOUS
          <6>4. k \in Nat /\ k >= 1 /\ k <= Len(t) /\ f = t[Len(t) - k + 1].what
            BY <1>1, <6>2, <6>3
          <6>5. \/ k = 1 /\ f = t[2].what
                \/ k = 2 /\ f = t[1].what
            BY <6>2, <6>4
          <6> QED BY <6>2, <6>5
        <5>2. CASE Ran = 4 \/ Ran = 5
          <6>1. PICK code : code.shards \in Nat /\ IsRest(todo, ShardWrites(code))
            BY <1>1, <5>2, CurrentFacts DEF AllInv, SummaryStage
          <6>2. f \in {"shard", "index"}
            BY <1>1, <6>1, NextSummary
          <6> QED BY <6>2
        <5>3. Ran = 3 \/ Ran = 4 \/ Ran = 5
          BY <1>1, <1>6
        <5> QED BY <5>1, <5>2, <5>3
      <4>4. \A h \in LeanFiles \ {f} : lean'[h] = lean[h]
        BY <4>1, <4>2, LeanWritten DEF PipelineInv, DirectoryInv
      <4>5. /\ "Bytecode" \in LeanFiles \ {f} /\ "Selectors" \in LeanFiles \ {f}
            /\ "Immutables" \in LeanFiles \ {f}
        BY <4>3 DEF LeanFiles
      <4> QED BY <4>4, <4>5
    <3> QED BY <3>1, <3>2
  <2> QED BY <1>1, <1>3, <1>6, <2>1, <2>2 DEF LeanStage
<1> QED BY <1>5, <1>6

(* A shard or the index of a family.                                       *)
LEMMA SummaryWritten ==
  ASSUME SummariesType, NEW k \in {4, 5}, NEW f \in Families, NEW code, code.shards \in 1..MaxShards,
         SummaryStage(k, f, code), Ran = k, Ran' = Ran, todo # <<>>,
         Len(todo) \in Nat, Len(todo) >= 1, Len(todo') = Len(todo) - 1,
         \A t \in Seq(Jobs) : IsRest(todo, t) =>
           IsRest(todo', t) /\ Head(todo) = t[Len(t) - Len(todo) + 1] /\ Len(todo) <= Len(t),
         WriteShard \/ WriteIndex
  PROVE  /\ SummaryStage(k, f, code)'
         /\ \A g \in Families \ {f} : shard'[g] = shard[g] /\ index'[g] = index[g]
<1> DEFINE s    == code.shards
           left == Len(todo)
<1>1. /\ IsRest(todo, ShardWrites(code)) /\ read.family = f /\ read.code = code
      /\ \A m \in 1..s : m + left <= s + 1 => shard[f][m] = code
  BY DEF SummaryStage
<1>2. s \in Nat /\ s >= 1 /\ s <= MaxShards /\ MaxShards \in Nat
  BY ShardsAssumption
<1>3. PICK t \in Seq(Jobs) : /\ t = ShardWrites(code) /\ Len(t) = s + 1
                             /\ \A m \in 1..s : t[m].what = "shard" /\ t[m].n = m
                             /\ t[s + 1].what = "index"
  BY <1>2, ShardWritesFacts
<1> DEFINE h == s + 2 - left
<1>4. left <= s + 1 /\ h \in 1..(s + 1) /\ Head(todo) = t[h]
  <2>1. left <= s + 1 /\ Head(todo) = t[s + 1 - left + 1]
    BY <1>1, <1>3
  <2>2. s + 1 - left + 1 = s + 2 - left /\ s + 2 - left \in 1..(s + 1)
    BY <1>2, <2>1
  <2> QED BY <2>1, <2>2
<1>5. read' = read /\ (\A x : Writes(x) => Head(todo).what = x)
  BY DEF WriteShard, WriteIndex, Writes
<1>6. IsRest(todo', ShardWrites(code))
  BY <1>1, <1>3
<1>7. CASE WriteShard
  <2>1. /\ Head(todo).what = "shard" /\ index' = index
        /\ shard' = [shard EXCEPT ![f][Head(todo).n] = code]
    BY <1>1, <1>5, <1>7 DEF WriteShard
  <2>2. h # s + 1
    BY <1>3, <1>4, <2>1
  <2>3. h \in 1..s /\ Head(todo).n = h /\ h \in 1..MaxShards
    BY <1>2, <1>3, <1>4, <2>2
  <2>4. PICK q, p : q = shard[f] /\ p = [q EXCEPT ![h] = code] /\ shard' = [shard EXCEPT ![f] = p]
    BY <2>1, <2>3
  <2>5. /\ q = [m \in 1..MaxShards |-> shard[f][m]] /\ DOMAIN shard = Families
    BY <2>4 DEF SummariesType
  <2>6. p[h] = code /\ \A m \in 1..s : m # h => p[m] = shard[f][m]
    <3>1. p = [m \in 1..MaxShards |-> IF m = h THEN code ELSE shard[f][m]]
      <4> HIDE DEF h
      <4> QED BY <2>4, <2>5
    <3>2. \A m \in 1..s : m \in 1..MaxShards
      BY <1>2
    <3> QED BY <2>3, <3>1, <3>2
  <2>7. shard'[f] = p /\ \A g \in Families \ {f} : shard'[g] = shard[g]
    BY <2>4, <2>5
  <2>8. \A m \in 1..s : m + (left - 1) <= s + 1 => p[m] = code
    <3> SUFFICES ASSUME NEW m \in 1..s, m + (left - 1) <= s + 1 PROVE p[m] = code
      OBVIOUS
    <3>1. m = h \/ m + left <= s + 1
      BY <1>2
    <3> QED BY <1>1, <2>6, <3>1
  <2>9. left - 1 # 0
    BY <1>2, <2>3
  <2>10. /\ \A m \in 1..s : m + Len(todo') <= s + 1 => shard'[f][m] = code
         /\ Len(todo') # 0
    BY <2>7, <2>8, <2>9
  <2>11. SummaryStage(k, f, code)'
    BY <1>1, <1>5, <1>6, <2>10 DEF SummaryStage
  <2> QED BY <2>1, <2>7, <2>11
<1>8. CASE WriteIndex
  <2>1. /\ Head(todo).what = "index" /\ shard' = shard
        /\ index' = [index EXCEPT ![f] = code]
    BY <1>1, <1>5, <1>8 DEF WriteIndex
  <2>2. h = s + 1
    <3>1. h \in 1..s \/ h = s + 1
      BY <1>2, <1>4
    <3>2. h \notin 1..s
      BY <1>3, <1>4, <2>1
    <3> QED BY <3>1, <3>2
  <2>3. left = 1
    BY <1>2, <2>2
  <2>4. index'[f] = code /\ \A g \in Families \ {f} : index'[g] = index[g]
    BY <2>1 DEF SummariesType
  <2>5. \A m \in 1..s : shard'[f][m] = code
    <3>1. \A m \in 1..s : m + 1 <= s + 1
      BY <1>2
    <3> QED BY <1>1, <2>1, <2>3, <3>1
  <2>6. SummaryStage(k, f, code)'
    BY <1>1, <1>5, <1>6, <2>4, <2>5 DEF SummaryStage
  <2> QED BY <2>1, <2>4, <2>6
<1> QED BY <1>7, <1>8

(* A later stage of "all" writes.                                          *)
LEMMA AllWrites ==
  ASSUME PipelineInv, SummariesType, AllInv,
         WriteLean \/ WriteRegistry \/ WriteShard \/ WriteIndex
  PROVE  AllInv'
<1> SUFFICES ASSUME Undisturbed' PROVE AllInv'
  BY DEF AllInv
<1>1. PICK f : /\ Writes(f) /\ UNCHANGED <<hex, own, hashes>>
               /\ f \in LeanFiles \cup {"registry", "shard", "index"}
               /\ \/ f \notin LeanFiles /\ UNCHANGED lean
                  \/ WriteLean
               /\ f \in {"shard", "index"} <=> WriteShard \/ WriteIndex
               /\ UNCHANGED <<shard, index>> \/ WriteShard \/ WriteIndex
  <2>1. CASE WriteLean
    <3>1. PICK f \in LeanFiles : Writes(f)
      BY <2>1 DEF WriteLean
    <3>2. f \notin {"shard", "index"}
      BY DEF LeanFiles
    <3>3. ~WriteShard /\ ~WriteIndex
      BY <3>1, <3>2 DEF WriteShard, WriteIndex, Writes
    <3> QED BY <2>1, <3>1, <3>2, <3>3 DEF WriteLean
  <2>2. CASE WriteRegistry
    <3>1. Writes("registry") /\ ~WriteShard /\ ~WriteIndex
      BY <2>2 DEF WriteRegistry, WriteShard, WriteIndex, Writes
    <3> QED BY <2>2, <3>1 DEF WriteRegistry, LeanFiles
  <2>3. CASE WriteShard
    BY <2>3 DEF WriteShard, LeanFiles
  <2>4. CASE WriteIndex
    BY <2>4 DEF WriteIndex, LeanFiles
  <2> QED BY <2>1, <2>2, <2>3, <2>4
<1>2. f \notin Artifacts \cup {"unsupported"}
  BY <1>1 DEF Artifacts, LeanFiles
<1>3. /\ Undisturbed /\ command = "all" /\ Ran \in 2..5 /\ Ran' = Ran
      /\ todo # <<>> /\ Head(todo).what = f
      /\ CompiledNow /\ CompileStage' /\ Current' = Current
      /\ Len(todo) \in Nat /\ Len(todo) >= 1 /\ Len(todo') = Len(todo) - 1
      /\ \A t \in Seq(Jobs) : IsRest(todo, t) =>
           IsRest(todo', t) /\ Head(todo) = t[Len(t) - Len(todo) + 1] /\ Len(todo) <= Len(t)
  BY <1>1, <1>2, OtherNow
<1>4. LeanStage'
  BY <1>1, <1>2, LeanStageWritten
<1>5. DiffTestStage'
  BY <1>3, DiffTestFacts DEF AllInv, DiffTestStage
<1>6. /\ SummaryStage(4, "RuntimeBlocks", Current.runtime)
      /\ SummaryStage(5, "CreationBlocks", Current.creation)
      /\ Current.runtime.shards \in 1..MaxShards /\ Current.creation.shards \in 1..MaxShards
      /\ Current.runtime.shards \in Nat /\ Current.creation.shards \in Nat
      /\ "RuntimeBlocks" \in Families /\ "CreationBlocks" \in Families
  BY <1>3, CurrentFacts DEF AllInv, Families
<1>7. CASE Ran = 2 \/ Ran = 3
  <2>1. Ran' # 4 /\ Ran' # 5 /\ ~(Ran' >= 4) /\ ~(Ran' >= 5)
    BY <1>3, <1>7
  <2> QED BY <1>3, <1>4, <1>5, <2>1 DEF AllInv, SummaryStage
<1>8. CASE Ran = 4
  <2>1. IsRest(todo, ShardWrites(Current.runtime))
    BY <1>6, <1>8 DEF SummaryStage
  <2>2. WriteShard \/ WriteIndex
    BY <1>1, <1>3, <1>6, <2>1, NextSummary
  <2>3. SummaryStage(4, "RuntimeBlocks", Current.runtime)'
    <3>1. PICK code : code = Current.runtime
      OBVIOUS
    <3>2. SummaryStage(4, "RuntimeBlocks", code)'
      BY <1>3, <1>6, <1>8, <2>2, <3>1, SummaryWritten
    <3> QED BY <1>3, <3>1, <3>2 DEF SummaryStage
  <2>4. Ran' # 5 /\ ~(Ran' >= 5)
    BY <1>3, <1>8
  <2> QED BY <1>3, <1>4, <1>5, <2>3, <2>4 DEF AllInv, SummaryStage
<1>9. CASE Ran = 5
  <2>1. IsRest(todo, ShardWrites(Current.creation))
    BY <1>6, <1>9 DEF SummaryStage
  <2>2. WriteShard \/ WriteIndex
    BY <1>1, <1>3, <1>6, <2>1, NextSummary
  <2>3. PICK code : code = Current.creation
    OBVIOUS
  <2>4. /\ SummaryStage(5, "CreationBlocks", code)'
        /\ \A g \in Families \ {"CreationBlocks"} : shard'[g] = shard[g] /\ index'[g] = index[g]
    BY <1>3, <1>6, <1>9, <2>2, <2>3, SummaryWritten
  <2>5. SummaryStage(5, "CreationBlocks", Current.creation)'
    BY <1>3, <2>3, <2>4 DEF SummaryStage
  <2>6. SummaryStage(4, "RuntimeBlocks", Current.runtime)'
    <3>1. shard'["RuntimeBlocks"] = shard["RuntimeBlocks"] /\ index'["RuntimeBlocks"] = index["RuntimeBlocks"]
      BY <2>4 DEF Families
    <3> QED BY <1>3, <1>6, <1>9, <3>1 DEF SummaryStage
  <2> QED BY <1>3, <1>4, <1>5, <2>5, <2>6 DEF AllInv
<1> QED BY <1>3, <1>7, <1>8, <1>9

(* Shards and indexes have a place for each number and family.             *)
LEMMA SummariesTyped ==
  ASSUME SummariesType, [Next]_vars
  PROVE  SummariesType'
<1>1. CASE WriteShard
  <2>1. index' = index
    BY <1>1 DEF WriteShard
  <2>2. PICK g, h, p : /\ p = [shard[g] EXCEPT ![h] = read.code]
                       /\ shard' = [shard EXCEPT ![g] = p]
    BY <1>1 DEF WriteShard
  <2>3. shard' = [f \in Families |-> [m \in 1..MaxShards |-> shard'[f][m]]]
    <3>1. DOMAIN shard = Families /\ \A f \in Families : shard[f] = [m \in 1..MaxShards |-> shard[f][m]]
      BY DEF SummariesType
    <3>2. shard' = [f \in Families |-> shard'[f]]
      BY <2>2, <3>1
    <3>3. ASSUME NEW f \in Families PROVE shard'[f] = [m \in 1..MaxShards |-> shard'[f][m]]
      <4>1. CASE f # g
        BY <2>2, <3>1, <4>1
      <4>2. CASE f = g
        <5>1. PICK q : q = shard[g] /\ p = [q EXCEPT ![h] = read.code]
          BY <2>2
        <5>2. q = [m \in 1..MaxShards |-> q[m]]
          BY <3>1, <4>2, <5>1
        <5>3. p = [m \in 1..MaxShards |-> p[m]]
          BY <5>1, <5>2
        <5>4. shard'[f] = p
          BY <2>2, <3>1, <4>2
        <5> QED BY <5>3, <5>4
      <4> QED BY <4>1, <4>2
    <3> QED BY <3>2, <3>3
  <2> QED BY <2>1, <2>3 DEF SummariesType
<1>2. CASE WriteIndex
  <2>1. shard' = shard
    BY <1>2 DEF WriteIndex
  <2>2. PICK g, x : index' = [index EXCEPT ![g] = x]
    BY <1>2 DEF WriteIndex
  <2>3. index' = [f \in Families |-> index'[f]]
    BY <2>2 DEF SummariesType
  <2> QED BY <2>1, <2>3 DEF SummariesType
<1>3. CASE UNCHANGED <<shard, index>>
  BY <1>3 DEF SummariesType
<1> QED BY <1>1, <1>2, <1>3 DEF Next, Step, Compile, CompileVyper, CompileFails, Unsupported, Lean,
      NoTable, LeanFails, DiffTest, DiffTestFails, Blocks, BlocksFail, Creation, Check, CheckFails, Finish,
      WriteHex, WriteOwn, WriteHashes, WriteLean, WriteRegistry, EditSource, EditSpec, Edit,
      Interrupt, Start, Ends, End, Fails, Reads, files, vars

(***************************************************************************)
(* "all" ends.                                                             *)
(***************************************************************************)
LEMMA SummariesAtEnd ==
  ASSUME PipelineInv, AllInv, NEW status, Ends(status),
         status = "ok" /\ command = "all" => At("check")
  PROVE  SummariesCurrent'
<1>1. /\ last' = [command |-> command, options |-> options, status |-> status,
                  undisturbed |-> undisturbed]
      /\ UNCHANGED <<inputs, files, options, shard, index>>
  BY DEF Ends, files
<1>2. Current' = Current
  BY <1>1, CurrentKept
<1> SUFFICES ASSUME status = "ok", command = "all", undisturbed
             PROVE  \A f \in Families :
                      LET code == IF f = "RuntimeBlocks" THEN Current.runtime ELSE Current.creation IN
                      index[f] = code /\ \A m \in 1..code.shards : shard[f][m] = code
  BY <1>1, <1>2 DEF SummariesCurrent, Approved
<1>3. Ran = 5 /\ todo = <<>> /\ Undisturbed
  BY AtStage DEF PipelineInv, Undisturbed
<1>4. Len(todo) = 0
  BY <1>3
<1>5. CompiledNow
  BY <1>3 DEF AllInv, CompileStage, Done
<1>6. /\ \A m \in 1..Current.runtime.shards :
           m + 0 <= Current.runtime.shards + 1 => shard["RuntimeBlocks"][m] = Current.runtime
      /\ index["RuntimeBlocks"] = Current.runtime
  BY <1>3, <1>4 DEF AllInv, SummaryStage
<1>7. /\ \A m \in 1..Current.creation.shards :
           m + 0 <= Current.creation.shards + 1 => shard["CreationBlocks"][m] = Current.creation
      /\ index["CreationBlocks"] = Current.creation
  BY <1>3, <1>4 DEF AllInv, SummaryStage
<1>8. Current.runtime.shards \in Nat /\ Current.creation.shards \in Nat
  BY <1>5, CurrentFacts, ShardsAssumption
<1>9. /\ \A m \in 1..Current.runtime.shards : shard["RuntimeBlocks"][m] = Current.runtime
      /\ \A m \in 1..Current.creation.shards : shard["CreationBlocks"][m] = Current.creation
  BY <1>6, <1>7, <1>8
<1> QED BY <1>6, <1>7, <1>9 DEF Families

(* What "all --force" cannot repair.                                       *)
Excused ==
  \/ vyper \notin Current.compiles
  \/ vyper /\ ~Current.supported
  \/ ~vyper /\ options.contract \notin {Absent, Current.name}
  \/ options.contract = Absent /\ Several

(* A failure of "all --force" that has one of these reasons.               *)
LEMMA ExcusedAtEnd ==
  ASSUME NEW status, Ends(status),
         status = "failed" /\ Undisturbed /\ options.force => Excused
  PROVE  ForceRepairs'
<1>1. /\ last' = [command |-> command, options |-> options, status |-> status,
                  undisturbed |-> undisturbed]
      /\ UNCHANGED <<inputs, files, options, vyper>>
  BY DEF Ends, inputs
<1>2. Current' = Current /\ (Several' <=> Several)
  BY <1>1, CurrentKept
<1> SUFFICES ASSUME Excused
             PROVE  \/ vyper \notin Current.compiles
                    \/ vyper /\ ~Current.supported
                    \/ ~vyper /\ options.contract \notin {Absent, Current.name}
                    \/ options.contract = Absent /\ Several
  BY <1>1, <1>2 DEF ForceRepairs, Undisturbed
<1> QED BY DEF Excused

(* Without such a reason the contract is found.                            *)
LEMMA ResolvedThen ==
  ASSUME AllInv, Undisturbed, Ran \in 1..5, Ran = 1 => todo = <<>>, ~Excused
  PROVE  CompiledNow /\ Resolved
<1>1. CompiledNow /\ (vyper \/ options.contract \in {Absent, Current.name})
  BY DEF AllInv, CompileStage, Done
<1> QED BY <1>1 DEF Excused, Resolved, CompiledName

(* Then no stage fails,                                                    *)
LEMMA CanDoAll ==
  ASSUME CompiledNow, Resolved
  PROVE  CanLean /\ ContractName # Absent /\ CanBlocks
<1>1. /\ ContractName = CompiledName /\ FindBuild(ContractName) = Made(source, CompiledName)
      /\ CompiledName # Absent /\ hex.runtime = Current.runtime /\ hex.runtime # Absent
  BY Named, CurrentFacts, AbsentAssumption DEF CompiledNow
<1>2. Immutables(FindBuild(ContractName)) = Current.immutables
  BY <1>1, CurrentFacts DEF Immutables
<1>3. ~vyper => {i.at : i \in Current.immutables} \subseteq hex.runtime.sites
  BY <1>1, CurrentFacts
<1> QED BY <1>1, <1>2, <1>3 DEF CanLean, CanBlocks

(* "check" finds what the stages have written,                             *)
LEMMA AgreedAtEnd ==
  ASSUME PipelineInv, AllInv, Undisturbed, Ran = 5, todo = <<>>, options.force, CompiledNow, Resolved
  PROVE  Agreed
<1> DEFINE n == CompiledName
           writes == LeanWrites(Made(source, CompiledName))
<1>1. /\ ContractName = n /\ FindBuild(n) = Made(source, CompiledName) /\ n # Absent /\ n \in Names
      /\ hex.runtime = Current.runtime /\ hex.creation = Current.creation /\ HashesHold
      /\ hex.runtime # Absent
  BY Named, CurrentFacts, AbsentAssumption DEF CompiledNow
<1>2. Immutables(Made(source, CompiledName)) = Current.immutables
  BY CurrentFacts DEF Immutables
<1>3. /\ Len(writes) = IF Current.immutables # {} THEN 4 ELSE 2
  BY <1>2, LeanWritesFacts
<1>4. /\ 0 + 1 <= Len(writes) => lean["Bytecode"] = BytecodeText(n, hex)
      /\ 0 + 2 <= Len(writes) => lean["Selectors"] = [abi |-> Current.abi, order |-> spec]
      /\ 0 + 3 <= Len(writes) => lean["Immutables"] = Current.immutables
  BY DEF AllInv, LeanStage
<1>5. /\ lean["Bytecode"] = BytecodeText(n, hex)
      /\ lean["Selectors"] = [abi |-> Current.abi, order |-> spec]
      /\ Current.immutables # {} => lean["Immutables"] = Current.immutables
  BY <1>3, <1>4
<1>6. BytecodeAgrees(n)
  <2>1. BytecodeText(n, hex) = BytecodeText(n, Compiled[source])
    BY <1>1 DEF BytecodeText, Current
  <2>2. BytecodeText(n, hex) # Absent
    BY <1>1, <2>1, CurrentFacts, AbsentAssumption
  <2> QED BY <1>5, <2>2 DEF BytecodeAgrees, BytecodeText
<1>7. HasTable(n) /\ SelectorTable(n) = [abi |-> Current.abi, order |-> spec]
  BY <1>1, CurrentFacts DEF HasTable, SelectorTable
<1>8. ImmutablesAgree(n)
  <2>1. Immutables(FindBuild(n)) = Current.immutables /\ Current.immutables # Absent
    BY <1>1, <1>2, CurrentFacts
  <2>2. Found(Current.immutables, Current.immutables)
    BY DEF Found, Begins
  <2> QED BY <1>5, <2>1, <2>2 DEF ImmutablesAgree
<1> QED BY <1>1, <1>5, <1>6, <1>7, <1>8 DEF Agreed

(* The next file is one of those to write.                                 *)
LEMMA NextJob ==
  ASSUME NEW s \in Seq(Jobs), s # <<>>
  PROVE  /\ Len(s) \in Nat /\ Len(s) >= 1
         /\ \A t \in Seq(Jobs) : IsRest(s, t) =>
              /\ IsRest(Tail(s), t) /\ Len(s) <= Len(t)
              /\ Head(s) = t[Len(t) - Len(s) + 1]
              /\ \E m \in 1..Len(t) : Head(s) = t[m]
<1>1. Len(s) \in Nat /\ Len(s) >= 1
  OBVIOUS
<1>2. ASSUME NEW t \in Seq(Jobs), IsRest(s, t)
      PROVE  /\ IsRest(Tail(s), t) /\ Len(s) <= Len(t)
             /\ Head(s) = t[Len(t) - Len(s) + 1]
             /\ \E m \in 1..Len(t) : Head(s) = t[m]
  <2>1. /\ Len(s) \in 1..Len(t) /\ Len(t) \in Nat /\ IsRest(Tail(s), t)
        /\ Head(s) = t[Len(t) - Len(s) + 1]
    BY <1>2, RestOfRest
  <2>2. PICK k : k = Len(s)
    OBVIOUS
  <2>3. Len(t) - k + 1 \in 1..Len(t) /\ k <= Len(t)
    BY <2>1, <2>2
  <2> QED BY <2>1, <2>2, <2>3
<1> QED BY <1>1, <1>2

(* "lean" finds the table of selectors,                                    *)
LEMMA TableFound ==
  ASSUME PipelineInv, AllInv, Undisturbed, options.force, NoTable
  PROVE  Excused
<1> SUFFICES ASSUME ~Excused PROVE FALSE
  OBVIOUS
<1>1. /\ todo # <<>> /\ Head(todo).what = "no table" /\ command = "all" /\ AllInv
      /\ ProcessInv /\ todo \in Seq(Jobs)
  BY DEF NoTable, Undisturbed, PipelineInv, ProcessInv
<1>2. Len(todo) \in Nat /\ Len(todo) >= 1
  BY <1>1, NextJob
<1>3. \A t \in Seq(Jobs) : IsRest(todo, t) =>
        /\ Head(todo) = t[Len(t) - Len(todo) + 1] /\ Len(todo) <= Len(t)
        /\ \E m \in 1..Len(t) : Head(todo) = t[m]
  BY <1>1, NextJob
<1>4. ~Now("compile")
  <2> SUFFICES ASSUME Now("compile") PROVE FALSE
    OBVIOUS
  <2>1. IsRest(todo, CompileWrites(read.version)) /\ CompileWrites(read.version) \in Seq(Jobs)
    BY CompileWritesFacts DEF PipelineInv, CompileInv
  <2>2. PICK t \in Seq(Jobs) : t = CompileWrites(read.version)
    BY <2>1
  <2>3. PICK m \in 1..Len(t) : Head(todo) = t[m]
    BY <1>3, <2>1, <2>2
  <2>4. \A l \in 1..Len(t) : t[l].what # "no table"
    <3>1. \/ t = SolcWrites \/ t = VyperWrites \/ t = Each(<<"ast", "unsupported">>)
      BY <2>2 DEF CompileWrites
    <3>2. \A l \in 1..6 : l = 1 \/ l = 2 \/ l = 3 \/ l = 4 \/ l = 5 \/ l = 6
      OBVIOUS
    <3>3. \A l \in 1..2 : l = 1 \/ l = 2
      OBVIOUS
    <3> QED BY <3>1, <3>2, <3>3, SolcFacts, VyperFacts, UnsupportedFacts
  <2> QED BY <1>1, <2>3, <2>4
<1>5. Ran \in 2..5
  <2>1. Ran \in 0..5 /\ Ran # 1
    BY <1>1, <1>4, NowCompiling
  <2>2. Ran # 0
    BY <1>1 DEF AllInv, CompileStage
  <2> QED BY <2>1, <2>2
<1>6. CompiledNow /\ Resolved
  BY <1>5, ResolvedThen
<1>7. CASE Ran = 2
  <2>1. PICK w : w = LeanWrites(Made(source, CompiledName))
    OBVIOUS
  <2>2. w \in Seq(Jobs) /\ IsRest(todo, w)
    BY <1>6, <1>7, <2>1, LeanWritesFacts DEF AllInv, LeanStage
  <2>3. Head(todo) = w[Len(w) - Len(todo) + 1] /\ Len(todo) <= Len(w)
    BY <1>3, <2>2
  <2>4. PICK q : q = Len(w) - Len(todo) + 1
    OBVIOUS
  <2>5. /\ q \in 1..4
        /\ (q = 1 => Head(todo).what = "Bytecode") /\ (q = 2 => Head(todo).what = "Selectors")
        /\ (q = 3 => Head(todo).what = "Immutables") /\ (q = 4 => Head(todo).what = "ImmutableCode")
    BY <1>2, <1>6, <2>1, <2>3, <2>4, NextLean
  <2>6. q = 1 \/ q = 2 \/ q = 3 \/ q = 4
    BY <2>5
  <2> QED BY <1>1, <2>5, <2>6
<1>8. CASE Ran = 3
  <2>1. IsRest(todo, Each(<<"DiffTarget", "registry">>))
    BY <1>8 DEF AllInv, DiffTestStage
  <2>2. PICK t \in Seq(Jobs) : /\ IsRest(todo, t) /\ Len(t) = 2
                               /\ t[1].what = "DiffTarget" /\ t[2].what = "registry"
    BY <2>1, DiffTestFacts
  <2>3. PICK m \in 1..2 : Head(todo) = t[m]
    BY <1>3, <2>2
  <2>4. m = 1 \/ m = 2
    OBVIOUS
  <2> QED BY <1>1, <2>2, <2>3, <2>4
<1>9. CASE Ran = 4 \/ Ran = 5
  <2>1. PICK code : code.shards \in Nat /\ IsRest(todo, ShardWrites(code))
    <3>1. /\ Ran = 4 => IsRest(todo, ShardWrites(Current.runtime))
          /\ Ran = 5 => IsRest(todo, ShardWrites(Current.creation))
      BY DEF AllInv, SummaryStage
    <3>2. Current.runtime.shards \in Nat /\ Current.creation.shards \in Nat
      BY <1>6, CurrentFacts
    <3> QED BY <1>9, <3>1, <3>2
  <2>2. PICK t \in Seq(Jobs) : /\ IsRest(todo, t) /\ Len(t) = code.shards + 1
                               /\ \A l \in 1..code.shards : t[l].what = "shard"
                               /\ t[code.shards + 1].what = "index"
    BY <2>1, ShardWritesFacts
  <2>3. PICK m \in 1..(code.shards + 1) : Head(todo) = t[m]
    BY <1>3, <2>2
  <2>4. m \in 1..code.shards \/ m = code.shards + 1
    BY <2>1
  <2> QED BY <1>1, <2>2, <2>3, <2>4
<1> QED BY <1>5, <1>7, <1>8, <1>9

(* and every failure has a reason.                                         *)
LEMMA FailsExcused ==
  ASSUME PipelineInv, AllInv, Undisturbed, options.force,
         \/ CompileFails \/ Unsupported \/ NoTable \/ LeanFails \/ DiffTestFails
         \/ BlocksFail \/ CheckFails
  PROVE  Excused
<1>1. command = "all" /\ ProcessInv
  BY DEF Undisturbed, PipelineInv
<1>2. CASE CompileFails
  BY <1>2 DEF CompileFails, CanCompile, Excused, Current
<1>3. CASE Unsupported
  <2>1. Now("compile") /\ ~Buildable(read.version)
    BY <1>3, NextArtifact DEF Unsupported, Artifacts
  <2>2. read.version = source
    BY <1>1, <2>1, NowCompiling DEF AllInv, CompileStage, Sources
  <2>3. vyper \in Compiled[source].compiles /\ source \in Versions /\ vyper \in BOOLEAN
    BY <2>1, <2>2 DEF PipelineInv, CompileInv, DirectoryInv, FilesType
  <2> QED BY <2>1, <2>2, <2>3 DEF Buildable, Excused, Current
<1>4. CASE LeanFails \/ DiffTestFails \/ BlocksFail \/ CheckFails
  <2> SUFFICES ASSUME ~Excused PROVE FALSE
    OBVIOUS
  <2>1. /\ Ran \in 1..5 /\ todo = <<>>
        /\ CheckFails => Ran = 5
    <3>1. PICK stage : At(stage) /\ stage \in {"lean", "difftest", "blocks", "check"}
                       /\ (CheckFails => stage = "check")
      BY <1>4 DEF LeanFails, DiffTestFails, BlocksFail, CheckFails, Fails, At
    <3> QED BY <1>1, <3>1, AtStage
  <2>2. CompiledNow /\ Resolved
    BY <2>1, ResolvedThen
  <2>3. CanLean /\ ContractName # Absent /\ CanBlocks
    BY <2>2, CanDoAll
  <2>4. CheckFails /\ ~Agreed
    BY <1>4, <2>3 DEF LeanFails, DiffTestFails, BlocksFail, CheckFails
  <2> QED BY <2>1, <2>2, <2>4, AgreedAtEnd
<1> QED BY <1>2, <1>3, <1>4, TableFound

(***************************************************************************)
(* The invariant of the run of "all".                                      *)
(***************************************************************************)
LEMMA AllKept ==
  ASSUME AllInv, UNCHANGED vars
  PROVE  AllInv'
<1>1. /\ UNCHANGED <<inputs, files, command, options, stages, todo, read, undisturbed>>
      /\ UNCHANGED <<source, vyper, spec, hex, lean, shard, index>>
  BY DEF vars, process, inputs, files
<1>2. /\ Ran' = Ran /\ (Undisturbed' <=> Undisturbed) /\ \A k : Done(k)' <=> Done(k)
  BY <1>1 DEF Ran, Undisturbed, Done
<1>3. /\ Current' = Current /\ (Resolved' <=> Resolved) /\ (CompiledNow' <=> CompiledNow)
      /\ CompiledName' = CompiledName
  BY <1>1, CurrentKept
<1>4. CompileStage' <=> CompileStage
  BY <1>1, <1>2, <1>3 DEF CompileStage, Sources
<1>5. LeanStage' <=> LeanStage
  BY <1>1, <1>2, <1>3 DEF LeanStage
<1>6. DiffTestStage' <=> DiffTestStage
  BY <1>1, <1>2 DEF DiffTestStage
<1>7. \A k, f, code : SummaryStage(k, f, code)' <=> SummaryStage(k, f, code)
  BY <1>1, <1>2 DEF SummaryStage
<1> QED BY <1>2, <1>3, <1>4, <1>5, <1>6, <1>7 DEF AllInv

(* "all" starts with nothing done.                                         *)
LEMMA AllStarted ==
  ASSUME PipelineInv, NEW c \in Commands, NEW force, NEW contract \in Contracts, Start(c, force, contract)
  PROVE  AllInv'
<1>1. Ran' = 0 /\ todo' = <<>>
  BY StartStep DEF PipelineInv, Start
<1>2. ~Done(1)'
  BY <1>1 DEF Done
<1>3. CompileStage'
  BY <1>1, <1>2 DEF CompileStage
<1> QED BY <1>1, <1>3 DEF AllInv, LeanStage, DiffTestStage, SummaryStage

(* Every step keeps what "all" has done.                                   *)
LEMMA AllStep ==
  ASSUME PipelineInv, SummariesType, AllInv, [Next]_vars
  PROVE  AllInv'
<1>1. CASE \E status : Ends(status)
  <2>1. command' = "none"
    BY <1>1 DEF Ends
  <2> QED BY <2>1 DEF AllInv, Undisturbed
<1>2. CASE EditSource \/ EditSpec
  <2>1. ~undisturbed'
    BY <1>2 DEF EditSource, EditSpec, Edit
  <2> QED BY <2>1 DEF AllInv, Undisturbed
<1>3. CASE Step
  <2>1. CASE CompileFails \/ Unsupported \/ NoTable \/ LeanFails \/ DiffTestFails \/ BlocksFail
             \/ Check \/ CheckFails \/ Finish
    BY <1>1, <2>1 DEF CompileFails, Unsupported, NoTable, LeanFails, DiffTestFails, BlocksFail,
       Check, CheckFails, Finish, Fails, End
  <2> QED BY <1>3, <2>1, AllCompiles, AllArtifacts, AllLean, AllDiffTest, AllBlocks, AllCreation,
             AllWrites DEF Step
<1>4. CASE Interrupt
  BY <1>1, <1>4 DEF Interrupt
<1>5. CASE \E c \in Commands, force \in BOOLEAN, contract \in Contracts : Start(c, force, contract)
  BY <1>5, AllStarted
<1>6. CASE UNCHANGED vars
  BY <1>6, AllKept
<1> QED BY <1>2, <1>3, <1>4, <1>5, <1>6 DEF Next

(* What the last command left is judged when it ends.                      *)
LEMMA RunsStep ==
  ASSUME RunInv, [Next]_vars
  PROVE  SummariesCurrent' /\ ForceRepairs'
<1>1. PipelineInv /\ AllInv /\ SummariesCurrent /\ ForceRepairs /\ ProcessInv
  BY DEF RunInv, PipelineInv
<1>2. CASE last' = Absent
  BY <1>2 DEF SummariesCurrent, ForceRepairs, Approved
<1>3. CASE Check \/ Finish
  <2>1. Ends("ok") /\ (command = "all" => At("check"))
    BY <1>1, <1>3 DEF Check, Finish, End, ProcessInv
  <2>2. SummariesCurrent'
    BY <1>1, <2>1, SummariesAtEnd
  <2>3. "ok" # "failed"
    OBVIOUS
  <2> QED BY <2>1, <2>2, <2>3, ExcusedAtEnd
<1>4. CASE \/ CompileFails \/ Unsupported \/ NoTable \/ LeanFails \/ DiffTestFails
           \/ BlocksFail \/ CheckFails
  <2>1. Ends("failed")
    BY <1>4 DEF CompileFails, Unsupported, NoTable, LeanFails, DiffTestFails, BlocksFail, CheckFails, Fails, End
  <2>2. Undisturbed /\ options.force => Excused
    BY <1>1, <1>4, FailsExcused
  <2>3. "ok" # "failed"
    OBVIOUS
  <2> QED BY <1>1, <2>1, <2>2, <2>3, SummariesAtEnd, ExcusedAtEnd
<1>5. CASE Interrupt
  <2>1. Ends("interrupted")
    BY <1>5 DEF Interrupt
  <2>2. "ok" # "interrupted" /\ "failed" # "interrupted"
    OBVIOUS
  <2> QED BY <1>1, <2>1, <2>2, SummariesAtEnd, ExcusedAtEnd
<1>6. CASE UNCHANGED vars
  <2>1. UNCHANGED <<inputs, files, options, vyper, shard, index, last>>
    BY <1>6 DEF vars, process, inputs, files
  <2>2. Current' = Current /\ (Several' <=> Several)
    BY <2>1, CurrentKept
  <2> QED BY <1>1, <2>1, <2>2 DEF SummariesCurrent, ForceRepairs, Approved
<1>7. CASE EditSource \/ EditSpec \/ \E c \in Commands, force \in BOOLEAN, contract \in Contracts : Start(c, force, contract)
  <2>1. last' = Absent
    BY <1>7 DEF EditSource, EditSpec, Edit, Start
  <2> QED BY <1>2, <2>1
<1>8. CASE Compile \/ CompileVyper \/ Lean \/ DiffTest \/ Blocks \/ Creation
  <2>1. command # "none" /\ last' = last
    BY <1>8 DEF Compile, CompileVyper, Lean, DiffTest, Blocks, Creation, Reads, At
  <2>2. last' = Absent
    BY <1>1, <2>1 DEF ProcessInv
  <2> QED BY <1>2, <2>2
<1>9. CASE WriteHex \/ WriteOwn \/ WriteHashes \/ WriteLean \/ WriteRegistry \/ WriteShard \/ WriteIndex
  <2>1. todo # <<>> /\ last' = last
    BY <1>9 DEF WriteHex, WriteOwn, WriteHashes, WriteLean, WriteRegistry, WriteShard, WriteIndex, Writes
  <2>2. last' = Absent
    BY <1>1, <2>1 DEF ProcessInv
  <2> QED BY <1>2, <2>2
<1> QED BY <1>3, <1>4, <1>5, <1>6, <1>7, <1>8, <1>9 DEF Next, Step

(***************************************************************************)
(* The pipeline's invariant, what the last command has left, and the two   *)
(* properties of "all" hold together in every state.                       *)
(***************************************************************************)
THEOREM RunInvariant == Spec => []RunInv
<1>1. Init => RunInv
  <2> SUFFICES ASSUME Init PROVE RunInv
    OBVIOUS
  <2>1. PipelineInv
    BY Begun
  <2>2. /\ command = "none" /\ last = Absent
        /\ shard = [f \in Families |-> [n \in 1..MaxShards |-> Absent]]
        /\ index = [f \in Families |-> Absent]
    BY DEF Init
  <2>3. SummariesType
    <3>1. \A f \in Families : shard[f] = [n \in 1..MaxShards |-> Absent]
      BY <2>2
    <3> QED BY <2>2, <3>1 DEF SummariesType
  <2>4. AllInv /\ SummariesCurrent /\ ForceRepairs
    BY <2>2 DEF AllInv, Undisturbed, SummariesCurrent, ForceRepairs, Approved
  <2> QED BY <2>1, <2>3, <2>4 DEF RunInv
<1>2. RunInv /\ [Next]_vars => RunInv'
  BY PipelineStep, SummariesTyped, AllStep, RunsStep DEF RunInv
<1> QED BY <1>1, <1>2, PTL DEF Spec

(***************************************************************************)
(* After "all" has succeeded undisturbed, the summaries that the indexes   *)
(* list are those of the present code.                                     *)
(***************************************************************************)
THEOREM SummariesAreCurrent == Spec => []SummariesCurrent
<1>1. RunInv => SummariesCurrent
  BY DEF RunInv
<1> QED BY <1>1, RunInvariant, PTL

(***************************************************************************)
(* "all --force", undisturbed, fails only where the sources cannot be      *)
(* translated, or which contract is meant is not clear.                    *)
(***************************************************************************)
THEOREM ForceAlwaysRepairs == Spec => []ForceRepairs
<1>1. RunInv => ForceRepairs
  BY DEF RunInv
<1> QED BY <1>1, RunInvariant, PTL
=============================================================================
