---------------------------- MODULE ScaffoldPipeline ----------------------------
(***************************************************************************)
(* src/scripts/scaffold.py on one contract directory.  Its commands read   *)
(* the sources and earlier files and write files one after the other; the  *)
(* user edits the sources and the specification at any time, and a command *)
(* may be interrupted between two writes.  What a file says is what it was *)
(* made from: code and tables are values that the compiler gives for a     *)
(* version of the sources, or Absent.                                      *)
(***************************************************************************)
EXTENDS Naturals, Sequences, SequencesExt

CONSTANTS
  Absent,        \* no such file, or an option that is not given
  NameOrder,     \* contract names, in the order of their file names
  Versions,      \* versions of the sources
  Initial,       \* those to start from
  Compiled,      \* [Versions -> [compiles : SUBSET BOOLEAN (as solc, Vyper),
                 \*   supported : BOOLEAN, name, abi, immutables, runtime, creation : code]],
                 \* immutables is a set of [name, at : Nat], code is [id, sites : SUBSET Nat, shards : Nat]
  Contracts,     \* values of --contract
  Orders,        \* orders of the functions in SpecSyntax.lean
  MaxShards, MaxCommands, MaxEdits, MaxInterrupts,
  MaxDisturbances  \* edits and interrupts together

Names     == ToSet(NameOrder)
LeanFiles == {"Bytecode", "Selectors", "Immutables", "ImmutableCode", "DiffTarget"}
Families  == {"RuntimeBlocks", "CreationBlocks"}

(* build.json, and the module with the bytecode.                           *)
Made(v, name) == [name |-> name, abi |-> Compiled[v].abi,
                  immutables |-> Compiled[v].immutables, version |-> v]
BytecodeText(name, code) == [name |-> name, runtime |-> code.runtime, creation |-> code.creation]

ASSUME NamesAssumption == NameOrder \in Seq(Names) /\ IsInjective(NameOrder)
ASSUME VersionsAssumption == Initial \subseteq Versions
ASSUME ContractsAssumption == Contracts \subseteq Names \cup {Absent}
ASSUME CompiledAssumption ==
  \A v \in Versions : /\ Compiled[v].name \in Names
                      /\ FALSE \in Compiled[v].compiles =>
                           {i.at : i \in Compiled[v].immutables} \subseteq Compiled[v].runtime.sites
ASSUME ShardsAssumption ==
  /\ MaxShards \in Nat
  /\ \A v \in Versions : /\ Compiled[v].runtime.shards \in 1..MaxShards
                         /\ Compiled[v].creation.shards \in 1..MaxShards
(* Vyper's layout, which is among the tables, names the immutables.        *)
ASSUME LayoutAssumption ==
  \A v, w \in {u \in Versions : TRUE \in Compiled[u].compiles /\ Compiled[u].supported} :
    Compiled[v].abi = Compiled[w].abi => Compiled[v].immutables = Compiled[w].immutables
ASSUME AbsentAssumption ==
  /\ Absent \notin Names
  /\ \A v \in Versions :
       /\ Compiled[v].immutables # Absent
       /\ Compiled[v].runtime # Absent /\ Compiled[v].creation # Absent
       /\ \A n \in Names : Made(v, n) # Absent /\ BytecodeText(n, Compiled[v]) # Absent

VARIABLES
  vyper,         \* whether the directory holds a Vyper contract
  source,        \* the version of the sources
  spec,          \* the order of SpecSyntax.lean, or Absent
  hex,           \* runtime.hex and creation.hex
  own,           \* the files that carry a contract's name
  hashes,        \* sources.sha256
  lean,          \* the Lean files of "lean" and "difftest"
  registry,      \* Tests/DiffTest/Generated.lean
  shard, index,  \* the block summaries and their indexes
  command, options, stages, todo, read,   \* the command that runs
  undisturbed,   \* nothing was edited since it started
  last,          \* how the last command ended, while nothing has changed
  commands, edits, interrupts

inputs  == <<vyper, source, spec>>
files   == <<hex, own, hashes, lean, registry, shard, index>>
process == <<command, options, stages, todo, read, undisturbed, last, commands>>
bounds  == <<edits, interrupts>>
vars    == <<inputs, files, process, bounds>>

-----------------------------------------------------------------------------
(* Names and tables.                                                       *)

(* The contracts that have a build.json, by position, and the first of     *)
(* these files.                                                            *)
Builds == {k \in DOMAIN NameOrder : own[NameOrder[k]].build # Absent}
FirstBuild == own[NameOrder[CHOOSE k \in Builds : \A l \in Builds : k <= l]].build
Abis   == {n \in Names : own[n].abi # Absent}

FindBuild(name) ==
  IF name # Absent /\ own[name].build # Absent THEN own[name].build
  ELSE IF Builds = {} THEN Absent ELSE FirstBuild

ContractName ==
  IF options.contract # Absent THEN options.contract
  ELSE IF Builds # {} THEN FirstBuild.name
  ELSE IF Cardinality(Abis) = 1 THEN CHOOSE n \in Names : n \in Abis
  ELSE Absent

(* selector_table: the compiler's signatures, or the ABI's, in the order   *)
(* of the specification.                                                   *)
HasTable(name) == FindBuild(name) # Absent \/ own[name].abi # Absent
SelectorTable(name) ==
  [abi |-> IF FindBuild(name) # Absent THEN FindBuild(name).abi ELSE own[name].abi,
   order |-> spec]

Immutables(build) == IF build = Absent THEN {} ELSE build.immutables

(* Vyper's immutableSuffixSize: where the last slot of 32 bytes ends.      *)
SuffixSize(slots) == IF slots = {} THEN 0 ELSE Max({s.at : s \in slots}) + 32

-----------------------------------------------------------------------------
(* Commands and stages.                                                    *)

Commands == {"all", "blocks", "compile", "lean", "difftest", "check"}

(* Fault: the summaries are generated before the sources are compiled.     *)
BlocksFirst(c) ==
  CASE c = "all" -> <<"blocks", "creation", "compile", "lean", "difftest", "check">>
    [] c = "blocks" -> <<"blocks", "creation">>
    [] OTHER -> <<c>>
Stages(c) ==
  CASE c = "all" -> <<"compile", "lean", "difftest", "blocks", "creation", "check">>
    [] c = "blocks" -> <<"blocks", "creation">>
    [] OTHER -> <<c>>

File(what)   == [what |-> what, n |-> 0]
Each(whats)  == [n \in DOMAIN whats |-> File(whats[n])]

(* What "compile" writes, in this order.                                   *)
SolcWrites  == Each(<<"runtime", "creation", "abi", "ast", "build", "hashes">>)
VyperWrites == Each(<<"ast", "runtime", "creation", "abi", "build", "hashes">>)

(* What "lean" writes; without a table it fails after the first file.      *)
LeanWrites(build) ==
  Each(<<"Bytecode", "Selectors">>
       \o IF Immutables(build) # {} THEN <<"Immutables", "ImmutableCode">> ELSE <<>>)
TablelessWrites == Each(<<"Bytecode", "no table">>)

ShardWrites(code) ==
  [n \in 1..code.shards |-> [what |-> "shard", n |-> n]] \o <<File("index")>>

(* "compile" has no --force, "blocks" and "check" make no use of it.       *)
Forcible == {"all", "lean", "difftest"}

Start(c, force, contract) ==
  /\ command = "none" /\ commands < MaxCommands
  /\ force => c \in Forcible
  /\ command' = c /\ options' = [force |-> force, contract |-> contract]
  /\ stages' = Stages(c) /\ todo' = <<>> /\ read' = Absent
  /\ undisturbed' = TRUE /\ last' = Absent /\ commands' = commands + 1
  /\ UNCHANGED <<inputs, files, bounds>>

Ends(status) ==
  /\ command' = "none" /\ stages' = <<>> /\ todo' = <<>> /\ read' = Absent
  /\ last' = [command |-> command, options |-> options, status |-> status,
              undisturbed |-> undisturbed]
  /\ UNCHANGED <<inputs, files, edits, options, undisturbed, commands>>

End(status) == Ends(status) /\ UNCHANGED interrupts

At(stage) == command # "none" /\ todo = <<>> /\ stages # <<>> /\ Head(stages) = stage

(* A stage has read what it needs and knows what it will write.            *)
Reads(stage, what, writes) ==
  /\ At(stage)
  /\ read' = what /\ todo' = writes /\ stages' = Tail(stages)
  /\ UNCHANGED <<inputs, files, bounds, command, options, undisturbed, last, commands>>

Fails(stage) == At(stage) /\ End("failed")

(* cmd_compile: nothing is written when the compiler fails, or when solc   *)
(* does not know the contract asked for.  A Vyper file is one contract,    *)
(* and goes by the name asked for.                                         *)
CanCompile ==
  /\ vyper \in Compiled[source].compiles
  /\ vyper \/ options.contract \in {Absent, Compiled[source].name}

CompiledName ==
  IF options.contract # Absent THEN options.contract ELSE Compiled[source].name
Sources == [version |-> source, name |-> CompiledName]

Compile ==
  /\ CanCompile /\ ~vyper
  /\ Reads("compile", Sources, SolcWrites)

(* cmd_compile_vyper: the annotated syntax tree is written before the      *)
(* immutables are looked at.                                               *)
CompileVyper ==
  /\ CanCompile /\ vyper
  /\ Reads("compile", Sources,
           IF Compiled[source].supported THEN VyperWrites ELSE Each(<<"ast", "unsupported">>))

CompileFails == ~CanCompile /\ Fails("compile")

Unsupported ==
  /\ todo # <<>> /\ Head(todo).what = "unsupported"
  /\ End("failed")

(* cmd_lean.  Bytecode.lean is written before the selectors are looked up. *)
CanLean == ContractName # Absent /\ hex.runtime # Absent

Lean ==
  /\ CanLean
  /\ LET build == FindBuild(ContractName) IN
     Reads("lean", [name |-> ContractName, build |-> build, hex |-> hex],
           IF HasTable(ContractName) THEN LeanWrites(build) ELSE TablelessWrites)

NoTable ==
  /\ todo # <<>> /\ Head(todo).what = "no table"
  /\ End("failed")

LeanFails == ~CanLean /\ Fails("lean")

DiffTest ==
  /\ ContractName # Absent
  /\ Reads("difftest", [immutables |-> Immutables(FindBuild(ContractName)) # {},
                        creation |-> hex.creation # Absent],
           Each(<<"DiffTarget", "registry">>))

DiffTestFails == ContractName = Absent /\ Fails("difftest")

(* cmd_blocks: the sites of immutables must be payloads of the code.       *)
CanBlocks ==
  /\ ContractName # Absent /\ hex.runtime # Absent
  /\ vyper \/ {i.at : i \in Immutables(FindBuild(ContractName))} \subseteq hex.runtime.sites

Blocks ==
  /\ CanBlocks
  /\ Reads("blocks", [family |-> "RuntimeBlocks", code |-> hex.runtime],
           ShardWrites(hex.runtime))

BlocksFail == ~CanBlocks /\ Fails("blocks")

Creation ==
  Reads("creation", [family |-> "CreationBlocks", code |-> hex.creation],
        IF hex.creation = Absent THEN <<>> ELSE ShardWrites(hex.creation))

-----------------------------------------------------------------------------
(* cmd_check.                                                              *)

BytecodeAgrees(name) ==
  /\ lean["Bytecode"] # Absent /\ lean["Bytecode"].name = name
  /\ lean["Bytecode"].runtime = hex.runtime
  /\ hex.creation # Absent => lean["Bytecode"].creation = hex.creation

(* The decimal digits of m begin with those of n; sizes are below 10^5.    *)
Begins(m, n) == m = n \/ \E p \in {10, 100, 1000, 10000} : m \div p = n

(* For Vyper each slot expected, and "size := N", is only searched for in  *)
(* the text of the file.                                                   *)
Found(slots, listed) ==
  slots \subseteq listed /\ Begins(SuffixSize(listed), SuffixSize(slots))

ImmutablesAgree(name) ==
  LET expected == Immutables(FindBuild(name))
      listed   == lean["Immutables"]
  IN expected # {} => /\ listed # Absent
                      /\ IF vyper THEN Found(expected, listed) ELSE listed = expected

(* Fault: only the artifacts are compared with sources.sha256.             *)
ArtifactsHold ==
  hashes # Absent =>
    /\ hashes.hex = hex /\ hashes.abi = own[hashes.name].abi
    /\ ~vyper => hashes.ast = own[hashes.name].ast

(* Without sources.sha256 there is nothing to compare.                     *)
HashesHold ==
  hashes # Absent =>
    /\ hashes.source = source
    /\ hashes.hex = hex /\ hashes.abi = own[hashes.name].abi
    /\ ~vyper => hashes.ast = own[hashes.name].ast

Agreed ==
  /\ ContractName # Absent /\ hex.runtime # Absent
  /\ BytecodeAgrees(ContractName)
  /\ HasTable(ContractName) /\ lean["Selectors"] = SelectorTable(ContractName)
  /\ ImmutablesAgree(ContractName)
  /\ HashesHold

(* Always the last stage.                                                  *)
Check      == At("check") /\ Agreed /\ End("ok")
CheckFails == ~Agreed /\ Fails("check")

Finish ==
  /\ command # "none" /\ todo = <<>> /\ stages = <<>>
  /\ End("ok")

-----------------------------------------------------------------------------
(* Writing a file.                                                         *)

Writes(what) ==
  /\ todo # <<>> /\ Head(todo).what = what
  /\ todo' = Tail(todo)
  /\ UNCHANGED <<inputs, command, options, stages, read, undisturbed, last, commands, bounds>>

WriteHex ==
  \E f \in {"runtime", "creation"} :
    /\ Writes(f)
    /\ hex' = [hex EXCEPT ![f] = Compiled[read.version][f]]
    /\ UNCHANGED <<own, hashes, lean, registry, shard, index>>

(* The ABI stands for the storage layout and the metadata as well.         *)
WriteOwn ==
  \E f \in {"abi", "ast", "build"} :
    /\ Writes(f)
    /\ LET text == CASE f = "abi" -> Compiled[read.version].abi
                     [] f = "ast" -> read.version
                     [] f = "build" -> Made(read.version, read.name)
       IN own' = [own EXCEPT ![read.name] = [@ EXCEPT ![f] = text]]
    /\ UNCHANGED <<hex, hashes, lean, registry, shard, index>>

(* write_hashes: the sources and files as they are by then.                *)
WriteHashes ==
  /\ Writes("hashes")
  /\ hashes' = [source |-> source, name |-> read.name, hex |-> hex,
                abi |-> own[read.name].abi, ast |-> own[read.name].ast,
                compiled |-> read.version]
  /\ UNCHANGED <<hex, own, lean, registry, shard, index>>

(* Fault: --force does not reach the files of "lean".                      *)
AlwaysKept(f) == lean[f] # Absent
Kept(f) == lean[f] # Absent /\ ~options.force

(* write_file, and what the file says.                                     *)
WriteLean ==
  \E f \in LeanFiles :
    /\ Writes(f)
    /\ LET text == CASE f = "Bytecode" -> BytecodeText(read.name, read.hex)
                     [] f = "Selectors" -> SelectorTable(read.name)
                     [] f \in {"Immutables", "ImmutableCode"} -> read.build.immutables
                     [] f = "DiffTarget" -> read
       IN lean' = [lean EXCEPT ![f] = IF Kept(f) THEN @ ELSE text]
    /\ UNCHANGED <<hex, own, hashes, registry, shard, index>>

WriteRegistry ==
  /\ Writes("registry")
  /\ registry' = (lean["DiffTarget"] # Absent)
  /\ UNCHANGED <<hex, own, hashes, lean, shard, index>>

(* write_outputs: shards of an earlier run that are not written stay.      *)
WriteShard ==
  /\ Writes("shard")
  /\ shard' = [shard EXCEPT ![read.family][Head(todo).n] = read.code]
  /\ UNCHANGED <<hex, own, hashes, lean, registry, index>>

WriteIndex ==
  /\ Writes("index")
  /\ index' = [index EXCEPT ![read.family] = read.code]
  /\ UNCHANGED <<hex, own, hashes, lean, registry, shard>>

-----------------------------------------------------------------------------
(* The user.                                                               *)

Edit ==
  /\ edits < MaxEdits /\ edits + interrupts < MaxDisturbances /\ edits' = edits + 1
  /\ undisturbed' = FALSE /\ last' = Absent
  /\ UNCHANGED <<vyper, files, command, options, stages, todo, read, commands, interrupts>>

EditSource == Edit /\ (\E v \in Versions \ {source} : source' = v) /\ UNCHANGED spec
EditSpec   == Edit /\ (\E o \in Orders \ {spec} : spec' = o) /\ UNCHANGED source

Interrupt ==
  /\ command # "none" /\ interrupts < MaxInterrupts /\ edits + interrupts < MaxDisturbances
  /\ interrupts' = interrupts + 1
  /\ Ends("interrupted")

Init ==
  /\ vyper \in BOOLEAN /\ source \in Initial /\ spec = Absent
  /\ hex = [runtime |-> Absent, creation |-> Absent]
  /\ own = [n \in Names |-> [abi |-> Absent, ast |-> Absent, build |-> Absent]]
  /\ hashes = Absent /\ registry = FALSE
  /\ lean = [f \in LeanFiles |-> Absent]
  /\ shard = [f \in Families |-> [n \in 1..MaxShards |-> Absent]]
  /\ index = [f \in Families |-> Absent]
  /\ command = "none" /\ options = [force |-> FALSE, contract |-> Absent]
  /\ stages = <<>> /\ todo = <<>> /\ read = Absent
  /\ undisturbed = TRUE /\ last = Absent /\ commands = 0 /\ edits = 0 /\ interrupts = 0

Step ==
  \/ Compile \/ CompileVyper \/ CompileFails \/ Unsupported
  \/ Lean \/ LeanFails \/ NoTable
  \/ DiffTest \/ DiffTestFails \/ Blocks \/ BlocksFail \/ Creation \/ Check \/ CheckFails
  \/ Finish \/ WriteHex \/ WriteOwn \/ WriteHashes \/ WriteLean \/ WriteRegistry
  \/ WriteShard \/ WriteIndex

Next ==
  \/ Step \/ EditSource \/ EditSpec \/ Interrupt
  \/ \E c \in Commands, force \in BOOLEAN, contract \in Contracts :
       Start(c, force, contract)

Spec == Init /\ [][Next]_vars

-----------------------------------------------------------------------------
(* Properties.                                                             *)

(* The command that ended told the user that all is well ...               *)
Approved == last # Absent /\ last.command \in {"check", "all"} /\ last.status = "ok"

Current == Compiled[source]

(* ... of the contract that was named, or of the only one there is, and    *)
(* that was compiled last; ...                                             *)
Several == \E k, l \in Builds : k # l
Unambiguous ==
  \/ last.options.contract = hashes.name
  \/ last.options.contract = Absent /\ ~Several

(* ... no edit fell between the compiler's reading of the sources and      *)
(* their hashing, ...                                                      *)
Hashed == hashes # Absent /\ hashes.compiled = hashes.source

(* ... and build.json, which sources.sha256 does not cover, is not of      *)
(* another version: it takes two interrupted compilations to leave it so,  *)
(* with all other files as they should be.                                 *)
OwnBuild == interrupts < 2 \/ own[hashes.name].build = Made(source, hashes.name)

(* What "check" cannot tell from the immutables of a Vyper contract: a     *)
(* file of another version with more slots, whose size begins with the     *)
(* same digits (320 for 32).                                               *)
StaleSlots ==
  /\ vyper /\ lean["Immutables"] # Current.immutables
  /\ Found(Current.immutables, lean["Immutables"])

(* A directory that "check" approves holds what the present sources        *)
(* compile to and the specification asks for, whatever was edited,         *)
(* interrupted, kept or left behind before, but for slots too many.        *)
VerdictSound ==
  Approved /\ Hashed /\ Unambiguous /\ OwnBuild =>
    /\ ~vyper => hashes.name = Current.name
    /\ hex = [runtime |-> Current.runtime, creation |-> Current.creation]
    /\ own[hashes.name].abi = Current.abi
    /\ ~vyper => own[hashes.name].ast = source
    /\ lean["Bytecode"] = BytecodeText(hashes.name, Current)
    /\ lean["Selectors"] = [abi |-> Current.abi, order |-> spec]
    /\ Current.immutables # {} => lean["Immutables"] = Current.immutables \/ StaleSlots

(* After "all" succeeded the summaries that the indexes list are those of  *)
(* the present code as well, although nothing checks them.                 *)
SummariesCurrent ==
  Approved /\ last.command = "all" /\ last.undisturbed =>
    \A f \in Families :
      LET code == IF f = "RuntimeBlocks" THEN Current.runtime ELSE Current.creation IN
      index[f] = code /\ \A n \in 1..code.shards : shard[f][n] = code

(* "all --force" repairs every directory: when it is neither interrupted   *)
(* nor disturbed it fails only where the sources cannot be translated.     *)
ForceRepairs ==
  last # Absent /\ last.command = "all" /\ last.options.force /\ last.status = "failed"
  /\ last.undisturbed =>
    \/ vyper \notin Current.compiles
    \/ vyper /\ ~Current.supported
    \/ ~vyper /\ last.options.contract \notin {Absent, Current.name}
    \/ last.options.contract = Absent /\ Several
=============================================================================
