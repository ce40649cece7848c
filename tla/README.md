# A TLA+ model of EquiVM

EquiVM proves in Lean that EVM bytecode refines a specification written in a
small imperative language, Stele. Everything such a proof says rests on the
Stele semantics: what a storage write does to slots, what a failed call leaves
behind, what static mode forbids. Those definitions are the reference, so Lean
has nothing to check *them* against. This project states independently what
they should amount to (a byte array, an array of arrays, nested transactions,
read-only execution) and checks that they do.

The other half of the repository is the Python tooling in `scripts/`: it turns
a contract's sources and bytecode into a draft of the specification, block
theorems, dispatch lemmas and a proof scaffold. Lean checks what it produces,
but a draft that says something else than the source elaborates well, a false
lemma costs a day, and a stale file is proved about as happily as a fresh one.
Here the project compares each generator with what its output is about: the
source language's own execution, the EVM's, or the compiler's artefacts.

    tlc -config MCSolidityBytes.cfg MCSolidityBytes.tla
    tlapm SolidityBytesProofs.tla

## 1. Inventory of the system

| Part | Where | State | Operations | Interacts with |
|---|---|---|---|---|
| Solidity storage backend | `Stele/SolidityStorage.lean`, `SolidityLayout.lean` | slots of the executing account | read, write, clear, length, push, pop over declared types | statements and expressions through `StorageBackend`; word loads and stores below |
| Transient backend | `Stele/TransientStorage.lean` | transient slots, dropped at the end of a transaction | the same set, in a copy of the code | as above |
| Vyper backend | `Stele/VyperStorage.lean`, `VyperLayout.lean` | slots, with declared capacities | the same set; keeps stale data behind the length; checks a whole reference on each use | as above |
| Words and packed locations | `Stele/Storage.lean`, `StorageLaws.lean` | one slot | load, read-modify-write of some bytes or bits | all backends |
| Expressions | `Semantics/Eval.lean`, `ValueOps.lean` | none (they read state) | evaluation, casts, checked arithmetic, resolving storage references | backends (reads, lengths), statements |
| Statements | `Semantics/Exec.lean` | frame (locals, immutables) and EVM state | `ExecStmt`, `ExecForLoop`, `ExecBlock`, `ExecFuncBody` | all of the above; calls |
| Message calls, creation | `Semantics/Calls.lean` and the call rules of `Exec.lean` | account map, environment of a frame (owner, sender, value, permission, depth) | typed, low-level and checked call, delegate call, `new` | the EVM's theta and lambda, which run *bytecode*, so also this same contract again |
| Dispatch, entry | `Semantics/Dispatch.lean`, `steleExec`, `steleCtorExec` | none | selector, receive, fallback, constructor | ABI decoding, then a body |
| Interpreter | `Interp.lean`, `Interp/Sound.lean`, `Interp/Complete.lean` | fuel, oracle state | executable twin of the rules | an oracle answers calls |
| Differential testing | `DiffTest/*.lean` | recorded call boundaries, mismatches | trace, replay, compare | interpreter and EVM |
| Refinement judgement | `Refine.lean`, `Behaviors.lean`, `Result.lean` | none | which results correspond | everything |
| ABI | `ABI/*.lean` | none | encode, decode, signatures | dispatch, typed calls, returned data |
| Layouts | `MetaSolidityLayout.lean`, `MetaVyperLayout.lean` | none (compile time) | build a locator from compiler output | backends |
| Proof library, contracts | `Reasoning/`, `Proofs/`, `Benchmarks/`, `Examples/` | none | Lean proofs, instances | - |
| Scaffolding commands | `scripts/scaffold.py`, `bytecode_io.py` | files of a contract directory | compile, lean, blocks, difftest, check, all | compilers; every other script works on this directory |
| Block summary generator | `scripts/generate_rd_blocks.py`, `evm_tools.py` | blocks, runs and pieces found so far; terms, costs and hypotheses of a summary | cut the code; execute a piece symbolically; render | `scaffold.py blocks`, the benchmark checker, the skeleton |
| Benchmark block checker | `scripts/check_all_benchmark_blocks.py` | shards, markers, a pool of workers | generate, compile, mark | the generator, Lean |
| Solidity translator | `scripts/sol2stele.py` | names given, functions needed and split, write-back sets, temporaries | one handler per AST node; inlining; worklist | solc's AST in, `SpecSyntax.lean` out |
| Vyper translator | `scripts/vy2stele.py` | module tree, names given, functions needed, storage items | the same for Vyper | Vyper's AST and layout in |
| Selector tables and names | `scripts/scaffold.py`, `evm_tools.py` | the order in `SpecSyntax.lean` | table, overload names | drafts, edits, proof files |
| Proof skeleton generator | `scripts/proof_skeleton.py` | path, symbolic stack, decisions, lemmas | walk the dispatcher; write lemmas and stubs | summaries, selector table |
| Reports, audits, checklists | the other scripts | none | print | - |

In the semantics there are no threads and no messages in flight: the source of
concurrency is *re-entrancy*. A call runs foreign code in the middle of a statement, which may
call back, write the caller's storage, and then fail together with any number
of the frames around it. The other hard behaviours are representation changes
(31 and 32 bytes are stored in different shapes), state read before and used
after a store, references that outlive what they name, and boundaries (depth,
nonce, word width, empty containers). The tools add a pool of workers, commands
that are interrupted between two writes while files and sources change under
them, names and sets that are revised after they were used, and symbolic
execution, where one text stands for many executions.

What makes each part correct:

* *backends*: slots are an implementation of a plain value. What was stored
  earlier is never seen again, and equal values are stored in equal slots,
  because the refinement judgement compares account maps slot by slot;
* *calls*: a call keeps all of its effects or none; permission, depth, context,
  ether and nonces are right at any depth and in any order of re-entry;
* *statements and interpreter*: each statement has a result, the interpreter
  has the same one, fuel is never mistaken for failure (planned);
* *dispatch, replay, judgement*: no message and no recorded call is matched
  with the wrong counterpart (planned);
* *generators*: what they state is true of the code, and of all of it: summaries
  of the machine, drafts of the source, lemmas of every message. Names that are
  given on demand refer to what was meant. Work lists and fixed points end;
* *commands*: an approved directory is what the sources say, however its files
  came about; interrupted work is neither lost nor taken for done.

`PROJECT.json` lists each hazard at its line with the properties that cover it.

## 2. Modules

    ByteString          <--refines--  SolidityBytes   <- MCSolidityBytes,  SolidityBytesProofs
    RowList             <--refines--  SolidityArray   <- MCSolidityArray,  SolidityArrayProofs
    NestedTransactions  <--refines--  MessageCalls    <- MCMessageCalls,   MessageCallsProofs

    Bytecode <- CodeBlocks, BlockSummary <- BlockGenerator       <- MCBlockGenerator
    DraftSyntax   <- DraftFunction   |
    MemoryEffects <- MemoryWriteback | <- SolidityTranslator     <- MCSolidityTranslator
                     DraftContract   |
    MemoryEffects                                                <- MemoryEffectsProofs
    DraftContract                                                <- DraftContractProofs
    BenchmarkBlocks                                              <- MCBenchmarkBlocks,  BenchmarkBlocksProofs
    ScaffoldPipeline                                             <- MCScaffoldPipeline, ScaffoldPipelineProofs
    DispatcherWalk                                               <- MCDispatcherWalk
    VyperModules                                                 <- MCVyperModules
    VyperLock                                                    <- MCVyperLock, VyperLockProofs

### SolidityBytes (implements ByteString)

One storage variable of type `bytes` or `string`. `header` is the header slot,
kept as what the code extracts from it: the form bit (`checkBytesPacked`), the
length, and for the packed form the left-aligned bytes. `data` is the run of
data slots as one function of byte positions. One action per backend operation:
`Read`, `Length`, `Write`, `Push`, `Pop`, `Delete`, `GetByte`, `SetByte`, and
the reverts `Panic` (a header in neither form), `PopEmpty`, `OutOfBounds`.
`StoreShort` and `StoreLong` are the branches of `solidityWriteBytesValue?`; its
chain of stores is one expression in the order of the code (clear, then fill,
then header).

`Init` is *any* contents of the slots: the specification starts in an account
that other code has used. `ByteString` knows nothing of slots; an undecodable
header is the abstract value "no byte array", on which everything reverts.

The data slots of two variables are disjoint (Keccak is taken as injective), so
one variable is enough. In the unpacked form the bytes of the header above the
last are bits of the length; nothing is kept for them. The mask with 127 of a
packed length is not modelled: lengths stay below 64 here.

### SolidityArray (implements RowList)

A dynamic array whose members are dynamic arrays, `uint[][]`: the smallest type
on which clearing has to recurse, and on which a stale length matters. `length`
is the array's length slot; `slots` holds length and cells of every row that
could exist, present or not. The actions are the backend operations on the array
(`Assign`, `Delete`, `Push`, `Grow` = push without a value, `Pop`, `PopEmpty`)
and on one row (`AssignRow`, `DeleteRow`, `PushCell`, `GrowCells`, `PopCell`,
`AssignCell`, `RowRevert`).

`Bind` is Stele's `letStorage`: it evaluates a reference, checks its indices, and
keeps the result in a local. `resolveStorageRef?` later appends steps to the
stored reference and checks only the new ones, so a row can be written through
it after it was popped. The constant `DanglingWrites` says whether contracts do
that. `refs` only grows (a local can be kept to the end of a body), and `stray`
is a history variable, the rows written while they were not in the array; no
action reads it.

### MessageCalls (implements NestedTransactions)

One message and all calls and creations below it. `world` is the account map:
balance, nonce, one storage and one transient location per account, and
`spent`, the history of (creator, nonce) pairs that addresses were derived from.
`stack` is the chain of open frames with the environment the rules pass on, and
with the account map to go back to. `status` is how the innermost body is doing
and `outcome` the result of the message. Bodies are arbitrary: the innermost
frame executes any statement whose rule applies. A call statement is split in
the call (`Call`, `DelegateCall`, `New`) and the end of the frame it opened
(`Return`, `Unwind`), so everything the callee does, re-entry included, happens
between the two. Calls that run nothing have actions of their own
(`CallNotMade`, `CallCodeless`, `NewNotCreated`).

Theta and lambda belong to an external EVM package. Their part (moving the
value, giving a created account nonce one, undoing a failed call) is modelled as
the rules use it and marked external in the map. Gas is not tracked by Stele
(it is existential in the rules), so a callee may fail at any point (`Revert` is
always possible). Locals and returned data are left out: a statement that only
touches those is a stutter, and whether returned bytes decode is a free choice.

`NestedTransactions` has no environment and no permission bit per frame. Its
read-only rule looks at *all* open transactions, which the program cannot do:
that each frame's own bit is enough is what the refinement shows.

### BlockSummary

`simulate` of `generate_rd_blocks.py` executes a piece of a block symbolically
and states a theorem: from these inputs, under these hypotheses, the state is
described by these terms. The module runs it next to the EVM, one instruction
per step, on one valuation of the names; terms are data, evaluated by `Eval`,
`EvalMem`, `EvalActive`, `EvalWorld`. What a term says must stay true after
later stores, expansions and copies, which is what the checks look for. The
machine (`Ethereum.EVM`) is external.

### Bytecode, CodeBlocks

`Bytecode` holds disassembly, jump destinations, metadata and the pattern of a
full copy of returned data. `CodeBlocks` cuts a code into basic blocks, supported
runs and pieces of bounded length, in the loops of the source
(`TakeInstruction`, `NextRun`, `CutPiece`), and then runs an execution over it
(`Execute`) to ask whether the theorems can be chained along it.

`BlockGenerator` puts both parts of the generator into one specification: an
execution either cuts a code and follows its theorems, or summarises one piece.
Codes are bytes and pieces are instructions of the machine of `BlockSummary`, so
what joins the two is the piece alone.

### BenchmarkBlocks

A run of `check_all_benchmark_blocks.py`: generation of the shards, the pool
(`Take`, `UseCached`, `LeanAccepts`, `LeanFails`; a timeout is a failure), markers that hold the hash of a
shard's text, interruption at any moment with a half-written marker, and,
between runs, edits of benchmarks and of the library. Fairness is on the steps of
a run: the process continues unless it is interrupted, and a compilation ends
because it is started with a timeout.

### DraftSyntax, DraftFunction

`DraftSyntax` has the statements and expressions of both languages and one
interpreter, with the rules that differ marked by the statement kinds that only
one language has. `DraftFunction` builds a function statement by statement:
`Stmt` is the handler of each statement kind in `sol2stele.py`, with
hoisting of calls into `__cN`, checked and wrapping arithmetic, modifiers and
base constructors put around the body at the end (`Finish`). `DraftFaithful`
runs source and draft in every world of the instance and compares storage, the
log of external calls and events, reverts and results. The components of a tuple
keep the order of reads and calls (`InTemporary`, `DeclareTupleDraft`: each is kept
or declared right after its own calls), operands and the values of a `return` do
not. Which operand of an operator comes first is left to the compiler (solc
evaluates the right one first, via IR the left one), and so to the world
(`rightfirst`).

### MemoryEffects, MemoryWriteback

`MemoryEffects` is the fixed point of `sol2stele.py` over "which memory
parameters may a function modify" (`Scan`, `Repeat`, `Finish`).
`MemoryWriteback` adds what it is for: functions whose draft returns the objects
and assigns them back at the call, run in both languages. Objects have one field;
a body is any short sequence of touching, reading, replacing and aliasing an
object and of calls, mutual recursion included. A function that another calls is
drafted as an internal one (`IsInternal`), with its objects handed back and with
holes for what it does to them; one that nothing calls is external. (The two are apart because a
module with recursive operators cannot be proved about.)

### DraftContract

Which functions the Solidity draft contains, under which names: externals, the
second pass over split ones, the constructor, then the worklist. One action
begins a function, one translates its next call, as names that a call asks for
and takes back depend on the order. A call's target is computed as `effective`
does, and compared with the language's. A surface name is a record of the parts
that `surface_name` joins (owner, name, parameters, suffix), so two names whose
parts differ but read alike when joined, `A_f` of its own and `f` of `A`, are
told apart here and not in the draft.

### SolidityTranslator

The three parts of `sol2stele.py` in one specification, which extends the first
two and instantiates `DraftFunction`. Each looks at an aspect
of the source that the others leave out (what bodies do to memory, which
functions exist and call which, what a body does statement by statement), so an
execution gives one of them something to translate.

### VyperLock

The lock of `@nonreentrant` as `render_function` and `render_default` write it:
a check and an assignment at the entry of a wrapper, an internal body, an
assignment at the end. Frames are entered by messages (`Enter`), also while
others run, by internal calls, and left by `Return` or by `Revert`, which
unwinds to the frame where the message began and restores the lock's old value.

### VyperModules

How a contract and the modules it imports become one Stele contract: every
module is reached along a path of aliases, which is the prefix of what it
declares; the surface (getters, functions, exported ones, one entry for each
number of default arguments left out) asks for internal functions and for bodies
of locked ones, these for more (`Round`), and is put into the order of the
selectors (`Grouped`). Storage is declared at the end: by the compiler's layout,
whose entries are sorted by slot (`BySlot`) and padded (`Declare`), or in the order
of the sources, and a lock that is not listed goes to the front (`Finish`). A name
is the sequence of its words.

### ScaffoldPipeline

`scaffold.py` on one directory. A command is the sequence of its reads and
writes (`Stages`); `Step` makes the next one. `EditSource`, `EditSpec` and `Interrupt`
happen between any two. A file's content is what it was made from. The state
includes the files that carry a contract's name, one set for each name; the
build files are found in the order of their names (`FirstBuild`). solc compiles
the contract that `--contract` names and fails on another name; Vyper compiles
its file and uses the name (`CompiledName`). `lean` writes `Bytecode.lean` before
it looks for the selectors, and may then fail (`NoTable`).

### DispatcherWalk

Classes `Dispatcher` and `ProofGen` of `proof_skeleton.py`: the global guard,
then for every lemma a walk with symbols for what is not known of the messages,
which forks at comparisons it cannot decide (`Follow`). `RunsThrough` executes
the same dispatcher on concrete messages.

## 3. What the runs show

### The semantics

| Run | Bounds | Shows |
|---|---|---|
| `solidity_bytes` | 2-byte words, 2 byte values, up to 5 bytes; 15,012 states | `TypeOK`; `CanonicalPreserved`: from clean slots, each operation leads to the slots a first write of the value would leave; `ImplementsByteString` from any slots |
| `message_calls` | 2 contracts and 2 vacant addresses, one wei, words modulo 4, depth limit 2, nonce cap 3, 4 statements; 104,992 states | all properties of `MessageCalls` below |
| `static_call_value` (violation) | the same, with value 1 offered to a STATICCALL | `StaticCallMovesNoEther` fails |
| `solidity_array` | 2 rows of 2 cells over 2 values, dangling writes; 9,250 states | `ImplementsRowList`: while no row past the end was written through a reference that outlived it, every step is one of an array of arrays; `NoHiddenCells`: nothing stays behind the end of a row; `ResidueOnlyByDangling`: a removed row is empty unless it was written that way |
| `array_grow` (violation) | the same | `GrownRowIsZero` fails |

The properties of `message_calls`:

* `StaticInert`: while a frame without permission is open, every frame above it
  has none and the account map is the one it was entered with;
* `NextCreationIsFresh`: the nonce the next creation would use was never used,
  with constructors that call back into their creator;
* `EtherConserved`: balances sum to what they were, for values that are
  negative or at the word size;
* `ContextKept`: a frame under any number of delegate calls has the address,
  sender and value of the frame that was really called;
* `StaticHaltOnlyIfEnteredStatic`: `staticViolation` is the outcome of messages
  entered in static mode only; deeper in it is a failed call;
* `ImplementsNestedTransactions`.

Every property is broken by a plausible fault of the definitions it is about.
The operators commented `Fault:` are these faults; no specification uses them.

**Why the bounds are enough.** *Bytes*: with two-byte words a value is packed up
to length 1, fills one data word at 2 and needs two words, the last half empty,
at 3, and three at 5, so every change of form, of word count and of padding
happens, in both directions, from every initial content. *Array*: the array can
lose its only row or the last of two; a row can be assigned a shorter, equal or
longer value, or be popped to empty; a reference can dangle to a row below or at
the length. *Calls*: three frames allow A-B-A re-entry, a delegate call inside a
delegate call, and a creation whose constructor calls back into the creator; the
limit is hit at depth 2 and the nonce cap by the third creation; one wei is
affordable once. `MaxStatements` bounds the length of a run, not what happens in
it, and only in `MCMessageCalls`; its module checks deadlock off, because a
message that has ended, or has used up its statements, stops. The limits on
length in the storage modules (`MaxLen`, `MaxRows`, `MaxCells`) appear as guards
of the growing actions and in the sets of values.

### The tools

| Run | Bounds | Shows |
|---|---|---|
| `block_generator` | codes of 4 to 8 bytes with payloads, metadata and unsupported opcodes, maximal lengths 1, 2, 3, 5; pieces of up to 4 instructions from four themes over words 0..3, 16 valuations; 1,530,000 states | `NothingLost`: pieces are a partition; `FullCopiesWhole`; `TheoremsChain`: every execution can be followed along the theorems; `SummarySound`: a theorem is true of the machine; `HypothesesExact`: it asks for no more than the execution needs |
| `benchmark_blocks` | 2 benchmarks, 3 codes, 2 libraries, 2 workers; 205,776 states | `SuccessMeansAccepted`, `NoShardForgotten`, `RunEnds` |
| `solidity_translator` | bodies of up to 2 of 49 statements, 10 functions, 48 worlds; two functions of two memory parameters, bodies of up to 3 statements, calls 3 deep; a contract, its base and a library, 9 functions with overloads, overrides, private ones; 217,306 states | `DraftFaithful`, `LeastFixedPoint`, `WritebackFaithful`, `CallsDefined`, `DispatchFaithful`, `TranslationEnds` |
| `scaffold_pipeline` | 4 versions of the sources as Solidity or Vyper, 3 commands, 2 edits, 2 interruptions, 3 of both together; 4,941,967 states | `VerdictSound`, `SummariesCurrent`, `ForceRepairs` |
| `vyper_lock` | 8 functions of all kinds, 5 frames; 8,007 states | `WritersRunAlone`: of the locked functions that messages have called, one that changes state runs alone; `NoneAbove`, `LockMeansHeld` |
| `vyper_modules` | 4 source files, 724 programs; 21,276 states | `NamesResolve`; `TableIsSurface`: the selector table of `scaffold.py` and the draft agree at every index; `ReadsDeclared`; `StorageKept`: slots as the compiler gives them, also where an override reverses them, or the sources' order |
| `dispatcher_walk` | 28 dispatchers of four functions, all messages; 1,080 states | `LemmasHold`: every lemma written with its proof is true of all messages it speaks of |

**Why the bounds are enough.** A summary of four instructions pushes a term,
spoils what it reads, and reads it; the themes keep together what interacts
(stack and jumps; memory and expansion; storage, warmth and gas; returned data).
Codes are long enough for a full copy to lie across every cut. Two workers and
two benchmarks make every race of the pool; three codes share a first shard, so
a marker can be for another code's text. In `MemoryWriteback` two functions give
self and mutual recursion in both orders of the AST, and crossed arguments. In
`DraftContract` a chain of demand through four functions can take a name back
after it was written. In `ScaffoldPipeline` three commands allow compile, edit,
compile again and check, with files left from each, and a Vyper contract of ten
immutables becomes one of a single immutable under the old `Immutables.lean`.
Five frames hold a locked function, an internal call, a callback, and two more
in it; or a locked view, an unlocked function it calls, and the locked one that
this must not reach. The walk's limit on
pieces (`Limit`) is hit by the looping dispatcher only.

The runs of generators, and of `scaffold_pipeline`, whose commands are counted,
check deadlock off: what is done stops. `BenchmarkBlocks` and `VyperLock` never
stop, and deadlock is checked there. `MaxCommands`, `MaxEdits`, `MaxInterrupts`,
`MaxDisturbances`,
`MaxDepth`, `MaxPiece`, `MaxLength` and `Depth` are the bounds that the code does
not have.

**Fairness and liveness.** `RunEnds` of `BenchmarkBlocks` assumes that a process
which is not interrupted goes on and that compilations end, which their timeout
guarantees. `TranslationEnds` of `SolidityTranslator` is about a sequential
program: weak fairness of the next step of its loops says that the process is
scheduled, and that the passes over the write-back sets and the list of needed
functions come to an end is what is checked. Nothing is assumed of the statement
handlers, whose number of steps the source gives. The semantics is a relation
without scheduler, so nothing is assumed and no liveness claimed there.

### Where code and documentation disagree

1. `Syntax/Basic.lean:283` says that `lowLevelCall` with `perm = false` "models
   raw `.staticcall`". STATICCALL has no value operand; the rules
   (`Exec.lean:402-408` and the typed and checked forms) pass the statement's
   value on to theta whatever `perm` is, and the notation accepts a value there.
   The run transfers a wei to a read-only callee. The theorems that need it
   assume `ViewsFree` (STATICCALLs offer no value).
2. `Syntax/Basic.lean:304-305` says of a push without a value that "the new
   slots are zero". The code stores the new length only
   (`SolidityStorage.lean:443-448`). The slots are zero if nothing was written
   through a dangling reference: `ImplementsRowList` shows the one,
   `GrownRowIsZero` the other. (Solidity itself behaves as the code does.)

In the tools the properties leave out, each by a named condition or by the
choice of inputs, what the code is known to do differently:

* `DraftFaithful` leaves out the seven cases of `Divergent`: calls hoisted out of
  `&&`, `||` and `?:` (`SkippedCall`, `sol2stele.py:508`), a value that is read
  before a hoisted call or assignment that changes it, in one expression or one
  `return` (`ReadBeforeCall`: `s + act()` in one of the two orders, `return (s,
  act())`; 508, 989, 1489), a `return` under a
  modifier (`ReturnUnderModifier`, 1635), `break` and `continue` in a `do` loop
  (`ExitFromDo`, 1423), `try` on an account without code (`TryWithoutCode`,
  1521), a body that ends without returning its unnamed result (`NoValue`), and
  inlined bodies that share a local's name (`Captured`).
* `WritebackFaithful` leaves out three patterns of shared objects that are no
  holes: `SharedName` (850), `SharedArgument` (909), and `ExternalAlias`, an object
  written to under a second name in an external function, for which the hole of
  internal ones is not written (1702).
* `CallsDefined` leaves out overloads of which one is a public function that is
  called internally (`Overloaded`, 241: both become `<f>_body`), and
  `DispatchFaithful` calls that Solidity resolves statically while another
  function of that signature comes first in the hierarchy (`Hidden`, 212).
* `VerdictSound` assumes that the sources were not edited between the compiler's
  reading and their hashing (`Hashed`, `scaffold.py:430`), and that the contract
  is the only one built or was named (`Unambiguous`): after a renaming,
  `find_build` (98) may take the old contract's build file, for `lean` and
  `check` alike. `OwnBuild` is a third premise, and the proof found it: no hash
  covers `build.json` (`scaffold.py:430`), the last file before
  `sources.sha256`. Compile version 2 to the end; edit to version 1 and interrupt
  its compilation after `build.json`; edit back to version 2 and interrupt
  again, before `build.json`. Code, ABI and AST now agree with the hashes of
  version 2, `build.json` is version 1's, and `lean` and `check` agree on a
  selector table of the wrong version. One interruption cannot do this
  (`InterruptsInv`), so the premise reads "fewer than two interruptions, or the
  contract's `build.json` is that of the sources". The shortest such execution has
  five commands, more than the run allows; it was found by running the model with
  the commands compile, lean and check only.
* `VerdictSound` names one more case, `StaleSlots`: for a Vyper contract `check`
  looks for each slot, and for `size := N`, in the text of `Immutables.lean`
  (1091-1097), so a file that an earlier version left, with more slots and a size
  that begins with the same digits (`size := 320` for `size := 32`), is approved
  too. The command's description (`scaffold.py:16`) says that `check` verifies that
  immutable offsets agree. The run reaches it: `all` with ten immutables, an edit
  that leaves one, `all --force` interrupted after `Selectors.lean`, and `check`. For a Solidity contract the offsets are compared as they are.
  `SummariesCurrent` is about the shards that the index lists: `blocks`
  overwrites shards, with or without `--force`, and removes none.
* `SuccessMeansAccepted` says "with this library or an earlier one": a marker
  does not depend on the imported library. Shards of an earlier, longer code are
  compiled as well (`check_all_benchmark_blocks.py:150`), and may fail the run.
* the programs of `vyper_modules` reach no module along two paths, whose
  variables the draft would have twice (`vy2stele.py:277`), export no function
  with a lock, and declare no name that a prefix or a trailing underscore makes
  equal to another (199, 267). A layout that leaves a used lock out has no
  variable of its kind: the lock's declaration would move them by a slot (1846).
  A locked function that is called internally runs
  without taking the lock (`require_internal`, 1036): the compiler accepts no
  such call from a locked function, and `WritersRunAlone` speaks of the locked
  functions that messages call. The head comment of `vy2stele.py` (17) promises
  the lock protocol around the body; an unlocked function that calls a locked
  internal one leaves the lock free, and a message may enter a locked function
  above it.
* the dispatchers of `dispatcher_walk` have no check `calldatasize > 4`
  (`proof_skeleton.py:620` decides it wrongly at four bytes), no selector pushed
  with PUSH3 (its arm is not found, `evm_tools.py:193`), and no nonpayable
  fallback behind a linear search, whose branch is taken for a global guard.
  None branches on the value, goes on both ways and then searches by halves;
  the guard would be found at the fork (718-724; `Fork` follows this), although
  the messages with value are not all alike. Lean rejects the lemmas of these
  dispatchers, whose proofs name hypotheses the lemma does not have (751-756,
  1010); the skeleton then does not build.

## 4. What is proved

`SolidityBytesProofs`, `SolidityArrayProofs`, `MessageCallsProofs`,
`VyperLockProofs`, `BenchmarkBlocksProofs`, `MemoryEffectsProofs`,
`DraftContractProofs` and `ScaffoldPipelineProofs` hold the theorems, for all values of the constants that satisfy the named assumptions
(`Zero` is a byte, the word has more than one byte, bounds are naturals, ...).

| Theorem | States | Argument |
|---|---|---|
| `SolidityBytesProofs!TypeCorrect` | `[]TypeOK` | inductive; `StepCases` splits each store by the form before and after |
| `SolidityBytesProofs!NoResidue` | `CanonicalPreserved` | for each store, the slots after it are computed from those before; clean old slots past the new words are zero or get cleared |
| `SolidityBytesProofs!Refinement` | `ImplementsByteString` | each step is a step of `ByteString` or a stutter, from `TypeOK` alone: residue may exist but no operation reads it |
| `MessageCallsProofs!TypeCorrect` | `[]TypeOK` | `StepCases` reduces every statement to seven shapes (stand, mutate, enter, leave, unwind, finish, fail), used by all proofs after it |
| `MessageCallsProofs!StaticModeIsInert` | `[]StaticInert`, if `ViewsFree` | inductive with `TypeOK` |
| `MessageCallsProofs!CreationsAreFresh` | `[]NextCreationIsFresh` | strengthened to "spent nonces of an account are below its nonce", in the current world and in every world that could be restored, where `spent` also goes back |
| `MessageCallsProofs!StaticHaltNeedsStaticEntry` | `[]StaticHaltOnlyIfEnteredStatic` | strengthened with what a static status says of the innermost frame |
| `MessageCallsProofs!DelegatesKeepContext` | `[]ContextKept` | every frame is served by some frame below it (`Serves`); entering a delegate frame inherits its server |
| `MessageCallsProofs!CallsAreTransactions` | `ImplementsNestedTransactions`, if `ViewsFree` | each shape of step is a step of the abstract module; `StaticInert` gives the read-only rule |
| `SolidityArrayProofs!TypeCorrect`, `NothingBehindRows`, `RemovedRowsEmpty` | `[]TypeOK`, `[]NoHiddenCells`, `[]ResidueOnlyByDangling` | one inductive invariant `Inv`: every row, present or not, is tidy (zero from its length on) and removed rows are empty or stray. Neither of the last two is inductive without the other: a push exposes what a pop left |
| `SolidityArrayProofs!Refinement` | `ImplementsRowList` | `stray` only grows, so a step that ends without stray rows began without; by `Inv` a valueless push then exposes an empty row, and every other step maps to its abstract namesake through lemmas about the value of an edited row and of an edited sequence of rows |
| `VyperLockProofs!TypeCorrect`, `Exclusive`, `NothingLockedAbove`, `HeldWhileRunning`, `Released` | the four invariants of the run, and that every function can be called between transactions, for every contract, EVM version and depth | `LockInv`: the invariants are inductive with `BeforeSound` (what a frame would restore is the temporary value exactly if a frame below it has taken the lock; without it a revert could bring back any value), `SettersHold` (holders are the messages of functions that set the lock, and are not static) and `QuietAbove` (above a view or a static frame every message is static). The last two give the half of `WritersRunAlone` that `NoneAbove` does not: a function that sets the lock is not entered above a locked view, however many unlocked functions lie between |
| `BenchmarkBlocksProofs!BlocksInvariant`, `NothingForgotten`, `SuccessSound` | `[]NoShardForgotten`, `[]SuccessMeansAccepted`, for any benchmarks, codes, libraries and workers, and whatever Lean accepts | `BlocksInv`: a marker is evidence (`MarkersTrue`), a shard is in one place and on disk (`WorkApart`), and a run has the shards of every benchmark that it has generated waiting, held or settled (`Progress`). The last needs the first two: that a marker settles a shard is true only of the text that is there now, and that nothing is lost only if a worker that ends had the shard alone |
| `MemoryEffectsProofs!PassInvariant`, `PassesExact`, `PassesGrow` | `[]LeastFixedPoint`, and that no pass takes back a finding, for any functions and parameters | `PassInv`: findings are in every set that call chains do not lead out of (`Sound`); each function's finding is below what it would find now (`Growing`); a pass without change leaves what it went over as it would find it again (`Quiet`). At the end all are (`Settled`), and then the findings themselves are such a set, so nothing is missing (`SettledComplete`). "May modify" is defined by closed sets and not by paths, so no induction is needed |
| `DraftContractProofs!DraftInvariant`, `DispatchSound`, `CallsResolved` | `[]DispatchFaithful`, `[]CallsDefined`, for any hierarchy and any functions | `DraftInv`: names belong to exactly the needed functions and have their form (`NamesInv`); every call in a text went to where dispatch takes it, to a needed function, and, unless overloads are in the way, under the name that function has *now* (`TextsInv`); functions before the position of the work list have a text (`WorkInv`). The hard part is a name that is taken back: `Give` after `Forget` returns the same name, because two functions of one signature have different bases (`OneBase`), one of another signature would make it overloaded, and a public function has its suffix from the first call on |
| `ScaffoldPipelineProofs!PipelineInvariant`, `VerdictsSound` | `[]VerdictSound`, for any sources, contract names and number of commands, edits and interruptions | `PipelineInv`: what `sources.sha256`, `build.json` and the Lean files say of each other; which files a compilation has written, by the number of those to come (`CompileInv`, `Written`); and `InterruptsInv`: with no interruption so far `build.json` agrees with the hashes but for the last write of a compilation, with one it agrees with the hashes or with the ABI and AST beside it, unless a compilation of that contract is between them. Without the contract's name in it this is not inductive: another contract's compilation would excuse the disagreement |
| `ScaffoldPipelineProofs!RunInvariant`, `SummariesAreCurrent`, `ForceAlwaysRepairs` | `[]SummariesCurrent`, `[]ForceRepairs` | `RunInv`: `PipelineInv` and, while `all` runs undisturbed, what each stage has left for the later ones (`CompileStage`, `LeanStage`, `SummaryStage`); that `--force` succeeds follows stage by stage (`CanDoAll`, `TableFound`, `AgreedAtEnd`), and every way to fail has one of four reasons (`FailsExcused`) |

**Assumptions.** `BenchmarkBlocks`: codes have between one and `MaxShards` shards
(`ShardCountAssumption`), and the values for "no file" and "no work" are neither
texts nor shards (`TextAssumption`, `NoWorkAssumption`). `MemoryEffects`: parameters differ and
calls are to functions of the source (`ProgramsAssumption`). `DraftContract`: the
source is one that solc accepts, that is, a hierarchy without repetition, one
function for a signature in a contract, calls to functions that exist, and
`super` to a base's that is not private (`SourcesAssumption`). `ScaffoldPipeline`:
what solc calls an immutable's position is a site of the runtime code
(`CompiledAssumption`), file names are
ordered (`NamesAssumption`), and two versions with equal Vyper tables have equal
immutables (`LayoutAssumption`): the layout file, which lists them, is one of
the tables. TLC evaluates each of them on the instance.

**Found by proving.** Each invariant was checked by TLC as one of a run before it
was proved. Three formulas did not survive the attempt. `VerdictSound` needs
`OwnBuild` (section 3): its bounded check allowed one interruption only.
`Unambiguous` was too weak when another `--contract` was given. In
`DraftContract` Solidity binds a library's functions statically (`Statically`),
which the instance with one library could not tell.

**Only model-checked.**

* Liveness: `RunEnds` and `TranslationEnds`. `PassesGrow` is why the passes can
  end, but that they do is a statement under fairness.
* `EtherConserved` sums balances with a fold over the set of accounts: what a
  fold over a set becomes when one summand changes needs induction over the set.
* `NothingLost`, `FullCopiesWhole` and `TheoremsChain` of `CodeBlocks`, and
  `LemmasHold` of `DispatcherWalk`: what disassembly,
  folds and selections over a code compute needs induction over the code.
* `SummarySound`, `HypothesesExact`, `WritebackFaithful`, `DraftFaithful`,
  `NamesResolve`, `TableIsSurface`, `ReadsDeclared`, `StorageKept`: the interpreters of
  `BlockSummary`, `MemoryWriteback`, `DraftSyntax` and `VyperModules` are RECURSIVE
  operators, which the provers do not take. They are checked on all inputs up to
  a size.

The violated properties are refuted, not proved.

## 5. What is not modelled, and the plan

Not planned: layout generation, notation and syntax, the bytecode proof library,
contract proofs (no run-time state), reports and audits (they only print), the
order and the Lean names of selector tables (text processing), and the text that the generators render once their content is decided. The EVM
package itself is not in the repository.

Planned, in order:

1. `SteleExec`: small-step control flow (blocks, `if`, `while`, `for`, `break`,
   `continue`, `return`, internal calls and the frames they restore), composed
   with `MessageCalls` by replacing its arbitrary bodies; then `SteleInterp`, the
   interpreter with fuel, against it.
2. `VyperStorage`, `PackedSlot`, `TransientBytes`: the other storage code against
   the abstract specifications at hand.
3. `Replay` with the refinement verdict: recorded boundaries consumed in order.
4. `VyperDraft` and `VyperDispatch`: Vyper's statements and expressions, and the
   jump table.
5. `Dispatch`, `ValueOps` and ABI heads and tails against reference definitions
   on bounded inputs.
6. Proofs: what `CodeBlocks` says of pieces, with the code's instructions as a
   recursive function and the loops' own invariants instead of induction over the
   code; `StorageKept` of `VyperModules`, the layout's loop taken apart from the
   recursive operators as `MemoryEffects` was.

Known hazards of the parts to come: a push at length 2^256 - 1 wraps the length
word (`SolidityStorage.lean:443`); a `for` loop's update block runs after a body
that falls through or continues and not after one that breaks or returns
(`Exec.lean:605`); whether a name is transient storage is decided by the locals
at that moment (`Exec.lean:110`); an internal call must not leak locals
(`Exec.lean:101`); running out of fuel must surface as that (`Interp.lean:545`);
a Vyper length word above the capacity is used as is (`VyperStorage.lean:47`);
the transient backend is a copy that can drift (`TransientStorage.lean:109`); a
packed store must keep its neighbours (`Storage.lean:105`); short calldata
(`Dispatch.lean:21`), cyclic constants (`Eval.lean:166`) and offsets added modulo
2^256 (`ABI/Decode.lean:429`).
