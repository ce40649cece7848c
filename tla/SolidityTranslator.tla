-------------------------- MODULE SolidityTranslator --------------------------
(***************************************************************************)
(* src/scripts/sol2stele.py, its three parts side by side: which memory    *)
(* parameters are handed back (MemoryWriteback), which functions are       *)
(* drafted under which names (DraftContract), and what becomes of a body   *)
(* (DraftFunction).  Each looks at its own aspect of the source, so an     *)
(* execution gives one of them something to translate and the others an    *)
(* empty contract.                                                         *)
(***************************************************************************)
EXTENDS MemoryWriteback, DraftContract

CONSTANTS
  Statements, MaxLength, Functions, Worlds        \* see DraftFunction

VARIABLES
  fn, statements, draft, tmp, notes, drafted

Function == INSTANCE DraftFunction

functionVars == <<fn, statements, draft, tmp, notes, drafted>>

NoCalls ==
  /\ program = [f \in ToSet(Names) |-> <<>>]
  /\ writebacks = [f \in ToSet(Names) |-> {}]
  /\ next = 1 /\ changed = FALSE /\ finished = TRUE
NoFunctions ==
  /\ source = [functions |-> <<>>, constructor |-> <<>>]
  /\ names = <<>> /\ needed = <<>> /\ split = {}
  /\ texts = <<>> /\ entry = <<>> /\ todo = <<>>
  /\ turn = "done" /\ at = 1
NoBody ==
  /\ fn = [mods |-> <<>>, returns |-> <<>>, bases |-> <<>>]
  /\ statements = <<>> /\ draft = <<>> /\ tmp = 0 /\ notes = {} /\ drafted = TRUE

allVars == <<memoryVars, contractVars, functionVars>>

TranslatorInit ==
  \/ PassesInit /\ NoFunctions /\ NoBody
  \/ NoCalls /\ ContractInit /\ NoBody
  \/ NoCalls /\ NoFunctions /\ Function!Init

TranslatorNext ==
  \/ PassesNext /\ UNCHANGED <<contractVars, functionVars>>
  \/ ContractNext /\ UNCHANGED <<memoryVars, functionVars>>
  \/ Function!Next /\ UNCHANGED <<memoryVars, contractVars>>

(* The passes and the work list are loops that nothing interrupts.  (How   *)
(* long a body is, the source decides.)                                    *)
TranslatorSpec ==
  /\ TranslatorInit /\ [][TranslatorNext]_allVars
  /\ WF_memoryVars(PassesNext) /\ WF_contractVars(ContractNext)

-----------------------------------------------------------------------------
(* A draft is in its language and does what the source does, but for the   *)
(* exceptions that DraftFunction names.                                    *)
DraftFaithful == Function!DraftFaithful

(* The passes end and the list of needed functions empties, also when      *)
(* functions call each other in circles.                                   *)
TranslationEnds == <>(finished /\ turn = "done")
=============================================================================
