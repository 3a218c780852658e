------------------------------ MODULE MCNative ------------------------------
(***************************************************************************)
(* The code under lib and what setup.ps1 writes for it, on small           *)
(* instances: the assembly store and its opener, the libraries and the     *)
(* linker that loads them, the compiler driver, and the binary documents   *)
(* and their reader.  The parts share no state, so a behaviour is one of a *)
(* single part; the others stay at `Idle', and the state spaces add up.    *)
(***************************************************************************)
EXTENDS MCAssemblyStore

CONSTANTS Processes, Starts, Loader

VARIABLES
  part,
  lib, reader, mem, relro,
  args, forAs, triple, features, found, errors, step,
  doc, damage, words, cursor, depth, namespaces, pool, sawPool, ids, sawMap, elements, verdict

ElfCases == INSTANCE MCElfReader
Elf == INSTANCE ElfReader
Arm == INSTANCE MCArmDriver
Xml == INSTANCE MCResources

elfVars == <<lib, reader, mem, relro>>
armVars == <<args, forAs, triple, features, found, errors, step>>
xmlVars == <<doc, damage, words, cursor, depth, namespaces, pool, sawPool, ids, sawMap, elements, verdict>>
nativeVars == <<part, vars, elfVars, armVars, xmlVars>>

-----------------------------------------------------------------------------

ElfIdle == lib = "idle" /\ reader = "idle" /\ mem = "idle" /\ relro = "idle"
ArmIdle ==
  /\ args = "idle" /\ forAs = "idle" /\ triple = "idle" /\ features = "idle" /\ found = "idle"
  /\ errors = "idle" /\ step = "idle"
XmlIdle ==
  /\ doc = "idle" /\ damage = "idle" /\ words = "idle" /\ cursor = "idle" /\ depth = "idle"
  /\ namespaces = "idle" /\ pool = "idle" /\ sawPool = "idle" /\ ids = "idle" /\ sawMap = "idle"
  /\ elements = "idle" /\ verdict = "idle"

\* The store, whose fairness is stated over its own variables, stays in a first
\* state of its own specification instead, of one source.
NativeInit ==
  /\ part \in {"store", "elf", "arm", "xml"}
  /\ Init /\ (part # "store" => source = CHOOSE s \in Sources : TRUE)
  /\ IF part = "elf" THEN Elf!Init(ElfCases!MCLibraries) ELSE ElfIdle
  /\ IF part = "arm" THEN Arm!Driver!Init ELSE ArmIdle
  /\ IF part = "xml" THEN Xml!Reader!Init ELSE XmlIdle

NativeNext ==
  \/ part = "store" /\ Next /\ UNCHANGED <<part, elfVars, armVars, xmlVars>>
  \/ part = "elf" /\ Elf!Next /\ UNCHANGED <<part, vars, armVars, xmlVars>>
  \/ part = "arm" /\ Arm!Driver!Next /\ UNCHANGED <<part, vars, elfVars, xmlVars>>
  \/ part = "xml" /\ Xml!Reader!Next /\ UNCHANGED <<part, vars, elfVars, armVars>>

NativeSpec == NativeInit /\ [][NativeNext]_nativeVars /\ Fairness

-----------------------------------------------------------------------------
(* The properties of the parts, under their names there.                     *)

\* A library setup.ps1 wrote loads, links and resolves (ElfReader).
SetupLibraryLoads == part = "elf" => Elf!SetupLibraryLoads

\* A loaded library reads as its file, and nothing outside its range is
\* touched (ElfReader).
LoadIsFaithful == part = "elf" => Elf!LoadIsFaithful /\ Elf!RangeIsItsOwn

\* Pages end with the flags of their segments and are at no time writable and
\* executable (ElfReader).
ProtectionsSettle == part = "elf" => Elf!ProtectionsSettle /\ Elf!NeverWritableAndExecutable

\* Sharing relro pages changes no byte a process reads (ElfReader).
RelroKeepsContents == [][part = "elf" => Elf!SharingKeepsContents]_nativeVars

\* One float ABI in the triple and the features; features have what they need,
\* and soft float leaves none (ArmDriver).
FeaturesAgree ==
  part = "arm" => Arm!Driver!AbiIsOne /\ Arm!Driver!ExtensionsAgree /\ Arm!Driver!SoftMeansNoFP

\* What is written reads back; the damaged is rejected (ResourceReader).
ReadsBack == part = "xml" => Xml!Reader!ReadsBack /\ Xml!Reader!ControlsAreRejected

\* Reading makes progress through the file (ResourceReader).
GoesForward == [][part = "xml" => Xml!Reader!ReadingGoesForward]_nativeVars
=============================================================================
