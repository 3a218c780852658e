------------------------------ MODULE ArmDriver ------------------------------
(***************************************************************************)
(* lib/ARM.cpp: how the compiler driver turns a command line for 32-bit    *)
(* ARM into a triple, a float ABI and a list of target features.  The      *)
(* instruction writers of setup.ps1 take Android's calling convention for  *)
(* ARM from this file.                                                     *)
(*                                                                         *)
(* A command line is a sequence of options [opt, argument]; of several the    *)
(* last one counts.  A feature is <<sign, name>>, and of several for one   *)
(* name the last one counts, so every step only appends.  The architecture *)
(* and CPU tables of LLVM are constants:                                   *)
(*   ArchInfo  arch -> [version, profile, cpu, fpu]                       *)
(*   CPUInfo   CPU -> [arch, features, fpu]                                *)
(*   FPUInfo   FPU -> [neon, features]                                     *)
(*   ExtInfo   extension -> [features, fpu]                                *)
(* An -march or -mcpu value is [name, exts].                               *)
(***************************************************************************)
EXTENDS Naturals, Sequences, SequencesExt, FiniteSetsExt

CONSTANTS ArchInfo, CPUInfo, FPUInfo, ExtInfo, HostCPU, Triples, CommandLines

INVALID == "invalid"
Unspecified == [name |-> "", exts |-> <<>>]

VARIABLES
  args,       \* the command line
  forAs,      \* the driver prepares the assembler
  triple,     \* [arch, big, thumb, vendor, os, env, macho]
  features,   \* the features so far
  found,      \* what earlier steps found: ABI, names, FPU kinds, registers
  errors,     \* diagnostics that end the compilation
  step

vars == <<args, forAs, triple, features, found, errors, step>>

-----------------------------------------------------------------------------
(* Arguments *)

\* Args.getLastArg and hasArg.
Where(opts) == {i \in 1..Len(args) : args[i].opt \in opts}
HasArg(opts) == Where(opts) # {}
LastOpt(opts) == IF HasArg(opts) THEN args[Max(Where(opts))].opt ELSE "none"
LastValue(opt, default) == IF HasArg({opt}) THEN args[Max(Where({opt}))].argument ELSE default

\* -Wa,-mcpu= and the like, which only the assembler's preparation looks at.
FromAssembler(opt) == forAs /\ HasArg({"-Wa," \o opt})
Assembler(opt, default) == IF FromAssembler(opt) THEN LastValue("-Wa," \o opt, default) ELSE LastValue(opt, default)

-----------------------------------------------------------------------------
(* Names of architectures and CPUs *)

Known(arch) == arch \in DOMAIN ArchInfo

\* parseArchVersion and parseArchProfile of a name.
Version(arch) == IF Known(arch) THEN ArchInfo[arch].version ELSE 0
Profile(arch) == IF Known(arch) THEN ArchInfo[arch].profile ELSE "none"

getARMSubArchVersionNumber(t) == Version(t.arch)
isARMMProfile(t) == Profile(t.arch) = "M"
isARMAProfile(t) == Profile(t.arch) = "A"

\* parseCPUArch
ArchOfCPU(cpu) == IF cpu \in DOMAIN CPUInfo THEN CPUInfo[cpu].arch ELSE INVALID

\* llvm::ARM::getARMCPUForArch: the least CPU of an architecture, else the system's.
CPUForArch(t, arch) ==
  IF Known(arch) THEN ArchInfo[arch].cpu
  ELSE IF t.env \in {"EABIHF", "GNUEABIHF", "MuslEABIHF"} THEN "arm1176jzf-s" ELSE "arm7tdmi"

\* "native" stands for the CPU this machine has.
getARMArch(arch, t) ==
  LET name == IF arch.name # "" THEN arch.name ELSE t.arch
  IN  IF name = "native" /\ HostCPU # "generic"
      THEN IF ArchOfCPU(HostCPU) = INVALID THEN "" ELSE ArchOfCPU(HostCPU)
      ELSE name

getARMCPUForMArch(arch, t) ==
  IF getARMArch(arch, t) = "" /\ arch.name # "" THEN "" ELSE CPUForArch(t, getARMArch(arch, t))

getARMTargetCPU(cpu, arch, t) ==
  IF cpu.name = "" THEN getARMCPUForMArch(arch, t)
  ELSE IF cpu.name = "native" THEN HostCPU ELSE cpu.name

\* The CPU decides; a generic one leaves it to the architecture, and an unknown
\* architecture to the triple.
getLLVMArchKindForARM(cpu, arch, t) ==
  IF cpu \in {"generic", ""}
  THEN LET name == getARMArch(arch, t)
       IN  IF Known(name) THEN name ELSE ArchOfCPU(CPUForArch(t, name))
  ELSE IF arch.name = "v7k" THEN "v7k" ELSE ArchOfCPU(cpu)

getLLVMArchSuffixForARM(cpu, arch, t) ==
  IF Known(getLLVMArchKindForARM(cpu, arch, t)) THEN getLLVMArchKindForARM(cpu, arch, t) ELSE ""

-----------------------------------------------------------------------------
(* The triple *)

\* -mlittle-endian or -mbig-endian, whichever is last, over the triple's own.
isARMBigEndian(t) ==
  IF HasArg({"-EL", "-EB"}) THEN LastOpt({"-EL", "-EB"}) = "-EB" ELSE t.big

ArchNameInTriple(t) ==
  LET cpu == LastValue("-mcpu", Unspecified)
      arch == LastValue("-march", Unspecified)
      name == IF t.macho THEN getARMCPUForMArch(arch, t) ELSE getARMTargetCPU(cpu, arch, t)
      suffix == getLLVMArchSuffixForARM(name, arch, t)
      isM == Profile(suffix) = "M"
      thumbDefault == isM \/ (Version(suffix) = 7 /\ t.macho) \/ t.os \in {"Fuchsia", "Win32"}
      thumbAsked == IF HasArg({"-mthumb", "-mno-thumb"})
                    THEN LastOpt({"-mthumb", "-mno-thumb"}) = "-mthumb" ELSE thumbDefault
      \* A file to assemble starts in ARM mode unless -Wa,-mthumb says otherwise.
      isThumb == IF forAs THEN HasArg({"-Wa,-mthumb"}) ELSE thumbAsked
      waCPU == IF FromAssembler("-mcpu") THEN LastValue("-Wa,-mcpu", Unspecified) ELSE Unspecified
      waArch == IF FromAssembler("-march") THEN LastValue("-Wa,-march", Unspecified) ELSE Unspecified
      final == IF waCPU.name # "" \/ waArch.name # ""
               THEN getLLVMArchSuffixForARM(waCPU.name, waArch, t) ELSE suffix
  IN  [triple |-> [t EXCEPT !.arch = final, !.big = isARMBigEndian(t),
                            !.thumb = isThumb \/ isM \/ t.os = "Win32"],
       unsupported |-> isM /\ ~thumbAsked]

\* useAAPCSForMachO
AAPCSForMachO(t) == t.env \in {"EABI", "EABIHF"} \/ t.os = "none" \/ isARMMProfile(t)

Darwins == {"Darwin", "MacOSX", "IOS", "TvOS", "DriverKit", "XROS"}

getDefaultFloatABI(t) ==
  CASE t.os \in Darwins -> IF t.arch = "v7k" THEN "Hard"
                           ELSE IF Version(t.arch) \in {6, 7} THEN "SoftFP" ELSE "Soft"
    [] t.os = "WatchOS" -> "Hard"
    [] t.os = "Win32" -> IF t.macho /\ ~AAPCSForMachO(t) THEN "Soft" ELSE "Hard"
    [] t.os = "NetBSD" -> IF t.env \in {"EABIHF", "GNUEABIHF"} THEN "Hard" ELSE "Soft"
    [] t.os = "FreeBSD" -> IF t.env = "GNUEABIHF" THEN "Hard" ELSE "Soft"
    [] t.os \in {"Haiku", "OpenBSD"} -> "SoftFP"
    [] t.os = "Fuchsia" -> "Hard"
    [] t.env = "OpenHOS" -> "Soft"
    [] t.env \in {"GNUEABIHF", "GNUEABIHFT64", "MuslEABIHF", "EABIHF"} -> "Hard"
    [] t.env \in {"Android", "GNUEABI", "GNUEABIT64", "MuslEABI", "EABI"} -> "SoftFP"
    [] OTHER -> INVALID

\* The last of -msoft-float, -mhard-float and -mfloat-abi=, the platform's
\* default when there is none, soft when that is unknown.
AbiOptions == {"-msoft-float", "-mhard-float", "-mfloat-abi"}

AbiArg ==
  CASE LastOpt(AbiOptions) = "-msoft-float" -> "Soft"
    [] LastOpt(AbiOptions) = "-mhard-float" -> "Hard"
    [] LastOpt(AbiOptions) = "-mfloat-abi" ->
         (CASE LastValue("-mfloat-abi", "") = "soft" -> "Soft"
            [] LastValue("-mfloat-abi", "") = "softfp" -> "SoftFP"
            [] LastValue("-mfloat-abi", "") = "hard" -> "Hard"
            [] LastValue("-mfloat-abi", "") = "" -> INVALID
            [] OTHER -> "Soft")
    [] OTHER -> INVALID

BadAbi == LastOpt(AbiOptions) = "-mfloat-abi" /\ LastValue("-mfloat-abi", "") \notin {"soft", "softfp", "hard", ""}

getARMFloatABI(t) ==
  IF AbiArg # INVALID THEN AbiArg
  ELSE IF getDefaultFloatABI(t) # INVALID THEN getDefaultFloatABI(t)
  ELSE IF t.macho /\ t.arch = "v7em" THEN "Hard" ELSE "Soft"

\* The environments that come in a soft and a hard variant.
EnvironmentPairs ==
  {<<"GNUEABI", "GNUEABIHF">>, <<"GNUEABIT64", "GNUEABIHFT64">>, <<"EABI", "EABIHF">>,
   <<"MuslEABI", "MuslEABIHF">>}

FloatABIInTriple(t) ==
  LET hard == getARMFloatABI(t) = "Hard"
      pairs == {pair \in EnvironmentPairs : t.env \in {pair[1], pair[2]}}
      default == getDefaultFloatABI(t)
  IN  IF t.os = "LiteOS" THEN [triple |-> [t EXCEPT !.env = "OpenHOS"], unsupported |-> FALSE]
      ELSE IF pairs # {}
      THEN [triple |-> [t EXCEPT !.env = LET pair == CHOOSE x \in pairs : TRUE
                                         IN  IF hard THEN pair[2] ELSE pair[1]],
            unsupported |-> FALSE]
      ELSE [triple |-> t,
            unsupported |-> t.env # "OpenHOS" /\ default # INVALID /\ hard # (default = "Hard")]


-----------------------------------------------------------------------------
(* What the architecture can do *)

\* The thread pointer can be read from CP15.
isHardTPSupported(t) ==
  t.arch \in {"v6k", "v6kz"} \/ (getARMSubArchVersionNumber(t) >= 7 /\ ~isARMMProfile(t))

supportsThumb2Encoding(t) ==
  t.arch = "v6t2" \/ (getARMSubArchVersionNumber(t) >= 7 /\ t.arch # "v8m.base")

\* The register -mtp= names, and whether that is an error.
getReadTPMode(t) ==
  LET value == LastValue("-mtp", "auto")
      mode == CASE value \in {"cp15", "tpidruro"} -> "tpidruro"
                [] value \in {"tpidrurw", "tpidrprw", "soft"} -> value
                [] OTHER -> INVALID
      auto == IF isHardTPSupported(t) /\ supportsThumb2Encoding(t) THEN "tpidruro" ELSE "soft"
  IN  IF value = "auto" THEN auto
      ELSE IF mode \notin {INVALID, "soft"} /\ ~isHardTPSupported(t) /\ ~forAs THEN INVALID
      ELSE mode

-----------------------------------------------------------------------------
(* Features *)

Plus(names) == [i \in 1..Len(names) |-> <<"+", names[i]>>]
Minus(names) == [i \in 1..Len(names) |-> <<"-", names[i]>>]
PlusIf(condition, name) == IF condition THEN Plus(<<name>>) ELSE <<>>
Sign(on, name) == IF on THEN Plus(<<name>>) ELSE Minus(<<name>>)

\* Where a feature, or a feature of one of these names, is last; 0 for nowhere.
LastOf(fs, feature) == Max({0} \cup {i \in 1..Len(fs) : fs[i] = feature})
LastNamed(fs, names) == Max({0} \cup {i \in 1..Len(fs) : fs[i][2] \in names})
IsOn(fs, names) == LastNamed(fs, names) # 0 /\ fs[LastNamed(fs, names)][1] = "+"

hasIntegerMVE(fs) == LastOf(fs, <<"+", "mve">>) > LastOf(fs, <<"-", "mve">>)

\* -mhwdiv= names a set of instruction sets.
getARMHWDivFeatures(sets) == Sign("thumb" \in sets, "hwdiv") \o Sign("arm" \in sets, "hwdiv-arm")

KnownFPU(fpu) == fpu \in DOMAIN FPUInfo \ {INVALID}
getARMFPUFeatures(fpu) == IF KnownFPU(fpu) THEN FPUInfo[fpu].features ELSE <<>>

\* The extensions of an -march or -mcpu value up to the first unknown one.
DecodeARMFeatures(exts) ==
  LET known == CHOOSE n \in 0..Len(exts) :
                 /\ \A i \in 1..n : exts[i] \in DOMAIN ExtInfo
                 /\ n = Len(exts) \/ exts[n + 1] \notin DOMAIN ExtInfo
      fpus == {i \in 1..known : ExtInfo[exts[i]].fpu # INVALID}
  IN  [features |-> FlattenSeq([i \in 1..known |-> ExtInfo[exts[i]].features]),
       fpu |-> IF fpus = {} THEN INVALID ELSE ExtInfo[exts[Max(fpus)]].fpu,
       failed |-> known < Len(exts)]

DecodeARMFeaturesFromCPU(cpu) ==
  IF cpu \in DOMAIN CPUInfo THEN CPUInfo[cpu].features ELSE <<>>

\* -Wa,-march= and -Wa,-mcpu= come first for the assembler.
getARMArchCPUFromArgs == [arch |-> Assembler("-march", Unspecified), cpu |-> Assembler("-mcpu", Unspecified)]

checkARMArchName(arch, t) ==
  LET exts == DecodeARMFeatures(arch.exts)
      valid == Known(getARMArch(arch, t))
  IN  IF arch.name = "" THEN [features |-> <<>>, fpu |-> INVALID, failed |-> FALSE]
      ELSE IF ~valid THEN [features |-> <<>>, fpu |-> INVALID, failed |-> TRUE] ELSE exts

checkARMCPUName(cpu, arch, t) ==
  LET exts == DecodeARMFeatures(cpu.exts)
      valid == Known(getLLVMArchKindForARM(getARMTargetCPU(cpu, arch, t), arch, t))
  IN  IF cpu.name = "" THEN [features |-> <<>>, fpu |-> INVALID, failed |-> FALSE]
      ELSE IF ~valid THEN [features |-> <<>>, fpu |-> INVALID, failed |-> TRUE] ELSE exts

\* The FPU when no option and no extension names one.
DefaultFPU(cpu, arch, t) ==
  LET target == getARMTargetCPU(cpu, arch, t)
  IN  IF target = "generic" /\ t.os \in Darwins \cup {"WatchOS", "Win32"} /\ getARMSubArchVersionNumber(t) >= 7
      THEN "neon"
      ELSE IF target \in DOMAIN CPUInfo THEN CPUInfo[target].fpu
      ELSE LET kind == getLLVMArchKindForARM(target, arch, t)
           IN  IF target = "generic" /\ Known(kind) THEN ArchInfo[kind].fpu ELSE INVALID

\* The FPU, and what of its features is set: -Wa,-mfpu= sets features only.
ChooseFPU(t, arch, cpu, archFPU, cpuFPU) ==
  IF FromAssembler("-mfpu")
  THEN [kind |-> INVALID, features |-> getARMFPUFeatures(LastValue("-Wa,-mfpu", "")),
        failed |-> ~KnownFPU(LastValue("-Wa,-mfpu", ""))]
  ELSE IF HasArg({"-mfpu"})
  THEN [kind |-> IF KnownFPU(LastValue("-mfpu", "")) THEN LastValue("-mfpu", "") ELSE INVALID,
        features |-> getARMFPUFeatures(LastValue("-mfpu", "")),
        failed |-> ~KnownFPU(LastValue("-mfpu", ""))]
  ELSE LET kind == IF t.env = "Android" /\ getARMSubArchVersionNumber(t) = 7 THEN "neon"
                   ELSE IF cpuFPU # INVALID THEN cpuFPU
                   ELSE IF archFPU # INVALID THEN archFPU
                   ELSE DefaultFPU(cpu, arch, t)
       IN  [kind |-> kind, features |-> getARMFPUFeatures(kind), failed |-> FALSE]

\* What of fp16fml and fullfp16 is last decides both, in Armv8.4 the other way round too.
Entangled(fs, t) ==
  LET full == LastOf(fs, <<"+", "fullfp16">>)
      noFull == LastOf(fs, <<"-", "fullfp16">>)
      fml == LastOf(fs, <<"+", "fp16fml">>)
  IN  IF t.arch = "v8.4a" /\ full > noFull /\ full > fml
      THEN PlusIf(LastOf(fs, <<"-", "fp16fml">>) < full, "fp16fml")
      ELSE IF noFull > fml THEN Minus(<<"fp16fml">>)
      ELSE IF noFull < fml THEN Plus(<<"fullfp16">>) ELSE <<>>

\* Mutation: soft float forgets the extensions.
SoftFloatOff_UnitOnly == getARMFPUFeatures("none")

\* What soft float, or having no FPU, turns off.
SoftFloatOff == getARMFPUFeatures("none") \o Minus(<<"dotprod", "fp16fml", "bf16", "mve", "mve.fp">>)
NoFPUOff == Minus(<<"dotprod", "fp16fml", "bf16", "mve.fp">>)

\* Features that need NEON, off with it.
SimdOff(fs, fpu) ==
  IF ~IsOn(fs, {"neon"}) /\ FPUInfo[fpu].neon
  THEN Minus(<<"sha2", "aes", "crypto", "dotprod", "bf16", "i8mm">>) ELSE <<>>

\* crypto = sha2 and aes, each as the last of its own name and of crypto says.
CryptoParts(fs) ==
  LET sha2 == IsOn(fs, {"crypto", "sha2"})
      aes == IsOn(fs, {"crypto", "aes"})
  IN  IF LastNamed(fs, {"crypto"}) = 0 THEN <<>>
      ELSE Sign(sha2 /\ aes, "crypto") \o Sign(sha2, "sha2") \o Sign(aes, "aes")

NeedsNeon(fs) ==
  \/ IsOn(fs, {"crypto", "sha2"}) \/ IsOn(fs, {"crypto", "aes"})
  \/ \E name \in {"bf16", "dotprod", "i8mm"} : IsOn(fs, {name})

\* Only Armv8 A and R have the crypto instructions.
CryptoOff(fs, cpu, arch, t) ==
  LET suffix == getLLVMArchSuffixForARM(getARMTargetCPU(cpu, arch, t), arch, t)
      has == IsOn(fs, {"crypto", "sha2"}) \/ IsOn(fs, {"crypto", "aes"})
  IN  IF has /\ ~(Version(suffix) >= 8 /\ Profile(suffix) \in {"A", "R"}) /\ ~HasArg({"-fno-integrated-as"})
      THEN Minus(<<"sha2", "aes">>) ELSE <<>>

-----------------------------------------------------------------------------
(* The steps of one compilation *)

\* Each step gives diagnostics as a set and the features it appends.
Take(after, new, bad) ==
  /\ features' = features \o new
  /\ errors' = errors \cup bad
  /\ step' = after

ErrorIf(condition, name) == IF condition THEN {name} ELSE {}

\* The triple is settled before anything else and only read from here on.
SetTriple ==
  /\ step = "triple"
  /\ LET named == ArchNameInTriple(triple)
         abi == FloatABIInTriple(named.triple)
     IN  /\ triple' = abi.triple
         /\ Take("float", <<>>, ErrorIf(named.unsupported, "isa") \cup ErrorIf(abi.unsupported, "abi"))
  /\ UNCHANGED <<args, forAs, found>>

FloatFeatures ==
  /\ step = "float"
  /\ LET abi == getARMFloatABI(triple)
         mode == getReadTPMode(triple)
     IN  Take("names",
              PlusIf(~forAs /\ abi = "Soft", "soft-float")
                \o PlusIf(~forAs /\ abi # "Hard", "soft-float-abi")
                \o PlusIf(mode \notin {"soft", INVALID}, "read-tp-" \o mode),
              ErrorIf(BadAbi, "float-abi") \cup ErrorIf(mode = INVALID, "mtp"))
  /\ UNCHANGED <<args, forAs, triple, found>>

\* The features of the CPU count at once, those of extensions only after the FPU's.
NameFeatures ==
  /\ step = "names"
  /\ LET names == getARMArchCPUFromArgs
         arch == checkARMArchName(names.arch, triple)
         cpu == checkARMCPUName(names.cpu, names.arch, triple)
     IN  /\ found' = [found EXCEPT !.arch = names.arch, !.cpu = names.cpu,
                                   !.ext = arch.features \o cpu.features,
                                   !.archFPU = arch.fpu, !.cpuFPU = cpu.fpu]
         /\ Take("fpu", DecodeARMFeaturesFromCPU(IF names.cpu.name = "native" THEN HostCPU ELSE names.cpu.name),
                 ErrorIf(arch.failed, "march") \cup ErrorIf(cpu.failed, "mcpu"))
  /\ UNCHANGED <<args, forAs, triple>>

FPUFeatures ==
  /\ step = "fpu"
  /\ LET fpu == ChooseFPU(triple, found.arch, found.cpu, found.archFPU, found.cpuFPU)
     IN  /\ found' = [found EXCEPT !.fpu = fpu.kind]
         /\ Take("halves", fpu.features \o found.ext, ErrorIf(fpu.failed, "mfpu"))
  /\ UNCHANGED <<args, forAs, triple>>

HalfPrecision ==
  /\ step = "halves"
  /\ LET sets == Assembler("-mhwdiv", {INVALID})
         divided == features \o IF sets = {INVALID} THEN <<>> ELSE getARMHWDivFeatures(sets)
     IN  Take("nofp", SubSeq(divided, Len(features) + 1, Len(divided)) \o Entangled(divided, triple), {})
  /\ UNCHANGED <<args, forAs, triple, found>>

NoFPU ==
  /\ step = "nofp"
  /\ LET soft == getARMFloatABI(triple) = "Soft"
         none == "none" \in {found.fpu, found.archFPU, found.cpuFPU}
         off == IF soft THEN SoftFloatOff ELSE IF none THEN NoFPUOff ELSE <<>>
         regs == ~soft /\ (none => hasIntegerMVE(features \o off))
         fpu == IF soft \/ none THEN "none" ELSE found.fpu
         crc == IF HasArg({"-mcrc", "-mnocrc"})
                THEN Sign(LastOpt({"-mcrc", "-mnocrc"}) = "-mcrc", "crc") ELSE <<>>
     IN  /\ found' = [found EXCEPT !.fpu = fpu, !.fpregs = regs]
         /\ Take("simd",
                 off \o (IF regs THEN <<>> ELSE Minus(<<"fpregs">>)) \o crc
                   \o (IF fpu \in {"fpv5-d16", "fpv5-sp-d16"} THEN Minus(<<"mve.fp">>) ELSE <<>>), {})
  /\ UNCHANGED <<args, forAs, triple>>

Crypto ==
  /\ step = "simd"
  /\ LET off == SimdOff(features, found.fpu)
         before == features \o off
         after == off \o CryptoParts(before) \o PlusIf(NeedsNeon(before), "neon")
                      \o CryptoOff(before, found.cpu, found.arch, triple)
     IN  Take("options", after, {})
  /\ UNCHANGED <<args, forAs, triple, found>>

KernelOrKext == HasArg({"-mkernel", "-fapple-kext"})

FrameAndCmse ==
  PlusIf(LastValue("-mframe-chain", "none") \in {"aapcs", "aapcs+leaf"}, "aapcs-frame-chain")
    \o PlusIf(HasArg({"-mcmse"}), "8msecext")
    \o (IF HasArg({"-mfix-cmse", "-mno-fix-cmse"})
        THEN Sign(LastOpt({"-mfix-cmse", "-mno-fix-cmse"}) = "-mfix-cmse", "fix-cmse-cve-2021-35465") ELSE <<>>)
    \o (IF HasArg({"-mfix-a57", "-mno-fix-a57"})
        THEN Sign(LastOpt({"-mfix-a57", "-mno-fix-a57"}) = "-mfix-a57", "fix-cortex-a57-aes-1742098") ELSE <<>>)

LongCalls ==
  IF HasArg({"-mlong-calls", "-mno-long-calls"}) THEN LastOpt({"-mlong-calls", "-mno-long-calls"}) = "-mlong-calls"
  ELSE KernelOrKext /\ (triple.os = "IOS" => triple.osMajor < 6) /\ triple.os \notin {"WatchOS", "XROS"}

\* Execute-only code cannot load addresses from its own section: no -mno-movt,
\* and for ARMv6-M no position independence.
ExecuteOnly == ~forAs /\ LastOpt({"-mexecute-only", "-mno-execute-only"}) = "-mexecute-only"
ExecuteOnlyFails ==
  /\ ExecuteOnly
  /\ \/ getARMSubArchVersionNumber(triple) < 7 /\ triple.arch \notin {"v6t2", "v6m"}
     \/ triple.arch = "v6m" /\ HasArg({"-fropi", "-frwpi", "-fpic", "-fpie", "-fPIC", "-fPIE"})
     \/ /\ getARMSubArchVersionNumber(triple) >= 7 \/ triple.arch = "v6t2"
        /\ HasArg({"-mno-movt"})

AlignOptions == {"-mno-unaligned-access", "-munaligned-access", "-mstrict-align", "-mno-strict-align"}
NoUnaligned == {"v6m", "v8m.base"}
AskedStrict == KernelOrKext \/ LastOpt(AlignOptions) \in {"-mno-unaligned-access", "-mstrict-align"}
StrictAlign ==
  IF HasArg(AlignOptions) THEN AskedStrict
  ELSE IF triple.os \in Darwins \cup {"WatchOS", "NetBSD"}
  THEN getARMSubArchVersionNumber(triple) < 6 \/ triple.arch = "v6m"
  ELSE \/ triple.vendor = "apple" /\ triple.macho
       \/ getARMSubArchVersionNumber(triple) < 7 \/ triple.arch \in NoUnaligned

OtherOptions ==
  /\ step = "options"
  /\ Take("sls",
          FrameAndCmse \o PlusIf(LongCalls, "long-calls") \o PlusIf(ExecuteOnly, "execute-only")
            \o PlusIf(StrictAlign, "strict-align") \o PlusIf(HasArg({"-ffixed-r9"}), "reserve-r9")
            \o PlusIf(KernelOrKext \/ HasArg({"-mno-movt"}), "no-movt")
            \o PlusIf(HasArg({"-mno-neg-immediates"}), "no-neg-immediates"),
          ErrorIf(ExecuteOnlyFails, "execute-only")
            \cup ErrorIf(HasArg({"-mfix-cmse", "-mno-fix-cmse"}) /\ ~HasArg({"-mcmse"}), "cmse")
            \cup ErrorIf(HasArg(AlignOptions) /\ ~AskedStrict /\ triple.arch \in NoUnaligned, "unaligned"))
  /\ UNCHANGED <<args, forAs, triple, found>>

\* -mharden-sls= is a list, read up to its first unknown word.
Hardening ==
  /\ step = "sls"
  /\ LET list == LastValue("-mharden-sls", <<>>)
         words == {"all", "retbr", "blr", "comdat", "nocomdat"}
         known == CHOOSE n \in 0..Len(list) : /\ \A i \in 1..n : list[i] \in words
                                              /\ n = Len(list) \/ list[n + 1] \notin words
         seen == {list[i] : i \in 1..known}
         comdat == {i \in 1..known : list[i] \in {"comdat", "nocomdat"}}
         branches == {"all", "retbr"} \cap seen # {}
         calls == {"all", "blr"} \cap seen # {}
     IN  Take("done",
              PlusIf(branches, "harden-sls-retbr") \o PlusIf(calls, "harden-sls-blr")
                \o PlusIf(comdat # {} /\ list[Max(comdat)] = "nocomdat", "harden-sls-nocomdat")
                \o PlusIf(HasArg({"-mno-bti-at-return-twice"}), "no-bti-at-return-twice"),
              ErrorIf(known < Len(list), "sls")
                \cup ErrorIf((branches \/ calls) /\ ~(isARMAProfile(triple) /\ getARMSubArchVersionNumber(triple) >= 7), "sls arch"))
  /\ UNCHANGED <<args, forAs, triple, found>>

Init ==
  /\ args \in CommandLines /\ forAs \in BOOLEAN /\ triple \in Triples
  /\ features = <<>> /\ errors = {} /\ step = "triple"
  /\ found = [arch |-> Unspecified, cpu |-> Unspecified, ext |-> <<>>, archFPU |-> INVALID,
              cpuFPU |-> INVALID, fpu |-> INVALID, fpregs |-> TRUE]

Next ==
  \/ SetTriple \/ FloatFeatures \/ NameFeatures \/ FPUFeatures \/ HalfPrecision
  \/ NoFPU \/ Crypto \/ OtherOptions \/ Hardening

Spec == Init /\ [][Next]_vars

-----------------------------------------------------------------------------
(* Properties *)

Compiled == step = "done" /\ errors = {}
Has(name) == IsOn(features, {name})

\* The environment in the triple and the soft-float-abi feature, which are
\* derived one after the other from different triples, state one float ABI, and
\* settling the triple over again, which the driver does for every action,
\* changes nothing.
AbiIsOne ==
  Compiled /\ ~forAs =>
    /\ FloatABIInTriple(ArchNameInTriple(triple).triple).triple = triple
    /\ \A pair \in EnvironmentPairs :
         triple.env \in {pair[1], pair[2]} => (triple.env = pair[1] <=> Has("soft-float-abi"))

\* What a feature needs is on: crypto is sha2 with aes, the NEON-based ones have
\* NEON, fp16fml has fullfp16, whatever order the options named them in.
ExtensionsAgree ==
  Compiled =>
    /\ Has("crypto") /\ ~HasArg({"-fno-integrated-as"}) => (Has("sha2") <=> Has("aes"))
    /\ (\E name \in {"sha2", "aes", "bf16", "dotprod", "i8mm"} : Has(name)) => Has("neon")
    /\ Has("fp16fml") => Has("fullfp16")

\* Soft float turns every feature of the floating-point hardware off, and with
\* -mfpu or an extension naming them first too.  Only i8mm, which the list of
\* what soft float turns off leaves out, brings NEON back.
SoftMeansNoFP ==
  Compiled /\ getARMFloatABI(triple) = "Soft" =>
    /\ \A name \in {"vfp2", "vfp4", "fp-armv8", "fullfp16", "fp16fml", "dotprod", "bf16",
                    "mve", "mve.fp", "fpregs", "sha2", "aes"} : ~Has(name)
    /\ Has("neon") => Has("i8mm")

=============================================================================
