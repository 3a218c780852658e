---------------------------- MODULE MCArmDriver ----------------------------
(***************************************************************************)
(* A few architectures, processors, units and extensions for ArmDriver,    *)
(* and every command line of up to two of its options.                     *)
(***************************************************************************)
EXTENDS Naturals, Sequences, FiniteSets, TLC

VARIABLES args, forAs, triple, features, found, errors, step

Signed(sign, names) == [i \in 1..Len(names) |-> <<sign, names[i]>>]

V(version, profile, cpu, fpu) == [version |-> version, profile |-> profile, cpu |-> cpu, fpu |-> fpu]
MCArchInfo ==
  ("v4t" :> V(4, "none", "arm7tdmi", "none")) @@ ("v6" :> V(6, "none", "arm1176jzf-s", "vfpv2"))
    @@ ("v6kz" :> V(6, "none", "arm1176jzf-s", "vfpv2"))
    @@ ("v6m" :> V(6, "M", "cortex-m0", "none")) @@ ("v7" :> V(7, "A", "generic", "neon"))
    @@ ("v8a" :> V(8, "A", "generic", "crypto-neon")) @@ ("v8.4a" :> V(8, "A", "generic", "crypto-neon"))
    @@ ("v8.1m.main" :> V(8, "M", "generic", "fpv5-d16"))

Offs == Signed("-", <<"crypto", "sha2", "aes", "dotprod", "fp16fml", "bf16", "i8mm">>)
C(arch, fpu, fs) == [arch |-> arch, fpu |-> fpu, features |-> Offs \o fs]
MCCPUInfo ==
  ("arm7tdmi" :> C("v4t", "none", <<>>)) @@ ("arm1176jzf-s" :> C("v6kz", "vfpv2", <<>>))
    @@ ("cortex-a8" :> C("v7", "neon", <<>>))
    @@ ("cortex-a53" :> C("v8a", "crypto-neon", Signed("+", <<"crc">>)))
    @@ ("cortex-m0" :> C("v6m", "none", <<>>)) @@ ("cortex-m55" :> C("v8.1m.main", "fpv5-d16", Signed("+", <<"mve", "mve.fp">>)))

F(neon, on) ==
  LET names == <<"vfp2", "vfp4", "fp-armv8", "fullfp16", "neon", "sha2", "aes">>
  IN  [neon |-> neon, features |-> [i \in 1..Len(names) |-> <<IF names[i] \in on THEN "+" ELSE "-", names[i]>>]]
MCFPUInfo ==
  ("invalid" :> [neon |-> FALSE, features |-> <<>>]) @@ ("none" :> F(FALSE, {}))
    @@ ("vfpv2" :> F(FALSE, {"vfp2"})) @@ ("neon" :> F(TRUE, {"vfp2", "neon"}))
    @@ ("fpv5-d16" :> F(FALSE, {"vfp2", "vfp4", "fp-armv8"}))
    @@ ("crypto-neon" :> F(TRUE, {"vfp2", "vfp4", "fp-armv8", "neon", "sha2", "aes"}))

E(sign, names) == [fpu |-> "invalid", features |-> Signed(sign, names)]
MCExtInfo ==
  ("crypto" :> E("+", <<"crypto">>)) @@ ("nocrypto" :> E("-", <<"crypto">>)) @@ ("noaes" :> E("-", <<"aes">>))
    @@ ("sha2" :> E("+", <<"sha2">>)) @@ ("i8mm" :> E("+", <<"i8mm">>)) @@ ("dotprod" :> E("+", <<"dotprod">>))
    @@ ("fp16" :> E("+", <<"fullfp16">>)) @@ ("nofp16" :> E("-", <<"fullfp16">>)) @@ ("fp16fml" :> E("+", <<"fp16fml">>))
    @@ ("mve" :> E("+", <<"mve">>)) @@ ("nofp" :> [fpu |-> "none", features |-> MCFPUInfo["none"].features])

T(arch, vendor, os, env, macho) ==
  [arch |-> arch, big |-> FALSE, thumb |-> FALSE, vendor |-> vendor, os |-> os, osMajor |-> 0, env |-> env, macho |-> macho]
MCTriples ==
  {T("v7", "none", "Linux", "Android", FALSE), T("v7", "none", "Linux", "GNUEABI", FALSE),
   T("v6", "none", "Linux", "GNUEABIHF", FALSE), T("v7", "apple", "IOS", "", TRUE),
   T("v6m", "none", "none", "EABI", FALSE), T("v8a", "none", "Win32", "", FALSE),
   T("v7", "none", "NetBSD", "EABIHF", FALSE)}

O(opt, argument) == [opt |-> opt, argument |-> argument]
Arch(name, exts) == [name |-> name, exts |-> exts]
Flag(opt) == O(opt, "")
Options ==
  {O("-march", Arch("v8a", <<"crypto", "noaes">>)), O("-march", Arch("v8.4a", <<"fp16">>)), O("-march", Arch("v7", <<"sha2">>)),
   O("-march", Arch("v8a", <<"i8mm", "fp16fml">>)), O("-march", Arch("v6m", <<>>)), O("-march", Arch("v8.1m.main", <<"mve", "nofp">>)),
   O("-march", Arch("v9z", <<>>)), O("-march", Arch("native", <<>>)),
   O("-mcpu", Arch("cortex-a53", <<>>)), O("-mcpu", Arch("cortex-a8", <<"nocrypto">>)), O("-mcpu", Arch("cortex-a53", <<"dotprod", "nofp16">>)),
   O("-mcpu", Arch("generic", <<>>)), O("-mcpu", Arch("native", <<"what">>)), O("-mcpu", Arch("cortex-m55", <<>>)),
   O("-Wa,-march", Arch("v8a", <<"crypto">>)), O("-Wa,-mcpu", Arch("cortex-a8", <<>>)), O("-Wa,-mfpu", "crypto-neon"),
   O("-mfpu", "crypto-neon"), O("-mfpu", "vfpv2"), O("-mfpu", "none"), O("-mfpu", "what"),
   O("-mfloat-abi", "soft"), O("-mfloat-abi", "hard"), O("-mfloat-abi", "what"), Flag("-msoft-float"), Flag("-mhard-float"),
   Flag("-mthumb"), Flag("-EB"), Flag("-mcrc"), Flag("-fno-integrated-as"), Flag("-mexecute-only"), Flag("-mkernel"),
   O("-mtp", "cp15"), O("-mhwdiv", {"arm"}), O("-mharden-sls", <<"all", "nocomdat">>), Flag("-munaligned-access")}
MCCommandLines == {<<>>} \cup {<<a>> : a \in Options} \cup {<<a, b>> : a, b \in Options}

Driver == INSTANCE ArmDriver WITH
  ArchInfo <- MCArchInfo, CPUInfo <- MCCPUInfo, FPUInfo <- MCFPUInfo, ExtInfo <- MCExtInfo,
  HostCPU <- "cortex-a53", Triples <- MCTriples, CommandLines <- MCCommandLines
=============================================================================
