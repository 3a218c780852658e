----------------------------- MODULE MCElfReader -----------------------------
(***************************************************************************)
(* Libraries for ElfReader: those setup.ps1 writes, for each target, and   *)
(* those a linker produces, among them the shapes its checks are about.    *)
(***************************************************************************)
EXTENDS ElfImage, FiniteSets

CONSTANTS
  Processes,
  Loader            \* the one process that loads what nobody shares

Arm64 == [word |-> 8, machine |-> EM_AARCH64, flags |-> 0, form |-> "RELA", stateBit |-> 0]
Arm == [word |-> 4, machine |-> EM_ARM, flags |-> EF_ARM.EABI_VER5 + EF_ARM.ABI_FLOAT_SOFT,
        form |-> "REL", stateBit |-> 1]
X64 == [word |-> 8, machine |-> EM_X86_64, flags |-> 0, form |-> "RELA", stateBit |-> 0]

Str(text, length) == [text |-> text, length |-> length]

Payload(target) == New_ElfPayloadLibrary(target, Str("libassembly-store.so", 20), Str("_assembly_store", 15), 5000, 16384)

HostCode(target) ==
  New_ElfCodeLibrary(target,
    [soname |-> Str("libpwsh-host.so", 15), needed |-> <<Str("liblog.so", 9), Str("libandroid.so", 13)>>,
     imports |-> <<Str("__android_log_write", 19), Str("dlopen", 6)>>,
     exports |-> <<[name |-> Str("ANativeActivity_onCreate", 24), size |-> 300],
                   [name |-> Str("JNI_OnLoad", 10), size |-> 44]>>,
     data |-> 200, writable |-> <<[size |-> 40, pointers |-> <<8, 16>>], [size |-> 5, pointers |-> <<>>]>>], 16384)

NoImports(target) ==
  New_ElfCodeLibrary(target,
    [soname |-> Str("libstub.so", 10), needed |-> <<>>, imports |-> <<>>,
     exports |-> <<[name |-> Str("stub", 4), size |-> 4]>>, data |-> 0, writable |-> <<>>], 16384)

Case == [offset |-> 0, page |-> 4096, sdk |-> 34, bti |-> FALSE, reserved |-> 0, must |-> FALSE,
         loaders |-> {Loader}, slots |-> {}, textrel |-> FALSE, symbols |-> {}, tags |-> 0]

\* The names' places in the string table, as the table itself gives them.
Strings(image, w, dynamic, count) ==
  {Field(image, DynamicValue(image, w, dynamic, count, DT.SYMTAB) + i * SizeOf(Elf_Sym(w)), Elf_Sym(w), "st_name") :
     i \in {j \in 1..(GetField(image, DynamicValue(image, w, dynamic, count, DT.HASH) + 4, 4) - 1) :
              Field(image, DynamicValue(image, w, dynamic, count, DT.SYMTAB) + j * SizeOf(Elf_Sym(w)), Elf_Sym(w), "st_shndx") # 0}}

SetupCase(target, library, slots) ==
  LET phdr == Segments(library.at, target.word)
      dynamic == phdr[CHOOSE i \in 1..Len(phdr) : phdr[i].p_type = PT.DYNAMIC]
      count == dynamic.p_filesz \div SizeOf(Elf_Dyn(target.word))
  IN  [image |-> [size |-> library.size, at |-> library.at], file |-> library.size,
       word |-> target.word, machine |-> target.machine, slots |-> slots,
       symbols |-> Strings(library.at, target.word, dynamic.p_offset, count), tags |-> count] @@ Case

PayloadCases == {SetupCase(t, Payload(t), {}) : t \in {Arm64, Arm, X64}}
CodeCases ==
  UNION {{SetupCase(t, l, {l.slots[i].offset : i \in 1..Len(l.slots)}) : l \in {HostCode(t), NoImports(t)}}
         : t \in {Arm64, Arm, X64}}

\* In the package the library starts on a page of a larger file.
InPackage(case) == [case EXCEPT !.offset = 4096, !.file = 4096 + case.image.size + 100]

SetupCases ==
  {[c EXCEPT !.page = n, !.sdk = s] : c \in PayloadCases \cup CodeCases, n \in {4096, 16384}, s \in {25, 34}} \cup
  {InPackage(c) : c \in PayloadCases} \cup
  {[InPackage(c) EXCEPT !.symbols = {}, !.file = @ - 101 - k] : c \in PayloadCases, k \in {0, 500}} \cup
  {[c EXCEPT !.reserved = n, !.must = m, !.symbols = IF m /\ n < 6 THEN {} ELSE @]
     : c \in PayloadCases, n \in {1, 6, 7}, m \in BOOLEAN}

-----------------------------------------------------------------------------
(* What a linker produces.  A segment is                                     *)
(* <<type, flags, offset, vaddr, filesz, memsz>>.                           *)

WriteLinkedHeader(L, at, s) ==
  LET place(name, value) == <<at + OffsetOf(Elf_Phdr(L.Word), name), WidthOf(Elf_Phdr(L.Word), name), value>>
  IN  <<place("p_type", s[1]), place("p_flags", s[2]), place("p_offset", s[3]),
                      place("p_vaddr", s[4]), place("p_filesz", s[5]), place("p_memsz", s[6]),
                      place("p_align", 4096)>>

Linked(target, segments, size) ==
  LET L == Get_ElfLayout(target.word)
      dynamic == segments[CHOOSE i \in 1..Len(segments) : segments[i][1] = PT.DYNAMIC]
      headers == WriteHeader(target, L, Len(segments)) \o
                 FlattenSeq([i \in 1..Len(segments) |->
                               WriteLinkedHeader(L, L.Header + (i - 1) * L.ProgramHeader, segments[i])])
      library == AddSectionTable(headers, size, L, L.Header + 8 * L.ProgramHeader, 16, dynamic[3], dynamic[5])
  IN  [image |-> [size |-> library.size, at |-> library.at], file |-> library.size,
       word |-> target.word, machine |-> target.machine] @@ Case

RX == PF.R + PF.X
RW == PF.R + PF.W
RWX == PF.R + PF.W + PF.X

\* Code, relro data up to a page boundary, data, and bss past the file.
Usual(target) ==
  Linked(target, <<<<PT.PHDR, PF.R, 64, 64, 336, 336>>, <<PT.LOAD, RX, 0, 0, 6144, 6144>>,
                   <<PT.LOAD, RW, 6144, 10240, 6500, 14000>>, <<PT.DYNAMIC, RW, 6144, 10240, 160, 160>>,
                   <<PT_GNU.RELRO, PF.R, 6144, 10240, 2048, 2048>>, <<PT_ARM_EXIDX, PF.R, 2048, 2048, 16, 16>>>>, 12644)

\* Two relro segments, the second with a page nothing relocates and one of bss.
TwoRelros ==
  Linked(Arm64, <<<<PT.LOAD, RX, 0, 0, 4096, 4096>>, <<PT.LOAD, RW, 4096, 4096, 4096, 4096>>,
                  <<PT.LOAD, RW, 8192, 8192, 4096, 8192>>, <<PT.DYNAMIC, RW, 4096, 4096, 160, 160>>,
                  <<PT_GNU.RELRO, PF.R, 4096, 4096, 4096, 4096>>, <<PT_GNU.RELRO, PF.R, 8192, 8192, 4096, 8192>>>>, 12288)

\* Data follows code on the same page.
SharedPage(target) ==
  Linked(target, <<<<PT.PHDR, PF.R, 64, 64, 224, 224>>, <<PT.LOAD, RX, 0, 0, 6144, 6144>>,
                   <<PT.LOAD, RW, 6144, 6144, 2048, 3000>>, <<PT.DYNAMIC, RW, 6144, 6144, 160, 160>>>>, 8192)

NotFirst ==
  Linked(Arm64, <<<<PT.LOAD, RX, 4096, 4096, 4096, 4096>>, <<PT.LOAD, RW, 8192, 8192, 100, 100>>,
                  <<PT.DYNAMIC, RW, 8192, 8192, 96, 96>>>>, 8292)

OneSegment(flags) ==
  Linked(Arm, <<<<PT.LOAD, flags, 0, 0, 3000, 3000>>, <<PT.DYNAMIC, RW, 2048, 2048, 80, 80>>>>, 3000)

LinkedCases ==
  {[Usual(Arm64) EXCEPT !.slots = {10240, 10248, 12288}, !.bti = b, !.loaders = Processes] : b \in BOOLEAN} \cup
  {[Usual(X64) EXCEPT !.slots = {10240}, !.reserved = 6]} \cup
  {[TwoRelros EXCEPT !.slots = {4096, 8200}, !.loaders = Processes],
   [SharedPage(Arm64) EXCEPT !.slots = {6144}],
   [SharedPage(Arm64) EXCEPT !.slots = {6144}, !.bti = TRUE],
   [Usual(X64) EXCEPT !.machine = EM_AARCH64],
   NotFirst} \cup
  {[OneSegment(RX) EXCEPT !.slots = {100}, !.textrel = t, !.sdk = s] : t \in BOOLEAN, s \in {25, 34}} \cup
  {[OneSegment(RWX) EXCEPT !.slots = {100}, !.sdk = s] : s \in {25, 34}}

MCLibraries == SetupCases \cup LinkedCases
=============================================================================
