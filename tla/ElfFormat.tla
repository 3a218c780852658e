------------------------------ MODULE ElfFormat ------------------------------
(***************************************************************************)
(* The ELF records both sides agree on: the writers of setup.ps1 place     *)
(* fields at offsets they compute, the loader reads them through the       *)
(* structures of lib/ELF.h.  A structure is the sequence of its fields     *)
(* with their widths; `w' is the width of an address, 4 or 8 (none of      *)
(* these structures has padding).                                          *)
(*                                                                         *)
(* An image is a function from offsets to the fields stored there; bytes   *)
(* nobody stored are zero.                                                 *)
(***************************************************************************)
EXTENDS Naturals, Sequences, SequencesExt, TLC

Elf_Ehdr(w) ==
  <<<<"magic", 4>>, <<"class", 1>>, <<"data", 1>>, <<"ident_version", 1>>, <<"pad", 9>>,
    <<"e_type", 2>>, <<"e_machine", 2>>, <<"e_version", 4>>,
    <<"e_entry", w>>, <<"e_phoff", w>>, <<"e_shoff", w>>, <<"e_flags", 4>>,
    <<"e_ehsize", 2>>, <<"e_phentsize", 2>>, <<"e_phnum", 2>>,
    <<"e_shentsize", 2>>, <<"e_shnum", 2>>, <<"e_shstrndx", 2>>>>

\* p_flags is second in the 64-bit record and last but one in the 32-bit one.
Elf_Phdr(w) ==
  IF w = 8
  THEN <<<<"p_type", 4>>, <<"p_flags", 4>>, <<"p_offset", 8>>, <<"p_vaddr", 8>>,
         <<"p_paddr", 8>>, <<"p_filesz", 8>>, <<"p_memsz", 8>>, <<"p_align", 8>>>>
  ELSE <<<<"p_type", 4>>, <<"p_offset", 4>>, <<"p_vaddr", 4>>, <<"p_paddr", 4>>,
         <<"p_filesz", 4>>, <<"p_memsz", 4>>, <<"p_flags", 4>>, <<"p_align", 4>>>>

Elf_Shdr(w) ==
  <<<<"sh_name", 4>>, <<"sh_type", 4>>, <<"sh_flags", w>>, <<"sh_addr", w>>,
    <<"sh_offset", w>>, <<"sh_size", w>>, <<"sh_link", 4>>, <<"sh_info", 4>>,
    <<"sh_addralign", w>>, <<"sh_entsize", w>>>>

Elf_Sym(w) ==
  IF w = 8
  THEN <<<<"st_name", 4>>, <<"st_info", 1>>, <<"st_other", 1>>, <<"st_shndx", 2>>,
         <<"st_value", 8>>, <<"st_size", 8>>>>
  ELSE <<<<"st_name", 4>>, <<"st_value", 4>>, <<"st_size", 4>>, <<"st_info", 1>>,
         <<"st_other", 1>>, <<"st_shndx", 2>>>>

Elf_Dyn(w) == <<<<"d_tag", w>>, <<"d_un", w>>>>

Elf_Rel(w) == <<<<"r_offset", w>>, <<"r_info", w>>>>
Elf_Rela(w) == Append(Elf_Rel(w), <<"r_addend", w>>)

SizeOf(struct) == FoldLeft(LAMBDA sum, field : sum + field[2], 0, struct)

OffsetOf(struct, name) ==
  LET i == CHOOSE k \in 1..Len(struct) : struct[k][1] = name
  IN  SizeOf(SubSeq(struct, 1, i - 1))

WidthOf(struct, name) == struct[CHOOSE k \in 1..Len(struct) : struct[k][1] = name][2]

-----------------------------------------------------------------------------
(* Enumerations, by the names and with the values of lib/ELF.h. *)

ElfMagic == 1179403647

ET == [NONE |-> 0, REL |-> 1, EXEC |-> 2, DYN |-> 3, CORE |-> 4]

EV_CURRENT == 1

EM_386 == 3
EM_ARM == 40
EM_X86_64 == 62
EM_AARCH64 == 183
EM_RISCV == 243

ElfClass(w) == IF w = 8 THEN 2 ELSE 1

ELFDATA2LSB == 1

\* e_flags of an ARM object: the EABI version and the float ABI it was built for.
EF_ARM == [ABI_FLOAT_SOFT |-> 512, ABI_FLOAT_HARD |-> 1024, EABI_VER5 |-> 83886080]

SHN_UNDEF == 0

SHT == [NULL |-> 0, PROGBITS |-> 1, SYMTAB |-> 2, STRTAB |-> 3, RELA |-> 4, HASH |-> 5,
        DYNAMIC |-> 6, NOTE |-> 7, NOBITS |-> 8, REL |-> 9]

SHF == [WRITE |-> 1, ALLOC |-> 2, EXECINSTR |-> 4]

STB == [LOCAL |-> 0, GLOBAL |-> 1, WEAK |-> 2]
STT == [NOTYPE |-> 0, OBJECT |-> 1, FUNC |-> 2]

\* setBindingAndType, getBinding and getType of both symbol records.
SymbolInfo(binding, type) == (binding * 16) + (type % 16)
Binding(info) == info \div 16
SymbolType(info) == info % 16

PT == [NULL |-> 0, LOAD |-> 1, DYNAMIC |-> 2, INTERP |-> 3, NOTE |-> 4, SHLIB |-> 5,
       PHDR |-> 6, TLS |-> 7]
PT_GNU == [STACK |-> 1685382481, RELRO |-> 1685382482, PROPERTY |-> 1685382483]
PT_ARM_EXIDX == 1879048193

PF == [X |-> 1, W |-> 2, R |-> 4]
HasFlag(flags, bit) == (flags \div bit) % 2 = 1

\* DynamicTags.def
DT == [NULL |-> 0, NEEDED |-> 1, HASH |-> 4, STRTAB |-> 5, SYMTAB |-> 6, RELA |-> 7, RELASZ |-> 8,
       RELAENT |-> 9, STRSZ |-> 10, SYMENT |-> 11, SONAME |-> 14, REL |-> 17, RELSZ |-> 18,
       RELENT |-> 19, FLAGS |-> 30]

DF_BIND_NOW == 8

-----------------------------------------------------------------------------
(* Images *)

\* What a read of another width than was stored gives: some other number.
Garbage == 123456789

\* Set-ElfField, for a sequence of <<offset, width, value>> stored in order.
Set_ElfFields(fields) ==
  [at \in {fields[i][1] : i \in 1..Len(fields)} |->
     LET last == CHOOSE i \in 1..Len(fields) :
                   /\ fields[i][1] = at
                   /\ \A j \in (i + 1)..Len(fields) : fields[j][1] # at
     IN  [width |-> fields[last][2], value |-> fields[last][3]]]

GetField(image, at, width) ==
  IF at \notin DOMAIN image THEN 0
  ELSE IF image[at].width # width THEN Garbage ELSE image[at].value

Field(image, at, struct, name) ==
  GetField(image, at + OffsetOf(struct, name), WidthOf(struct, name))

AlignedOffset(value, alignment) == ((value + alignment - 1) \div alignment) * alignment
=============================================================================
