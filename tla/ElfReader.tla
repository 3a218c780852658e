------------------------------ MODULE ElfReader ------------------------------
(***************************************************************************)
(* lib/linker_phdr.cpp: how Android's linker reads a library's headers,    *)
(* reserves address space, maps its segments, and seals its relocated      *)
(* read-only data, in one or in several processes that share the sealed    *)
(* pages through a file.                                                   *)
(*                                                                         *)
(* Memory is kept by the page.  A page holds a page of the library, a page *)
(* of the shared file, or zeros; the bytes from `zeroFrom' on were cleared *)
(* and `relocated' is the load bias it was relocated for.  The library at  *)
(* hand, `lib', is                                                         *)
(*   image    [size, at] of ElfFormat, stored at `offset' of a file of     *)
(*            `file' bytes, `tail' of them zero when the file is short     *)
(*   word, machine, page, sdk, bti   the process that loads it             *)
(*   reserved, must   the caller's address_space_params                    *)
(*   loaders  the processes that load it                                   *)
(*   slots    the addresses relocation writes; textrel: into code as well  *)
(***************************************************************************)
EXTENDS ElfImage, FiniteSets, FiniteSetsExt

CONSTANTS
  Processes,      \* the processes
  Starts          \* page numbers mmap may choose, or the caller reserved

VARIABLES
  lib,            \* the library at hand
  reader,         \* process -> the fields of its ElfReader and its progress
  mem,            \* process -> (page number -> page)
  relro           \* the shared file: a sequence of pages

vars == <<lib, reader, mem, relro>>

PageStart(x) == x \div lib.page
PageEnd(x) == (x + lib.page - 1) \div lib.page
PageOffset(x) == x % lib.page

LastPage == Max(Starts) + 12
Pages == 0..LastPage

Prot(flags) == {b \in {"R", "W", "X"} : HasFlag(flags, PF[b])}

Loads(phdr) == {i \in 1..Len(phdr) : phdr[i].p_type = PT.LOAD}
Relros(phdr) == SelectSeq(phdr, LAMBDA s : s.p_type = PT_GNU.RELRO)

\* The pages of a segment, counted from address 0 of the library.
SegPages(s) == PageStart(s.p_vaddr)..(PageEnd(s.p_vaddr + s.p_memsz) - 1)

-----------------------------------------------------------------------------
(* Read *)

Ehdr(name) == Field(lib.image.at, 0, Elf_Ehdr(lib.word), name)
Shdr(i, name) == Field(lib.image.at, Ehdr("e_shoff") + i * SizeOf(Elf_Shdr(lib.word)), Elf_Shdr(lib.word), name)

\* From Android O on a fault in the section headers is an error, before it a warning.
Enforced == lib.sdk >= 26

Header ==
  SizeOf(Elf_Ehdr(lib.word)) <= lib.file - lib.offset

VerifyElfHeader ==
  /\ Ehdr("magic") = ElfMagic
  /\ Ehdr("class") = ElfClass(lib.word)
  /\ Ehdr("data") = ELFDATA2LSB
  /\ Ehdr("e_type") = ET.DYN
  /\ Ehdr("e_version") = EV_CURRENT
  /\ Ehdr("e_machine") = lib.machine
  /\ Enforced => /\ Ehdr("e_shentsize") = SizeOf(Elf_Shdr(lib.word))
                 /\ Ehdr("e_shstrndx") # 0

CheckFileRange(offset, size, alignment) ==
  /\ offset > 0
  /\ lib.offset + offset < lib.file
  /\ lib.offset + offset + size <= lib.file
  /\ offset % alignment = 0

ReadProgramHeaders ==
  LET n == Ehdr("e_phnum")
  IN  /\ n \in 1..(65536 \div SizeOf(Elf_Phdr(lib.word)))
      /\ CheckFileRange(Ehdr("e_phoff"), n * SizeOf(Elf_Phdr(lib.word)), lib.word)

\* phdr_table_: entries follow one another at the size of the structure.
PhdrTable ==
  LET at(i) == Ehdr("e_phoff") + (i - 1) * SizeOf(Elf_Phdr(lib.word))
  IN  [i \in 1..Ehdr("e_phnum") |->
        [name \in PhdrFields |-> Field(lib.image.at, at(i), Elf_Phdr(lib.word), name)]]

ReadSectionHeaders ==
  /\ Ehdr("e_shnum") # 0
  /\ CheckFileRange(Ehdr("e_shoff"), Ehdr("e_shnum") * SizeOf(Elf_Shdr(lib.word)), lib.word)

\* The first SHT_DYNAMIC section; the last PT_DYNAMIC segment, or zeros.
ReadDynamicSection ==
  LET sections == 0..(Ehdr("e_shnum") - 1)
      dynamics == {i \in sections : Shdr(i, "sh_type") = SHT.DYNAMIC}
      phdr == PhdrTable
      segments == {i \in 1..Len(phdr) : phdr[i].p_type = PT.DYNAMIC}
      dynamic == Min(dynamics)
      link == Shdr(dynamic, "sh_link")
      has(field, value) == IF segments = {} THEN value = 0 ELSE phdr[Max(segments)][field] = value
  IN  /\ dynamics # {}
      /\ Enforced => /\ has("p_offset", Shdr(dynamic, "sh_offset"))
                     /\ has("p_filesz", Shdr(dynamic, "sh_size"))
      /\ link \in sections
      /\ Shdr(link, "sh_type") = SHT.STRTAB
      /\ CheckFileRange(Shdr(dynamic, "sh_offset"), Shdr(dynamic, "sh_size"), lib.word)
      /\ CheckFileRange(Shdr(link, "sh_offset"), Shdr(link, "sh_size"), 1)

Readable ==
  /\ Header
  /\ VerifyElfHeader
  /\ ReadProgramHeaders
  /\ ReadSectionHeaders
  /\ ReadDynamicSection

\* Either the checks decide or a pread or an mmap of a table fails.
Read(p) ==
  /\ reader[p].pc = "new"
  /\ p \in lib.loaders
  /\ \/ /\ Readable
        /\ reader' = [reader EXCEPT ![p].pc = "read",
                                    ![p].phdr = PhdrTable]
     \/ /\ ~Readable
        /\ reader' = [reader EXCEPT ![p].pc = "failed", ![p].error = "refused"]
     \/ reader' = [reader EXCEPT ![p].pc = "failed", ![p].error = "system"]
  /\ UNCHANGED <<lib, mem, relro>>

-----------------------------------------------------------------------------
(* Load *)

Page(from, index, prot) ==
  [from |-> from, index |-> index, zeroFrom |-> lib.page, relocated |-> -1, prot |-> prot]
None == Page("none", 0, {})
Reserved == Page("reserved", 0, {})

\* The pages of `image' addresses are found `bias' pages further on.
At(p, page) == page + reader[p].bias

\* What phdr_table_get_load_size spans, in pages.
LoadSpan(phdr) ==
  LET loads == Loads(phdr)
  IN  IF loads = {} THEN [min |-> 0, size |-> 0]
      ELSE LET min == Min({PageStart(phdr[i].p_vaddr) : i \in loads})
               max == Max({PageEnd(phdr[i].p_vaddr + phdr[i].p_memsz) : i \in loads})
           IN  [min |-> min, size |-> max - min]

Fill(m, pages, page) == [k \in DOMAIN m |-> IF k \in pages THEN page ELSE m[k]]

Fail(p, why) == reader' = [reader EXCEPT ![p].pc = "failed", ![p].error = why]

\* ReserveWithAlignmentPadding: the range is aligned past a page only on LP64,
\* where a library that would cross 2 MB leaves an inaccessible gap behind it.
\* kLibraryAlignment and hugepage alignment choose among the free ranges.
Placements(p, size) ==
  {r \in [start : Starts, gap : IF lib.word = 8 THEN {0, 1} ELSE {0}] :
     \A k \in r.start..(r.start + size + r.gap - 1) : k \in Pages /\ mem[p][k] = None}

\* load_start_ and load_bias_; the first page of a segment lands on `start'.
Place(p, start, span, gap, byCaller) ==
  reader' = [reader EXCEPT ![p].pc = "load", ![p].start = start, ![p].size = span.size,
                           ![p].bias = start - span.min, ![p].gap = gap,
                           ![p].mapped_by_caller = byCaller,
                           ![p].space = IF byCaller
                                        THEN [start |-> @.start + span.size, size |-> @.size - span.size]
                                        ELSE @]

ReserveAddressSpace(p) ==
  LET span == LoadSpan(reader[p].phdr)
      space == reader[p].space
  IN  /\ reader[p].pc = "read"
      /\ \/ /\ span.size = 0 \/ (span.size > space.size /\ lib.must)
            /\ Fail(p, "refused")
            /\ UNCHANGED mem
         \/ /\ span.size > space.size
            /\ ~lib.must
            /\ span.size > 0
            /\ \/ \E r \in Placements(p, span.size) :
                    /\ Place(p, r.start, span, r.gap, FALSE)
                    /\ mem' = [mem EXCEPT ![p] = Fill(@, r.start..(r.start + span.size + r.gap - 1), Reserved)]
               \/ Fail(p, "system") /\ UNCHANGED mem
         \/ /\ span.size \in 1..space.size
            /\ Place(p, space.start, span, 0, TRUE)
            /\ UNCHANGED mem
      /\ UNCHANGED <<lib, relro>>

\* Where Load ends: a range of its own is unmapped again when it failed.
Cleanup(p, m) ==
  LET r == reader[p]
  IN  IF r.mapped_by_caller THEN m ELSE Fill(m, r.start..(r.start + r.size - 1), None)

LoadFails(p, m, why) ==
  /\ Fail(p, why)
  /\ mem' = [mem EXCEPT ![p] = Cleanup(p, m)]

\* The file's pages, MAP_FIXED over what was there.
MapFile(m, p, s) ==
  LET first == PageStart(s.p_vaddr)
      count == PageEnd(s.p_offset + s.p_filesz) - PageStart(s.p_offset)
  IN  [k \in DOMAIN m |->
         IF k - At(p, first) \in 0..(count - 1)
         THEN Page("file", PageStart(lib.offset) + PageStart(s.p_offset) + k - At(p, first), Prot(s.p_flags))
         ELSE m[k]]

FileEnd(s) == s.p_vaddr + s.p_filesz

\* A writable segment is cleared from its end in the file to the end of that page.
Clears(s) == HasFlag(s.p_flags, PF.W) /\ PageOffset(FileEnd(s)) > 0

\* Mutation: the rest of the page keeps what the file has there.
ZeroTail_Kept(m, p, s) == m
ZeroTail(m, p, s) ==
  IF Clears(s)
  THEN [m EXCEPT ![At(p, PageStart(FileEnd(s)))].zeroFrom = Min({@, PageOffset(FileEnd(s))})]
  ELSE m

\* Whole pages past the file's: an anonymous mapping.
ZeroPages(s) == PageEnd(FileEnd(s))..(PageEnd(s.p_vaddr + s.p_memsz) - 1)

LoadSegment(p) ==
  LET r == reader[p]
      left == {i \in Loads(r.phdr) : i >= r.next}
      s == r.phdr[Min(left)]
      maps == PageEnd(s.p_offset + s.p_filesz) > PageStart(s.p_offset)
      mapped == IF maps THEN MapFile(mem[p], p, s) ELSE mem[p]
      cleared == ZeroTail(mapped, p, s)
  IN  /\ r.pc = "load"
      /\ left # {}
      /\ \/ /\ \/ s.p_offset + s.p_filesz > lib.file
               \/ maps /\ Enforced /\ {"W", "X"} \subseteq Prot(s.p_flags)
            /\ LoadFails(p, mem[p], "refused")
         \/ /\ s.p_offset + s.p_filesz <= lib.file
            /\ ~(maps /\ Enforced /\ {"W", "X"} \subseteq Prot(s.p_flags))
            /\ \/ /\ maps
                  /\ LoadFails(p, mem[p], "system")
               \/ /\ Clears(s) /\ "W" \notin mapped[At(p, PageStart(FileEnd(s)))].prot
                  /\ reader' = [reader EXCEPT ![p].pc = "crashed"]
                  /\ UNCHANGED mem
               \/ /\ Clears(s) => "W" \in mapped[At(p, PageStart(FileEnd(s)))].prot
                  /\ \/ /\ ZeroPages(s) # {}
                        /\ LoadFails(p, cleared, "system")
                     \/ /\ reader' = [reader EXCEPT ![p].next = Min(left) + 1]
                        /\ mem' = [mem EXCEPT ![p] = Fill(cleared, {At(p, k) : k \in ZeroPages(s)},
                                                          Page("zero", 0, Prot(s.p_flags)))]
      /\ UNCHANGED <<lib, relro>>

\* _phdr_table_set_load_prot: segments that are not writable get `extra', those
\* that become writable lose execution.  A failing mprotect stops at a segment.
SetLoadProt(m, p, phdr, extra) ==
  LET prot(s) == LET all == Prot(s.p_flags) \cup extra
                     safe == IF "W" \in all THEN all \ {"X"} ELSE all
                 IN  IF "X" \in safe THEN safe ELSE safe \ {"B"}
      apply(mm, s) == [k \in DOMAIN mm |-> IF k - reader[p].bias \in SegPages(s)
                                           THEN [mm[k] EXCEPT !.prot = prot(s)] ELSE mm[k]]
  IN  FoldLeft(apply, m, SelectSeq(phdr, LAMBDA s : s.p_type = PT.LOAD /\ ~HasFlag(s.p_flags, PF.W)))

protect_segments(m, p, phdr, bti) == SetLoadProt(m, p, phdr, IF bti THEN {"B"} ELSE {})
unprotect_segments(m, p, phdr) == SetLoadProt(m, p, phdr, {"W"})

\* The prefixes of a table: how far a loop over it came when a call failed.
Cut(phdr) == {SubSeq(phdr, 1, n) : n \in 0..(Len(phdr) - 1)}

CheckPhdr(phdr, loaded) ==
  \E i \in Loads(phdr) :
    /\ phdr[i].p_vaddr <= loaded
    /\ loaded + Len(phdr) * SizeOf(Elf_Phdr(lib.word)) <= FileEnd(phdr[i])

\* The table as loaded: where PT_PHDR says, or behind the header when the
\* first segment starts the file.  -1: not found.
FindPhdr(phdr) ==
  LET phdrs == {i \in 1..Len(phdr) : phdr[i].p_type = PT.PHDR}
      first == phdr[Min(Loads(phdr))]
      loaded == IF phdrs # {} THEN phdr[Min(phdrs)].p_vaddr
                ELSE IF first.p_offset = 0 THEN first.p_vaddr + Ehdr("e_phoff") ELSE -1
  IN  IF loaded >= 0 /\ CheckPhdr(phdr, loaded) THEN loaded ELSE -1

\* The rest of Load once every segment is mapped.
FinishLoad(p) ==
  LET r == reader[p]
      done(m) == /\ reader' = [reader EXCEPT ![p].pc = "loaded", ![p].did_load = TRUE,
                                             ![p].loaded_phdr = FindPhdr(r.phdr)]
                 /\ mem' = [mem EXCEPT ![p] = m]
  IN  /\ r.pc = "load"
      /\ \A i \in Loads(r.phdr) : i < r.next
      /\ \/ FindPhdr(r.phdr) < 0 /\ LoadFails(p, mem[p], "refused")
         \/ /\ FindPhdr(r.phdr) >= 0
            /\ IF lib.machine = EM_AARCH64 /\ lib.bti
               THEN \/ done(protect_segments(mem[p], p, r.phdr, TRUE))
                    \/ \E part \in Cut(r.phdr) : LoadFails(p, protect_segments(mem[p], p, part, TRUE), "system")
               ELSE done(mem[p])
      /\ UNCHANGED <<lib, relro>>

-----------------------------------------------------------------------------
(* Linking.  The linker proper calls the phdr_table functions in the order  *)
(* their comments state: relocations between unprotect and protect, the     *)
(* sealing of relro after relocations, the sharing of relro after that.     *)

GetDynamicSection(phdr) ==
  LET dynamics == {i \in 1..Len(phdr) : phdr[i].p_type = PT.DYNAMIC}
  IN  IF dynamics = {} THEN -1 ELSE phdr[Min(dynamics)].p_vaddr

GetArmExidx(phdr) ==
  LET exidx == {i \in 1..Len(phdr) : phdr[i].p_type = PT_ARM_EXIDX}
  IN  IF exidx = {} THEN [at |-> -1, count |-> 0]
      ELSE [at |-> phdr[Min(exidx)].p_vaddr, count |-> phdr[Min(exidx)].p_memsz \div 8]

LinkFails(p) == Fail(p, "link")

Prelink(p) ==
  /\ reader[p].pc = "loaded"
  /\ reader' = [reader EXCEPT ![p].pc = IF lib.textrel THEN "unprotect" ELSE "relocate",
                              ![p].dynamic = GetDynamicSection(reader[p].phdr),
                              ![p].exidx = GetArmExidx(reader[p].phdr)]
  /\ UNCHANGED <<lib, mem, relro>>

\* One mprotect per segment; the first that fails ends the call.
Unprotect(p) ==
  /\ reader[p].pc = "unprotect"
  /\ \/ /\ mem' = [mem EXCEPT ![p] = unprotect_segments(@, p, reader[p].phdr)]
        /\ reader' = [reader EXCEPT ![p].pc = "relocate"]
     \/ \E part \in Cut(reader[p].phdr) :
          /\ mem' = [mem EXCEPT ![p] = unprotect_segments(@, p, part)]
          /\ LinkFails(p)
  /\ UNCHANGED <<lib, relro>>

\* Writes every slot; the value depends on the load bias.
Relocate(p) ==
  LET slots == {At(p, PageStart(a)) : a \in lib.slots}
  IN  /\ reader[p].pc = "relocate"
      /\ IF \A k \in slots : "W" \in mem[p][k].prot
         THEN /\ mem' = [mem EXCEPT ![p] = [k \in DOMAIN @ |->
                           IF k \in slots THEN [@[k] EXCEPT !.relocated = reader[p].bias] ELSE @[k]]]
              /\ reader' = [reader EXCEPT ![p].pc = IF lib.textrel THEN "protect" ELSE "relro"]
         ELSE reader' = [reader EXCEPT ![p].pc = "crashed"] /\ UNCHANGED mem
      /\ UNCHANGED <<lib, relro>>

Protect(p) ==
  /\ reader[p].pc = "protect"
  /\ \/ /\ mem' = [mem EXCEPT ![p] = protect_segments(@, p, reader[p].phdr, lib.bti)]
        /\ reader' = [reader EXCEPT ![p].pc = "relro"]
     \/ \E part \in Cut(reader[p].phdr) :
          /\ mem' = [mem EXCEPT ![p] = protect_segments(@, p, part, lib.bti)]
          /\ LinkFails(p)
  /\ UNCHANGED <<lib, relro>>

\* Mutation: only the first relro segment is sealed.
set_gnu_relro_prot_First(m, p, phdr, prot) ==
  LET sealed == IF Relros(phdr) = <<>> THEN {} ELSE SegPages(Relros(phdr)[1])
  IN  [k \in DOMAIN m |-> IF k - reader[p].bias \in sealed THEN [m[k] EXCEPT !.prot = prot] ELSE m[k]]

\* Every page a relro segment touches becomes read-only.
set_gnu_relro_prot(m, p, phdr, prot) ==
  LET sealed == UNION {SegPages(Relros(phdr)[i]) : i \in 1..Len(Relros(phdr))}
  IN  [k \in DOMAIN m |-> IF k - reader[p].bias \in sealed THEN [m[k] EXCEPT !.prot = prot] ELSE m[k]]

ProtectRelro(p) ==
  /\ reader[p].pc = "relro"
  /\ \/ /\ mem' = [mem EXCEPT ![p] = set_gnu_relro_prot(@, p, reader[p].phdr, {"R"})]
        /\ reader' = [reader EXCEPT ![p].pc = "share"]
     \/ \E part \in Cut(reader[p].phdr) :
          /\ mem' = [mem EXCEPT ![p] = set_gnu_relro_prot(@, p, part, {"R"})]
          /\ LinkFails(p)
  /\ UNCHANGED <<lib, relro>>

-----------------------------------------------------------------------------
(* Sharing relro through a file, in the process that creates it and in the  *)
(* ones that use it.                                                        *)

\* What reading the page gives.
Content(m) ==
  IF m.from = "relro" THEN relro[m.index]
  ELSE [from |-> m.from, index |-> m.index, zeroFrom |-> m.zeroFrom, relocated |-> m.relocated]

Shares(p, pc) ==
  reader' = [reader EXCEPT ![p].pc = pc, ![p].segment = 1, ![p].offset = 0, ![p].size_seen = Len(relro)]

\* The caller asks for neither, for a file to be written, or for one to be used.
ChooseSharing(p) ==
  /\ reader[p].pc = "share"
  /\ \/ Shares(p, "done")
     \/ /\ relro = <<>>
        /\ \A q \in Processes : reader[q].pc # "serialize"
        /\ Shares(p, "serialize")
     \/ Shares(p, "map")                                   \* fstat
  /\ UNCHANGED <<lib, mem, relro>>

RelroPages(p) ==
  LET s == Relros(reader[p].phdr)[reader[p].segment]
  IN  [i \in 1..(PageEnd(s.p_vaddr + s.p_memsz) - PageStart(s.p_vaddr)) |-> At(p, PageStart(s.p_vaddr)) + i - 1]

Advance(p, pages) == [reader EXCEPT ![p].segment = @ + 1, ![p].offset = @ + Len(pages)]

\* One turn of the loop: write the segment's pages, then map them from the file.
SerializeGnuRelro(p) ==
  LET r == reader[p]
      pages == RelroPages(p)
      contents == [i \in 1..Len(pages) |-> Content(mem[p][pages[i]])]
  IN  /\ r.pc = "serialize"
      /\ UNCHANGED lib
      /\ \/ /\ r.segment > Len(Relros(r.phdr))
            /\ reader' = [reader EXCEPT ![p].pc = "done"]
            /\ UNCHANGED <<mem, relro>>
         \/ /\ r.segment <= Len(Relros(r.phdr))
            /\ \/ /\ relro' = relro \o contents
                  /\ mem' = [mem EXCEPT ![p] = [k \in DOMAIN @ |->
                               IF \E i \in 1..Len(pages) : pages[i] = k
                               THEN Page("relro", r.offset + 1 + k - pages[1], {"R"}) ELSE @[k]]]
                  /\ reader' = Advance(p, pages)
               \/ \E n \in 0..Len(pages) :                 \* a short write, or no mapping
                    /\ relro' = relro \o SubSeq(contents, 1, n)
                    /\ LinkFails(p)
                    /\ UNCHANGED mem

\* Mutation: every page of the segment is taken for equal.
SamePages_All(p, pages, offset) == 1..Len(pages)

\* The pages that read the same here and in the file.
SamePages(p, pages, offset) == {i \in 1..Len(pages) : Content(mem[p][pages[i]]) = relro[offset + i]}

\* One turn: only pages that read the same are replaced, and a file too short
\* for the segment ends the loop.
MapGnuRelro(p) ==
  LET r == reader[p]
      pages == RelroPages(p)
      same == SamePages(p, pages, r.offset)
      mapped(only) == [mem EXCEPT ![p] = [k \in DOMAIN @ |->
                         IF \E i \in only : pages[i] = k
                         THEN Page("relro", r.offset + 1 + k - pages[1], {"R"}) ELSE @[k]]]
  IN  /\ r.pc = "map"
      /\ UNCHANGED <<lib, relro>>
      /\ \/ /\ \/ r.segment > Len(Relros(r.phdr))
               \/ r.segment <= Len(Relros(r.phdr)) /\ r.size_seen - r.offset < Len(pages)
            /\ reader' = [reader EXCEPT ![p].pc = "done"]
            /\ UNCHANGED mem
         \/ /\ r.segment <= Len(Relros(r.phdr))
            /\ r.size_seen - r.offset >= Len(pages)
            /\ \/ mem' = mapped(same) /\ reader' = Advance(p, pages)
               \/ /\ same # {}                             \* an mmap fails on the way
                  /\ LinkFails(p)
                  /\ \E n \in 1..Len(pages) : mem' = mapped({i \in same : i < n})

-----------------------------------------------------------------------------
NewReader ==
  [pc |-> "new", error |-> "none", phdr |-> <<>>, next |-> 1, did_load |-> FALSE,
   start |-> 0, size |-> 0, bias |-> 0, gap |-> 0, mapped_by_caller |-> FALSE,
   space |-> [start |-> Min(Starts), size |-> lib.reserved], loaded_phdr |-> -1, dynamic |-> -1,
   exidx |-> [at |-> -1, count |-> 0], segment |-> 0, offset |-> 0, size_seen |-> 0]

\* From any of `libraries': each with where it is and who loads it.
Init(libraries) ==
  /\ lib \in libraries
  /\ reader = [p \in Processes |-> NewReader]
  /\ mem = [p \in Processes |-> [k \in Pages |->
              IF k - Min(Starts) \in 0..(lib.reserved - 1) THEN Reserved ELSE None]]
  /\ relro = <<>>

Step(p) ==
  \/ Read(p)
  \/ ReserveAddressSpace(p)
  \/ LoadSegment(p)
  \/ FinishLoad(p)
  \/ Prelink(p)
  \/ Unprotect(p)
  \/ Relocate(p)
  \/ Protect(p)
  \/ ProtectRelro(p)
  \/ ChooseSharing(p)
  \/ SerializeGnuRelro(p)
  \/ MapGnuRelro(p)

Next == \E p \in Processes : Step(p)

Spec(libraries) == Init(libraries) /\ [][Next]_vars

-----------------------------------------------------------------------------
(* Properties *)

InImage(p) == reader[p].start..(reader[p].start + reader[p].size - 1)

\* The library setup.ps1 wrote: nothing the loader verifies refuses it at any
\* target SDK, linking it never writes to a page that is not writable, and the
\* dynamic table at the address the loader finds resolves each of its symbols,
\* through the hash table, to an address a loaded segment covers.
\* (lib/linker_phdr.cpp:232-313, 333-493, 697-798 against setup.ps1:3748-4176.)
Covered(p, address) ==
  \E i \in Loads(reader[p].phdr) : LET s == reader[p].phdr[i]
                                   IN  s.p_vaddr <= address /\ address < FileEnd(s)

SetupLibraryLoads ==
  lib.symbols # {} =>
    \A p \in Processes :
      /\ reader[p].error # "refused"
      /\ reader[p].pc # "crashed"
      /\ reader[p].dynamic >= 0 =>
           \A name \in lib.symbols :
             LET found == Resolve(lib.image.at, lib.word, reader[p].dynamic, lib.tags, name)
             IN  found.index # 0 /\ Covered(p, found.value)

\* A library that is loaded reads as its file: every page of a segment holds the
\* file's bytes up to the segment's end, a writable segment is zero from there
\* on, and every page mapped from the file lies in the file.
\* (lib/linker_phdr.cpp:70-93 and 697-798.)
SegmentIsFaithful(p, s) ==
  \A k \in SegPages(s) :
    LET c == Content(mem[p][At(p, k)])
        end == FileEnd(s) - k * lib.page
    IN  IF end > 0
        THEN /\ c.from = "file"
             /\ c.index = PageStart(lib.offset + s.p_offset) + k - PageStart(s.p_vaddr)
             /\ c.index * lib.page < lib.file
             /\ c.zeroFrom >= Min({end, lib.page})
             /\ Clears(s) /\ end < lib.page => c.zeroFrom <= end
        ELSE c.from = "zero"

LoadIsFaithful ==
  \A p \in Processes :
    reader[p].did_load => \A i \in Loads(reader[p].phdr) : SegmentIsFaithful(p, reader[p].phdr[i])

\* A load writes to no page outside the range it reserved, whatever fails; a
\* failed one gives a range of its own back and leaves a caller's range mapped.
\* (lib/linker_phdr.cpp:190-196, 651-695.)
RangeIsItsOwn ==
  \A p \in Processes :
    LET r == reader[p]
        callers == Min(Starts)..(Min(Starts) + lib.reserved - 1)
    IN  \A k \in Pages :
          /\ k \in callers => mem[p][k] # None
          /\ k \notin callers /\ k \notin r.start..(r.start + r.size + r.gap - 1) => mem[p][k] = None
          /\ r.pc = "failed" /\ ~r.did_load /\ ~r.mapped_by_caller /\ k \in InImage(p)
               => mem[p][k] = None

\* From Android O on no page is ever writable and executable at once, while a
\* library with text relocations is written to as well.
\* (lib/linker_phdr.cpp:737-748 and 818-821.)
NeverWritableAndExecutable ==
  Enforced => \A p \in Processes, k \in Pages : ~({"W", "X"} \subseteq mem[p][k].prot)

\* Once linked, each page has the flags of the last segment that touches it,
\* and is read-only if a relro segment does.  Left out: two segments that share
\* a page of a library protected a second time (text relocations, BTI).
\* (lib/linker_phdr.cpp:87-89, 839-841, 899-914.)
SharesPage(phdr) == \E i, j \in Loads(phdr) : i # j /\ SegPages(phdr[i]) \cap SegPages(phdr[j]) # {}

ProtectionsSettle ==
  \A p \in Processes :
    LET phdr == reader[p].phdr
        over == lib.textrel \/ lib.bti
    IN  reader[p].pc = "done" /\ ~(SharesPage(phdr) /\ over) =>
          \A i \in Loads(phdr) : \A k \in SegPages(phdr[i]) :
            LET last == phdr[Max({j \in Loads(phdr) : k \in SegPages(phdr[j])})]
                sealed == \E j \in 1..Len(Relros(phdr)) : k \in SegPages(Relros(phdr)[j])
            IN  mem[p][At(p, k)].prot \ {"B"} = IF sealed THEN {"R"} ELSE Prot(last.p_flags)

\* Sharing relro pages through the file changes no byte the process reads, in
\* the process that writes the file and in those that map it, for whatever
\* address each was loaded at and however much of the file is there.
\* (lib/linker_phdr.cpp:949-998.)
Sharing == {"serialize", "map"}

SharingKeepsContents ==
  \A p \in Processes :
    reader[p].pc \in Sharing =>
      \A k \in InImage(p) : Content(mem[p][k])' = Content(mem[p][k])

RelroKeepsContents == [][SharingKeepsContents]_vars
=============================================================================
