------------------------------ MODULE ElfImage -------------------------------
(***************************************************************************)
(* The libraries setup.ps1 writes byte by byte: the payload library, which *)
(* carries the assembly store under one symbol, and the code library, with *)
(* exported functions, imports through a GOT and writable data.  Code and  *)
(* text are abstracted to their sizes; every offset, size and table is     *)
(* computed as the writers compute it.                                     *)
(*                                                                         *)
(* A target is [word, machine, flags, form, stateBit]; a string is         *)
(* [text, length].                                                         *)
(***************************************************************************)
EXTENDS ElfFormat

\* Get-ElfLayout: the record sizes, written out by hand in setup.ps1.
Get_ElfLayout(w) ==
  IF w = 8
  THEN [Word |-> 8, Header |-> 64, ProgramHeader |-> 56, SectionHeader |-> 64,
        Symbol |-> 24, Dynamic |-> 16, REL |-> 16, RELA |-> 24]
  ELSE [Word |-> 4, Header |-> 52, ProgramHeader |-> 32, SectionHeader |-> 40,
        Symbol |-> 16, Dynamic |-> 8, REL |-> 8, RELA |-> 12]

\* New-ElfStringTable: a leading NUL, each distinct string NUL-terminated.
StringTable(strings) ==
  FoldLeft(LAMBDA table, s :
             IF s.text \in DOMAIN table.at THEN table
             ELSE [size |-> table.size + s.length + 1, at |-> (s.text :> table.size) @@ table.at],
           [size |-> 1, at |-> <<>>], strings)

\* Get-ElfHashTableBytes: one bucket that starts the chain of every symbol.
HashSize(count) == 4 * (3 + count + 1)
\* Mutation: the chain ends one symbol early.
WriteHash_EndsEarly(at, count) ==
  <<<<at, 4, 1>>, <<at + 4, 4, count + 1>>, <<at + 8, 4, 1>>>> \o
  [i \in 1..(count + 1) |-> <<at + 12 + 4 * (i - 1), 4, IF i = 1 \/ i >= count THEN 0 ELSE i>>]
WriteHash(at, count) ==
  <<<<at, 4, 1>>, <<at + 4, 4, count + 1>>, <<at + 8, 4, 1>>>> \o
  [i \in 1..(count + 1) |-> <<at + 12 + 4 * (i - 1), 4,
                              IF i = 1 \/ i = count + 1 THEN 0 ELSE i>>]

WriteHeader(target, L, count) ==
  LET w == L.Word
      at == 24 + 3 * w
  IN    <<<<0, 4, ElfMagic>>, <<4, 1, ElfClass(w)>>, <<5, 1, ELFDATA2LSB>>, <<6, 1, EV_CURRENT>>,
          <<16, 2, ET.DYN>>, <<18, 2, target.machine>>, <<20, 4, EV_CURRENT>>,
          <<24 + w, w, L.Header>>, <<at, 4, target.flags>>, <<at + 4, 2, L.Header>>,
          <<at + 6, 2, L.ProgramHeader>>, <<at + 8, 2, count>>, <<at + 10, 2, L.SectionHeader>>>>

\* Write-ElfProgramHeader: offset, address and physical address are one number.
WriteProgramHeader(L, at, s) ==
  LET w == L.Word
      fields == IF w = 8 THEN at + 8 ELSE at + 4
      align == IF w = 4 THEN fields + 4 ELSE fields
  IN    <<<<at, 4, s.type>>, <<fields, w, s.offset>>, <<fields + w, w, s.offset>>,
          <<fields + 2 * w, w, s.offset>>, <<fields + 3 * w, w, s.size>>,
          <<fields + 4 * w, w, s.size>>, <<align + 5 * w, w, s.align>>,
          <<IF w = 8 THEN at + 4 ELSE fields + 5 * w, 4, s.flags>>>>

WriteProgramHeaders(L, segments) ==
  FlattenSeq([i \in 1..Len(segments) |->
                WriteProgramHeader(L, L.Header + (i - 1) * L.ProgramHeader, segments[i])])

WriteSymbol(L, at, s) ==
  IF L.Word = 8
  THEN <<<<at, 4, s.name>>, <<at + 4, 1, s.info>>, <<at + 6, 2, s.section>>,
                       <<at + 8, 8, s.value>>, <<at + 16, 8, s.size>>>>
  ELSE <<<<at, 4, s.name>>, <<at + 4, 4, s.value>>, <<at + 8, 4, s.size>>,
                       <<at + 12, 1, s.info>>, <<at + 14, 2, s.section>>>>

WriteDynamicTable(L, at, entries) ==
  FlattenSeq([i \in 1..Len(entries) |->
    <<<<at + (i - 1) * L.Dynamic, L.Word, entries[i][1]>>,
      <<at + (i - 1) * L.Dynamic + L.Word, L.Word, entries[i][2]>>>>])

\* Write-ElfRelocation: RELA carries the addend, REL leaves it in the place.
WriteRelocation(L, form, at, r) ==
  <<<<at, L.Word, r.offset>>, <<at + L.Word, L.Word, <<r.symbol, r.type>>>>,
                  IF form = "RELA" THEN <<at + 2 * L.Word, L.Word, r.addend>>
                                   ELSE <<r.offset, L.Word, r.addend>>>>

\* Add-ElfSectionTable: null, .dynstr, .dynamic linked to it, .shstrtab, all
\* after the image of these fields; then e_shoff, e_shnum and e_shstrndx.
AddSectionTable(fields, size, L, dynstr, dynstrSize, dynamic, dynamicSize) ==
  LET w == L.Word
      strings == StringTable(<<[text |-> ".dynstr", length |-> 7], [text |-> ".dynamic", length |-> 8],
                               [text |-> ".shstrtab", length |-> 9]>>)
      stringsOffset == AlignedOffset(size, w)
      tableOffset == AlignedOffset(stringsOffset + strings.size, w)
      section(i, type, flags, address, offset, length, link, align, entry) ==
        LET at == tableOffset + i * L.SectionHeader
        IN  <<<<at + 4, 4, type>>, <<at + 8, w, flags>>, <<at + 8 + w, w, address>>, <<at + 8 + 2 * w, w, offset>>,
              <<at + 8 + 3 * w, w, length>>, <<at + 8 + 4 * w, 4, link>>,
              <<at + 16 + 4 * w, w, align>>, <<at + 16 + 5 * w, w, entry>>>>
      at == 24 + 3 * w
  IN  [size |-> tableOffset + 4 * L.SectionHeader,
       at |-> Set_ElfFields(fields \o
         section(1, SHT.STRTAB, SHF.ALLOC, dynstr, dynstr, dynstrSize, 0, 1, 0) \o
         section(2, SHT.DYNAMIC, SHF.ALLOC + SHF.WRITE, dynamic, dynamic, dynamicSize, 1, w, L.Dynamic) \o
         section(3, SHT.STRTAB, 0, 0, stringsOffset, strings.size, 0, 1, 0) \o
         <<<<24 + 2 * w, w, tableOffset>>, <<at + 10, 2, L.SectionHeader>>,
           <<at + 12, 2, 4>>, <<at + 14, 2, 3>>>>)]

-----------------------------------------------------------------------------
(* New-ElfPayloadLibrary *)

Segment(type, flags, offset, size, align) ==
  [type |-> type, flags |-> flags, offset |-> offset, size |-> size, align |-> align]

New_ElfPayloadLibrary(target, soname, symbol, payloadSize, pageSize) ==
  LET w == target.word
      L == Get_ElfLayout(w)
      strings == StringTable(<<soname, symbol>>)
      dynstr == L.Header + L.ProgramHeader * 3
      dynsym == AlignedOffset(dynstr + strings.size, w)
      hash == dynsym + 2 * L.Symbol
      dynamic == AlignedOffset(hash + HashSize(1), w)
      dynamicSize == L.Dynamic * (IF w = 8 THEN 8 ELSE 7)
      payload == AlignedOffset(dynamic + dynamicSize, pageSize)
      size == payload + payloadSize
      fields ==
        WriteHeader(target, L, 3) \o
        WriteProgramHeaders(L,
          <<Segment(PT.PHDR, PF.R, L.Header, L.ProgramHeader * 3, w),
            Segment(PT.LOAD, PF.R, 0, size, pageSize),
            Segment(PT.DYNAMIC, PF.R, dynamic, dynamicSize, w)>>) \o
        WriteSymbol(L, dynsym + L.Symbol,
          [name |-> strings.at[symbol.text], info |-> SymbolInfo(STB.GLOBAL, STT.OBJECT), section |-> 1,
           value |-> payload, size |-> payloadSize]) \o
        WriteHash(hash, 1) \o
        WriteDynamicTable(L, dynamic,
          <<<<DT.SONAME, strings.at[soname.text]>>, <<DT.HASH, hash>>, <<DT.STRTAB, dynstr>>,
            <<DT.SYMTAB, dynsym>>, <<DT.STRSZ, strings.size>>, <<DT.SYMENT, L.Symbol>>,
            <<DT.NULL, 0>>>>) \o
        <<<<payload, payloadSize, "payload">>>>
  IN  AddSectionTable(fields, size, L, dynstr, strings.size, dynamic, dynamicSize)
      @@ [soname |-> soname, symbols |-> <<symbol>>, payload |-> payload]

-----------------------------------------------------------------------------
(* New-ElfCodeLibrary.  A library is described by its soname, the libraries *)
(* it needs, its imports, its exports [name, size], the bytes of its        *)
(* read-only data, and its writable data [size, pointers], each pointer the *)
(* place of a slot that receives an address.                                *)

Total(sizes) == FoldLeft(LAMBDA sum, x : sum + x, 0, sizes)

\* Each writable block on 16 bytes after the last; where each one starts.
WritableLayout(start, blocks) ==
  FoldLeft(LAMBDA state, b : LET at == AlignedOffset(state.end, 16)
                             IN  [end |-> at + b.size, starts |-> Append(state.starts, at)],
           [end |-> start, starts |-> <<>>], blocks)

New_ElfCodeLibrary(target, lib, pageSize) ==
  LET w == target.word
      L == Get_ElfLayout(w)
      entry == L[target.form]
      exports == [i \in 1..Len(lib.exports) |-> lib.exports[i].name]
      symbols == lib.imports \o exports
      strings == StringTable(<<lib.soname>> \o lib.needed \o symbols)
      dynstr == L.Header + L.ProgramHeader * 6
      dynsym == AlignedOffset(dynstr + strings.size, w)
      hash == AlignedOffset(dynsym + L.Symbol * (Len(symbols) + 1), w)
      pointers == FlattenSeq([b \in 1..Len(lib.writable) |->
                    [k \in 1..Len(lib.writable[b].pointers) |-> <<b, lib.writable[b].pointers[k]>>]])
      relocation == AlignedOffset(hash + HashSize(Len(symbols)), w)
      relocationSize == entry * (Len(lib.imports) + Len(pointers))
      dynamic == AlignedOffset(relocation + relocationSize, w)
      dynamicSize == L.Dynamic * (11 + Len(lib.needed))
      metaEnd == dynamic + dynamicSize
      text == AlignedOffset(metaEnd, pageSize)
      start(i) == text + Total([k \in 1..(i - 1) |-> lib.exports[k].size])
      textEnd == start(Len(lib.exports) + 1) + lib.data
      got == AlignedOffset(textEnd, pageSize)
      writable == WritableLayout(got + w * (IF lib.imports = <<>> THEN 1 ELSE Len(lib.imports)), lib.writable)
      size == writable.end
      headers == WriteProgramHeaders(L,
        <<Segment(PT.PHDR, PF.R, L.Header, L.ProgramHeader * 6, w),
          Segment(PT.LOAD, PF.R, 0, metaEnd, pageSize),
          Segment(PT.LOAD, PF.R + PF.X, text, textEnd - text, pageSize),
          Segment(PT.LOAD, PF.R + PF.W, got, size - got, pageSize),
          Segment(PT.DYNAMIC, PF.R, dynamic, dynamicSize, w),
          Segment(PT_GNU.STACK, PF.R + PF.W, 0, 0, 16)>>)
      symbol(i) ==
        LET n == i - Len(lib.imports)
        IN  IF n <= 0
            THEN [name |-> strings.at[symbols[i].text], info |-> SymbolInfo(STB.GLOBAL, STT.FUNC), section |-> SHN_UNDEF,
                  value |-> 0, size |-> 0]
            ELSE [name |-> strings.at[symbols[i].text], info |-> SymbolInfo(STB.GLOBAL, STT.FUNC), section |-> 1,
                  value |-> start(n) + target.stateBit, size |-> lib.exports[n].size]
      symbolTable == FlattenSeq([i \in 1..Len(symbols) |-> WriteSymbol(L, dynsym + L.Symbol * i, symbol(i))])
      slots == [i \in 1..Len(lib.imports) |->
                  [offset |-> got + w * (i - 1), symbol |-> i, type |-> "GLOB_DAT", addend |-> 0]]
      relatives == [i \in 1..Len(pointers) |->
                  [offset |-> writable.starts[pointers[i][1]] + pointers[i][2], symbol |-> 0,
                   type |-> "RELATIVE", addend |-> start(1) + target.stateBit]]
      all == slots \o relatives
      relocations == FlattenSeq([i \in 1..Len(all) |->
                       WriteRelocation(L, target.form, relocation + entry * (i - 1), all[i])])
      dynamicTable ==
        [i \in 1..Len(lib.needed) |-> <<DT.NEEDED, strings.at[lib.needed[i].text]>>] \o
        <<<<DT.SONAME, strings.at[lib.soname.text]>>, <<DT.HASH, hash>>, <<DT.STRTAB, dynstr>>,
          <<DT.SYMTAB, dynsym>>, <<DT.STRSZ, strings.size>>, <<DT.SYMENT, L.Symbol>>,
          <<DT[target.form], relocation>>, <<DT[target.form \o "SZ"], relocationSize>>, <<DT[target.form \o "ENT"], entry>>,
          <<DT.FLAGS, DF_BIND_NOW>>, <<DT.NULL, 0>>>>
  IN  AddSectionTable(WriteHeader(target, L, 6) \o headers \o symbolTable \o
                        WriteHash(hash, Len(symbols)) \o relocations \o
                        WriteDynamicTable(L, dynamic, dynamicTable), size, L,
                      dynstr, strings.size, dynamic, dynamicSize)
      @@ [soname |-> lib.soname, symbols |-> symbols, slots |-> slots]

-----------------------------------------------------------------------------
(* What setup.ps1 reads back of an image (Read-ElfImage and the two tests), *)
(* through the structures, as the loader does.                              *)

PhdrFields == {"p_type", "p_flags", "p_offset", "p_vaddr", "p_filesz", "p_memsz", "p_align"}

Segments(image, w) ==
  LET ph == Field(image, 0, Elf_Ehdr(w), "e_phoff")
  IN  [i \in 1..Field(image, 0, Elf_Ehdr(w), "e_phnum") |->
        [name \in PhdrFields |->
          Field(image, ph + (i - 1) * Field(image, 0, Elf_Ehdr(w), "e_phentsize"), Elf_Phdr(w), name)]]

DynamicValue(image, w, at, count, tag) ==
  LET entry(k) == at + (k - 1) * SizeOf(Elf_Dyn(w))
      found == {k \in 1..count : Field(image, entry(k), Elf_Dyn(w), "d_tag") = tag}
  IN  IF found = {} THEN Garbage
      ELSE Field(image, entry(CHOOSE k \in found : TRUE), Elf_Dyn(w), "d_un")

\* dlsym: from the bucket along the chain to the symbol of this name.
Resolve(image, w, dynamic, count, nameOffset) ==
  LET hash == DynamicValue(image, w, dynamic, count, DT.HASH)
      symtab == DynamicValue(image, w, dynamic, count, DT.SYMTAB)
      chainCount == GetField(image, hash + 4, 4)
      symbolAt(i) == symtab + i * DynamicValue(image, w, dynamic, count, DT.SYMENT)
      chain[i \in 0..chainCount] ==
        IF i = 0 THEN 0
        ELSE IF Field(image, symbolAt(i), Elf_Sym(w), "st_name") = nameOffset THEN i
        ELSE chain[GetField(image, hash + 8 + 4 + 4 * i, 4)]
      found == chain[GetField(image, hash + 8, 4)]
  IN  [index |-> found, value |-> Field(image, symbolAt(found), Elf_Sym(w), "st_value"),
       size |-> Field(image, symbolAt(found), Elf_Sym(w), "st_size"),
       section |-> Field(image, symbolAt(found), Elf_Sym(w), "st_shndx")]
=============================================================================
