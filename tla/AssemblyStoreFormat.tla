------------------------- MODULE AssemblyStoreFormat -------------------------
(***************************************************************************)
(* The assembly store: one file that holds every managed assembly of the   *)
(* package.  Two programs write it, New-AssemblyStoreBytes (setup.ps1) and *)
(* the upstream generator (lib/AssemblyStoreGenerator.cs); one checks it   *)
(* at build time, Test-AssemblyStoreBytes; the runtime reads it            *)
(* (lib/assembly-store.cc, module AssemblyStore).                          *)
(*                                                                         *)
(* A payload is a function from byte offsets to the item that starts       *)
(* there, so a reader that computes an offset wrongly reads nothing.  A    *)
(* name is the sequence of its parts between dots.  The CRC32 of a name is *)
(* a parameter: a function `crc' that may collide.                         *)
(***************************************************************************)
EXTENDS Naturals, FiniteSets, Sequences, SequencesExt

\* Sizes in bytes of the packed structures.
HeaderSize == 28
IndexEntrySize == 9
DescriptorSize == 28

Magic == "XABA"
FormatVersion == "v4"

\* What is read where no item starts.
Nothing == [item |-> "nothing"]
ReadAt(payload, offset) ==
  IF offset \in DOMAIN payload THEN payload[offset] ELSE Nothing

-----------------------------------------------------------------------------
(* Names *)

WithoutExtension(name) == IF Len(name) > 1 THEN Front(name) ELSE name

\* Both names the runtime may ask for.
LookupNames(name) == <<name, WithoutExtension(name)>>

NameMatches(requested, stored) ==
  \/ requested = stored
  \/ Len(stored) > 1 /\ requested = Front(stored)

\* One letter a part, and the dots between them.
NameBytes(name) == 2 * Len(name) - 1
NameRecordSize(name) == 4 + NameBytes(name)

-----------------------------------------------------------------------------
(* Layout.  An assembly is [name, image, ignored]; an image is             *)
(* [kind, size, length, built, frame, symbols]: the bytes stored, the      *)
(* length its compression header declares, the length known when the       *)
(* application was built, the length the compressed frame really has, and  *)
(* the bytes of debug data behind it (0 for none).                         *)

AlignTo(x, alignment) == ((x + alignment - 1) \div alignment) * alignment

NamesSize(assemblies) ==
  FoldLeft(LAMBDA sum, a : sum + NameRecordSize(a.name), 0, assemblies)

DescriptorStart(count) == HeaderSize + 2 * count * IndexEntrySize
NamesStart(count) == DescriptorStart(count) + count * DescriptorSize
DataStart(assemblies) == NamesStart(Len(assemblies)) + NamesSize(assemblies)

\* The descriptors in the order of the assemblies.  The cursor starts at the
\* data; an ignored assembly (generator only) takes no data and no mapping.
AppendDescriptor(state, a, alignment) ==
  LET offset == AlignTo(state.cursor, alignment)
      debug == IF a.image.symbols = 0 THEN 0 ELSE offset + a.image.size
  IN  IF a.ignored
      THEN [state EXCEPT !.descriptors = Append(@,
              [item |-> "descriptor", mapping_index |-> 0, data_offset |-> 0,
               data_size |-> 0, debug_data_offset |-> 0])]
      ELSE [cursor |-> offset + a.image.size + a.image.symbols,
            mapping |-> state.mapping + 1,
            descriptors |-> Append(state.descriptors,
              [item |-> "descriptor", mapping_index |-> state.mapping,
               data_offset |-> offset, data_size |-> a.image.size,
               debug_data_offset |-> debug])]

Descriptors(assemblies, alignment) ==
  FoldLeft(LAMBDA state, a : AppendDescriptor(state, a, alignment),
           [cursor |-> DataStart(assemblies), mapping |-> 0,
            descriptors |-> <<>>],
           assemblies).descriptors

\* Two index entries an assembly; descriptor indices count from 0.
IndexEntries(assemblies, crc) ==
  FlattenSeq([i \in 1..Len(assemblies) |->
    [k \in 1..2 |->
      [item |-> "index", name_hash |-> crc[LookupNames(assemblies[i].name)[k]],
       descriptor_index |-> i - 1, ignore |-> assemblies[i].ignored]]])

-----------------------------------------------------------------------------
(* Writers *)

\* Places the items of the sequence from `start', each `size[i]' after the last.
Place(items, start, size) ==
  FoldLeft(LAMBDA state, i : [at |-> state.at + size[i],
                              placed |-> state.placed \union {<<state.at, items[i]>>}],
           [at |-> start, placed |-> {}],
           [i \in 1..Len(items) |-> i]).placed

AsFunction(pairs) ==
  [o \in {p[1] : p \in pairs} |-> (CHOOSE p \in pairs : p[1] = o)[2]]

Header(count) ==
  [item |-> "header", magic |-> Magic, version |-> FormatVersion,
   entry_count |-> count, index_entry_count |-> 2 * count,
   index_size |-> 2 * count * IndexEntrySize]

\* The file both writers produce, from an index in the order they sorted it.
StoreBytes(assemblies, index, descriptors) ==
  LET count == Len(assemblies)
      names == [i \in 1..count |-> [item |-> "name", length |-> NameBytes(assemblies[i].name),
                                    name |-> assemblies[i].name]]
  IN  AsFunction(
        {<<0, Header(count)>>}
        \union Place(index, HeaderSize, [i \in 1..Len(index) |-> IndexEntrySize])
        \union Place(descriptors, DescriptorStart(count), [i \in 1..count |-> DescriptorSize])
        \union Place(names, NamesStart(count),
                     [i \in 1..count |-> NameRecordSize(assemblies[i].name)])
        \union {<<descriptors[i].data_offset,
                  [item |-> "image", of |-> assemblies[i].name, image |-> assemblies[i].image]>> :
                  i \in {j \in 1..count : ~assemblies[j].ignored}}
        \union {<<descriptors[i].debug_data_offset, [item |-> "debug", of |-> assemblies[i].name]>> :
                  i \in {j \in 1..count : descriptors[j].debug_data_offset # 0}})

\* Mutation: the index is left in the order of the descriptors.
ByHashThenDescriptor_Unsorted(a, b) == a.descriptor_index < b.descriptor_index

\* New-AssemblyStoreBytes: sorted by hash, then by descriptor; 16-byte images.
ByHashThenDescriptor(a, b) ==
  \/ a.name_hash < b.name_hash
  \/ a.name_hash = b.name_hash /\ a.descriptor_index < b.descriptor_index

New_AssemblyStoreBytes(assemblies, crc) ==
  StoreBytes(assemblies, SortSeq(IndexEntries(assemblies, crc), ByHashThenDescriptor),
             Descriptors(assemblies, 16))

\* Generate: sorted by hash alone with an unstable sort, so that entries of one
\* hash come in either order; images end to end.
ByHash(a, b) == a.name_hash < b.name_hash
GeneratedStores(assemblies, crc) ==
  LET entries == IndexEntries(assemblies, crc)
  IN  {StoreBytes(assemblies, SortSeq(order, ByHash), Descriptors(assemblies, 1)) :
         order \in {entries, Reverse(entries)}}

-----------------------------------------------------------------------------
(* Test-AssemblyStoreBytes: what it checks of a store setup.ps1 emitted.   *)

NamesOf(payload, count) ==
  FoldLeft(LAMBDA state, i :
             LET record == ReadAt(payload, state.cursor)
             IN  IF record.item # "name" THEN state
                 ELSE [cursor |-> state.cursor + 4 + record.length,
                       names |-> Append(state.names, record.name)],
           [cursor |-> NamesStart(count), names |-> <<>>],
           [i \in 1..count |-> i]).names

IndexAt(payload, i) == ReadAt(payload, HeaderSize + i * IndexEntrySize)
DescriptorAt(payload, count, d) == ReadAt(payload, DescriptorStart(count) + d * DescriptorSize)

\* The descriptor $seen keeps for a hash: the last entry of that hash.
Seen(payload, count, hash) ==
  LET entries == {i \in 0..(2 * count - 1) : IndexAt(payload, i).name_hash = hash}
  IN  IF entries = {} THEN count
      ELSE IndexAt(payload, CHOOSE i \in entries : \A j \in entries : j <= i).descriptor_index

Resolves(payload, assemblies, crc, a, lookup) ==
  LET count == Len(assemblies)
      d == Seen(payload, count, crc[lookup])
      descriptor == DescriptorAt(payload, count, d)
  IN  /\ d < count
      /\ NamesOf(payload, count)[d + 1] = a.name
      /\ descriptor.data_size = a.image.size

LayoutHolds(payload, assemblies, alignment) ==
  LET count == Len(assemblies)
      start(i) == DescriptorAt(payload, count, i).data_offset
      previousEnd(i) == IF i = 0 THEN DataStart(assemblies)
                        ELSE start(i - 1) + DescriptorAt(payload, count, i - 1).data_size
  IN  \A i \in 0..(count - 1) :
        /\ start(i) % alignment = 0
        /\ start(i) >= previousEnd(i)
        /\ start(i) - previousEnd(i) < alignment
        /\ ReadAt(payload, start(i)).item = "image"
        /\ ReadAt(payload, start(i)).image = assemblies[i + 1].image
        /\ ReadAt(payload, start(i)).image.kind = "plain"

Test_AssemblyStoreBytes(payload, assemblies, crc) ==
  LET count == Len(assemblies)
      header == ReadAt(payload, 0)
  IN  /\ header = Header(count)
      /\ NamesOf(payload, count) = [i \in 1..count |-> assemblies[i].name]
      /\ \A i \in 1..(2 * count - 1) :
           IndexAt(payload, i).name_hash >= IndexAt(payload, i - 1).name_hash
      /\ \A i \in 0..(2 * count - 1) : IndexAt(payload, i).descriptor_index < count
      /\ \A i \in 1..count : \A lookup \in ToSet(LookupNames(assemblies[i].name)) :
           Resolves(payload, assemblies, crc, assemblies[i], lookup)
      /\ \A i \in 0..(count - 1) : DescriptorAt(payload, count, i).mapping_index = i
      /\ LayoutHolds(payload, assemblies, 16)
=============================================================================
