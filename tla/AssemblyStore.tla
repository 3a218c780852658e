---------------------------- MODULE AssemblyStore ----------------------------
(***************************************************************************)
(* The assembly store at run time (lib/assembly-store.cc): one payload,    *)
(* mapped read-only, and any number of runtime threads in open_assembly.   *)
(* An image is mapped on its first use, by plain stores of three pointers, *)
(* and a compressed one is decompressed once, under a mutex, into the      *)
(* buffer the application reserved for it.                                 *)
(*                                                                         *)
(* pc[t] is where thread t stands in open_assembly; what it holds in local *)
(* variables is call[t].  The plain stores of lines 263-267 race with the  *)
(* reads of other threads: nothing orders them, so a thread's pending      *)
(* stores become visible in any order.                                     *)
(***************************************************************************)
EXTENDS AssemblyStoreFormat

CONSTANTS
  Threads,   \* the threads that open assemblies
  Sources,   \* what a store is made of: [writer, assemblies, crc]
  Requests,  \* the names a thread may ask for
  NoThread   \* the owner of a free mutex

ASSUME NoThreadAssumption == NoThread \notin Threads

VARIABLES
  source,    \* the source the store is written from
  payload,   \* the bytes of the store
  phase,     \* "build", "refused", "built", "ready" or "aborted"
  runtime,   \* assembly_store, assembly_store_hashes, assembly_store_names
  bundled,   \* assembly_store_bundled_assemblies, by mapping index
  cads,      \* compressed_assembly_descriptors, by descriptor index from 0
  buffer,    \* uncompressed_assemblies_data_buffer, by buffer offset
  mutex,     \* assembly_decompress_mutex: its owner
  pc, call

vars == <<source, payload, phase, runtime, bundled, cads, buffer, mutex, pc, call>>
storeVars == <<source, payload, runtime>>

\* Pointers are offsets into the payload; the header is at 0, so 0 is the null one.
Null == 0
NoCall == [name |-> <<>>, entry |-> 0, pending |-> {}, data |-> Nothing]

-----------------------------------------------------------------------------
(* The build, and the application that carries the store.                  *)

Compressed(assemblies) == SelectSeq(assemblies, LAMBDA a : a.image.kind = "compressed")

\* The descriptors the application was built with: sizes and places as of then.
BuiltDescriptors(assemblies) ==
  LET files == Compressed(assemblies)
      before(i) == FoldLeft(LAMBDA sum, a : sum + a.image.built, 0, SubSeq(files, 1, i))
  IN  [i \in 0..(Len(files) - 1) |->
        [uncompressed_file_size |-> files[i + 1].image.built, loaded |-> FALSE,
         buffer_offset |-> before(i)]]

BufferSize(assemblies) ==
  FoldLeft(LAMBDA sum, a : sum + a.image.built, 0, Compressed(assemblies))

\* CompressedAssemblyHeader.descriptor_index: its place among the compressed.
DescriptorIndexOf(assemblies, name) ==
  LET files == Compressed(assemblies)
  IN  (CHOOSE i \in 1..Len(files) : files[i].name = name) - 1

Init ==
  /\ source \in Sources
  /\ payload = <<>>
  /\ phase = "build"
  /\ runtime = [assembly_count |-> 0, index_entry_count |-> 0, assemblies |-> 0,
                hashes |-> 0, names |-> <<>>]
  /\ bundled = [m \in 0..(Len(source.assemblies) - 1) |->
                  [image_data |-> Null, descriptor |-> Null, debug_info_data |-> Null]]
  /\ cads = BuiltDescriptors(source.assemblies)
  /\ buffer = [k \in {cads[i].buffer_offset : i \in DOMAIN cads} |-> Nothing]
  /\ mutex = NoThread
  /\ pc = [t \in Threads |-> "idle"]
  /\ call = [t \in Threads |-> NoCall]

\* The stores a writer may write from the source, and whether the build goes on
\* with one: setup.ps1 tests its own, nothing tests the generator's.
StoresOf(s) ==
  CASE s.writer = "setup" -> {New_AssemblyStoreBytes(s.assemblies, s.crc)}
    [] s.writer = "generator" -> GeneratedStores(s.assemblies, s.crc)

Accepted(s, store) ==
  s.writer = "setup" => Test_AssemblyStoreBytes(store, s.assemblies, s.crc)

BuildStore ==
  /\ phase = "build"
  /\ payload' \in StoresOf(source)
  /\ phase' = IF Accepted(source, payload') THEN "built" ELSE "refused"
  /\ UNCHANGED <<source, runtime, bundled, cads, buffer, mutex, pc, call>>

\* The names section: length-prefixed records in descriptor order.
NamesTable(store, start, count) ==
  FoldLeft(LAMBDA state, i :
             LET record == ReadAt(store, state.cursor)
             IN  IF record.item # "name" THEN [state EXCEPT !.names = Append(@, <<>>)]
                 ELSE [cursor |-> state.cursor + 4 + record.length,
                       names |-> Append(state.names, record.name)],
           [cursor |-> start, names |-> <<>>],
           [i \in 1..count |-> i]).names

\* Where a store's tables are, as its header tells.
RuntimeOf(store) ==
  LET header == ReadAt(store, 0)
      assemblies == HeaderSize + header.index_size
  IN  [assembly_count |-> header.entry_count, index_entry_count |-> header.index_entry_count,
       assemblies |-> assemblies, hashes |-> HeaderSize,
       names |-> NamesTable(store, assemblies + header.entry_count * DescriptorSize,
                            header.entry_count)]

ConfigureFromPayload ==
  LET header == ReadAt(payload, 0)
  IN  /\ phase = "built"
      /\ IF header.item # "header" \/ header.magic # Magic \/ header.version # FormatVersion
         THEN phase' = "aborted" /\ UNCHANGED runtime
         ELSE /\ phase' = "ready"
              /\ runtime' = RuntimeOf(payload)
      /\ UNCHANGED <<source, payload, bundled, cads, buffer, mutex, pc, call>>

-----------------------------------------------------------------------------
(* open_assembly *)

\* In a store and its tables rt; the runtime's own are payload and runtime.
EntryAt(store, rt, i) == ReadAt(store, rt.hashes + i * IndexEntrySize)
PointerAt(rt, d) == rt.assemblies + d * DescriptorSize
DescriptorIn(store, rt, d) == ReadAt(store, PointerAt(rt, d))

\* Search::lower_bound: the first entry whose hash is not less than the key,
\* found by halving, which presumes the index sorted.
LowerBound(store, rt, hash) ==
  LET search[span \in (0..rt.index_entry_count) \X (0..rt.index_entry_count)] ==
        LET low == span[1]
            high == span[2]
            middle == low + ((high - low) \div 2)
        IN  IF low >= high THEN low
            ELSE IF EntryAt(store, rt, middle).name_hash < hash
                 THEN search[<<middle + 1, high>>] ELSE search[<<low, middle>>]
  IN  search[<<0, rt.index_entry_count>>]

\* Mutation: the first entry of the hash is taken, whatever its name.
FindAssemblyStoreEntry_FirstOfHash(store, rt, name, hash) ==
  LET first == LowerBound(store, rt, hash)
  IN  IF first = rt.index_entry_count \/ EntryAt(store, rt, first).name_hash # hash
      THEN Nothing ELSE EntryAt(store, rt, first)

\* The entry itself, or Nothing: the first of the name in the run of entries
\* that have this hash.
FindAssemblyStoreEntry(store, rt, name, hash) ==
  LET first == LowerBound(store, rt, hash)
      run == {i \in 0..(rt.index_entry_count - 1) :
                i >= first /\ \A j \in first..i : EntryAt(store, rt, j).name_hash = hash}
      found == {i \in run :
                 /\ EntryAt(store, rt, i).descriptor_index < rt.assembly_count
                 /\ NameMatches(name, rt.names[EntryAt(store, rt, i).descriptor_index + 1])}
  IN  IF found = {} THEN Nothing
      ELSE EntryAt(store, rt, CHOOSE i \in found : \A j \in found : i <= j)

DescriptorPointer(d) == PointerAt(runtime, d)
Descriptor(d) == DescriptorIn(payload, runtime, d)

Goto(t, label) == pc' = [pc EXCEPT ![t] = label]
Return(t, value) == Goto(t, "done") /\ call' = [call EXCEPT ![t].data = value]

\* crc32, find_assembly_store_entry and the two early returns (the bound check
\* after them is implied by the one of the search).
Open(t, name) ==
  LET entry == FindAssemblyStoreEntry(payload, runtime, name, source.crc[name])
  IN  /\ phase = "ready" /\ pc[t] = "idle"
      /\ IF entry = Nothing \/ entry.ignore
         THEN /\ Goto(t, "done")
              /\ call' = [call EXCEPT ![t] =
                   [name |-> name, entry |-> 0, pending |-> {},
                    data |-> [item |-> IF entry = Nothing THEN "missing" ELSE "ignored"]]]
         ELSE /\ Goto(t, "image?")
              /\ call' = [call EXCEPT ![t] =
                   [name |-> name, entry |-> entry.descriptor_index, pending |-> {}, data |-> Nothing]]
      /\ UNCHANGED <<storeVars, phase, bundled, cads, buffer, mutex>>

MappingOf(t) == Descriptor(call[t].entry).mapping_index

\* Line 260: is the image mapped?  If not, three plain stores (two without
\* debug data) are to be made.
CheckImage(t) ==
  /\ phase = "ready" /\ pc[t] = "image?"
  /\ IF bundled[MappingOf(t)].image_data # Null
     THEN Goto(t, "data") /\ UNCHANGED call
     ELSE /\ Goto(t, "map")
          /\ call' = [call EXCEPT ![t].pending =
               {"image_data", "descriptor"} \union
               (IF Descriptor(call[t].entry).debug_data_offset = 0 THEN {} ELSE {"debug_info_data"})]
  /\ UNCHANGED <<storeVars, phase, bundled, cads, buffer, mutex>>

\* What each pointer is set to (lines 263-267).
PointerValue(t, field) ==
  LET descriptor == Descriptor(call[t].entry)
  IN  CASE field = "image_data" -> descriptor.data_offset
        [] field = "descriptor" -> DescriptorPointer(call[t].entry)
        [] field = "debug_info_data" -> descriptor.debug_data_offset

StorePointer(t, field) ==
  /\ phase = "ready" /\ pc[t] = "map" /\ field \in call[t].pending
  /\ bundled' = [bundled EXCEPT ![MappingOf(t)][field] = PointerValue(t, field)]
  /\ call' = [call EXCEPT ![t].pending = @ \ {field}]
  /\ Goto(t, IF call[t].pending = {field} THEN "data" ELSE "map")
  /\ UNCHANGED <<storeVars, phase, cads, buffer, mutex>>

-----------------------------------------------------------------------------
(* get_assembly_data *)

Image(t) == ReadAt(payload, bundled[MappingOf(t)].image_data)
CadIndex(t) == DescriptorIndexOf(source.assemblies, Image(t).of)
Cad(t) == cads[CadIndex(t)]

Abort == phase' = "aborted" /\ UNCHANGED <<pc, call>>

\* An image that is not compressed is copied; data_size is read through the
\* descriptor pointer, and a null one is a fault.
CopyImage(t) ==
  /\ phase = "ready" /\ pc[t] = "data" /\ Image(t).image.kind = "plain"
  /\ IF bundled[MappingOf(t)].descriptor = Null
     THEN Goto(t, "fault") /\ UNCHANGED call
     ELSE Return(t, [item |-> "data", of |-> Image(t).of,
                     size |-> ReadAt(payload, bundled[MappingOf(t)].descriptor).data_size])
  /\ UNCHANGED <<storeVars, phase, bundled, cads, buffer, mutex>>

\* A compressed one: the checks of lines 61-99, then the first look at `loaded'.
CheckCompressed(t) ==
  LET left == BufferSize(source.assemblies) - Cad(t).buffer_offset
  IN  /\ phase = "ready" /\ pc[t] = "data" /\ Image(t).image.kind = "compressed"
      /\ IF bundled[MappingOf(t)].descriptor = Null
         THEN Goto(t, "fault") /\ UNCHANGED <<phase, call>>
         ELSE IF left <= 0 \/ Cad(t).uncompressed_file_size > left
         THEN Abort
         ELSE /\ Goto(t, IF Cad(t).loaded THEN "return" ELSE "lock")
              /\ UNCHANGED <<phase, call>>
      /\ UNCHANGED <<storeVars, bundled, cads, buffer, mutex>>

\* StartupAwareLock (external): waits for the mutex.
Lock(t) ==
  /\ phase = "ready" /\ pc[t] = "lock" /\ mutex = NoThread
  /\ mutex' = t
  /\ Goto(t, "locked")
  /\ UNCHANGED <<storeVars, phase, bundled, cads, buffer, call>>

\* Mutation: no second look.
CheckAgain_NoSecondLook(t) ==
  /\ phase = "ready" /\ pc[t] = "locked"
  /\ IF Image(t).image.length > Cad(t).uncompressed_file_size
     THEN Abort /\ UNCHANGED cads
     ELSE /\ cads' = [cads EXCEPT ![CadIndex(t)].uncompressed_file_size = Image(t).image.length]
          /\ Goto(t, "decompress") /\ UNCHANGED <<phase, call>>
  /\ UNCHANGED <<storeVars, bundled, buffer, mutex>>

\* The second look, and the length the image declares against the one of the
\* build: a longer image aborts, a shorter one corrects the descriptor.
CheckAgain(t) ==
  /\ phase = "ready" /\ pc[t] = "locked"
  /\ IF Cad(t).loaded
     THEN Goto(t, "unlock") /\ UNCHANGED <<phase, call, cads>>
     ELSE IF Image(t).image.length > Cad(t).uncompressed_file_size
     THEN Abort /\ UNCHANGED cads
     ELSE /\ cads' = [cads EXCEPT ![CadIndex(t)].uncompressed_file_size = Image(t).image.length]
          /\ Goto(t, "decompress") /\ UNCHANGED <<phase, call>>
  /\ UNCHANGED <<storeVars, bundled, buffer, mutex>>

\* ZSTD_decompress writes the buffer piece by piece: half written first ...
BeginDecompress(t) ==
  /\ phase = "ready" /\ pc[t] = "decompress"
  /\ buffer' = [buffer EXCEPT ![Cad(t).buffer_offset] = [item |-> "half", of |-> Image(t).of]]
  /\ Goto(t, "decompressing")
  /\ UNCHANGED <<storeVars, phase, bundled, cads, mutex, call>>

\* ... then whole.  The result is an error when the frame does not fit, else
\* the bytes of the frame; an error or another length than declared aborts.
ZSTD_decompress(capacity, image) ==
  IF image.frame > capacity THEN [error |-> TRUE, size |-> 0]
  ELSE [error |-> FALSE, size |-> image.frame]

EndDecompress(t) ==
  LET ret == ZSTD_decompress(Cad(t).uncompressed_file_size, Image(t).image)
  IN  /\ phase = "ready" /\ pc[t] = "decompressing"
      /\ IF ret.error \/ ret.size # Cad(t).uncompressed_file_size
         THEN Abort /\ UNCHANGED buffer
         ELSE /\ buffer' = [buffer EXCEPT ![Cad(t).buffer_offset] =
                              [item |-> "data", of |-> Image(t).of, size |-> ret.size]]
              /\ Goto(t, "publish") /\ UNCHANGED <<phase, call>>
      /\ UNCHANGED <<storeVars, bundled, cads, mutex>>

\* The release store of `loaded'.
Publish(t) ==
  /\ phase = "ready" /\ pc[t] = "publish"
  /\ cads' = [cads EXCEPT ![CadIndex(t)].loaded = TRUE]
  /\ Goto(t, "unlock")
  /\ UNCHANGED <<storeVars, phase, bundled, buffer, mutex, call>>

\* Mutation: the mutex is not given back.
Unlock_Keeps(t) ==
  /\ phase = "ready" /\ pc[t] = "unlock"
  /\ Goto(t, "return")
  /\ UNCHANGED <<storeVars, phase, bundled, cads, buffer, mutex, call>>

Unlock(t) ==
  /\ phase = "ready" /\ pc[t] = "unlock"
  /\ mutex' = NoThread
  /\ Goto(t, "return")
  /\ UNCHANGED <<storeVars, phase, bundled, cads, buffer, call>>

\* The buffer, as it stands, and the size the descriptor has now.
ReturnBuffer(t) ==
  /\ phase = "ready" /\ pc[t] = "return"
  /\ Return(t, [item |-> buffer[Cad(t).buffer_offset].item, of |-> buffer[Cad(t).buffer_offset].of,
                size |-> Cad(t).uncompressed_file_size])
  /\ UNCHANGED <<storeVars, phase, bundled, cads, buffer, mutex>>

\* The caller is done with the answer and may ask again.
Leave(t) ==
  /\ phase = "ready" /\ pc[t] = "done"
  /\ Goto(t, "idle")
  /\ call' = [call EXCEPT ![t] = NoCall]
  /\ UNCHANGED <<storeVars, phase, bundled, cads, buffer, mutex>>

-----------------------------------------------------------------------------

Step(t) ==
  \/ CheckImage(t)
  \/ \E field \in call[t].pending : StorePointer(t, field)
  \/ CopyImage(t) \/ CheckCompressed(t) \/ Lock(t) \/ CheckAgain(t)
  \/ BeginDecompress(t) \/ EndDecompress(t) \/ Publish(t) \/ Unlock(t)
  \/ ReturnBuffer(t)

Next ==
  \/ BuildStore
  \/ ConfigureFromPayload
  \/ \E t \in Threads : \/ \E name \in Requests : Open(t, name)
                        \/ Step(t)
                        \/ Leave(t)

\* Every runtime thread is scheduled, and the mutex is handed to each waiter.
Fairness == \A t \in Threads : WF_vars(Step(t)) /\ SF_vars(Lock(t))

Spec == Init /\ [][Next]_vars /\ Fairness

-----------------------------------------------------------------------------
(* The data the threads work on: what they rely on of a store, stated here  *)
(* of every source and evaluated for the sources of a run.                  *)

\* The assemblies a requested name stands for, by the rule the index is built
\* by: the name itself, or the name less its extension.
Meant(s, name) == {a \in ToSet(s.assemblies) : name \in ToSet(LookupNames(a.name))}

ImageOf(a) == [item |-> "image", of |-> a.name, image |-> a.image]

\* The descriptors a thread may get as far as mapping.
Used(store, rt) ==
  {EntryAt(store, rt, i).descriptor_index :
     i \in {j \in 0..(rt.index_entry_count - 1) : ~EntryAt(store, rt, j).ignore}}

\* Each descriptor in use has a mapping of its own, and the image of an
\* assembly, whole if it is not compressed, at its offset.
StoresAreLaidOut ==
  \A s \in Sources : \A store \in StoresOf(s) :
    LET rt == RuntimeOf(store)
        used == Used(store, rt)
    IN  Accepted(s, store) =>
          /\ \A d \in used :
               LET descriptor == DescriptorIn(store, rt, d)
               IN  /\ descriptor.mapping_index \in 0..(Len(s.assemblies) - 1)
                   /\ \E a \in ToSet(s.assemblies) :
                        /\ ReadAt(store, descriptor.data_offset) = ImageOf(a)
                        /\ a.image.kind = "plain" => descriptor.data_size = a.image.length
          /\ \A d, e \in used :
               DescriptorIn(store, rt, d).mapping_index = DescriptorIn(store, rt, e).mapping_index
                 => d = e

\* Each compressed assembly has its own descriptor in the application, and each
\* of those its own place in the buffer.
BuffersAreApart ==
  \A s \in Sources :
    LET files == {a \in ToSet(s.assemblies) : a.image.kind = "compressed"}
        index(a) == DescriptorIndexOf(s.assemblies, a.name)
        built == BuiltDescriptors(s.assemblies)
    IN  /\ \A a \in files : index(a) \in DOMAIN built
        /\ \A a, b \in files : index(a) = index(b) => a = b
        /\ \A i, j \in DOMAIN built : built[i].buffer_offset = built[j].buffer_offset => i = j

\* The index a search presumes: sorted by hash, made of entries of assemblies,
\* with one of the right hash for each name of an assembly.
StoresAreIndexed ==
  \A s \in Sources : \A store \in StoresOf(s) :
    LET rt == RuntimeOf(store)
        entries == 0..(rt.index_entry_count - 1)
        entry(i) == EntryAt(store, rt, i)
        named(i) == rt.names[entry(i).descriptor_index + 1]
    IN  Accepted(s, store) =>
          /\ rt.index_entry_count \in Nat /\ \A i \in entries : entry(i).name_hash \in Nat
          /\ \A i, j \in entries : i <= j => entry(i).name_hash <= entry(j).name_hash
          /\ \A i \in entries :
               /\ entry(i).item = "index" /\ entry(i).descriptor_index < rt.assembly_count
               /\ \E a \in ToSet(s.assemblies) :
                    /\ named(i) = a.name /\ (entry(i).ignore <=> a.ignored)
                    /\ ~a.ignored =>
                         ReadAt(store, DescriptorIn(store, rt, entry(i).descriptor_index).data_offset) = ImageOf(a)
          /\ \A a \in ToSet(s.assemblies) : \A name \in ToSet(LookupNames(a.name)) :
               \E i \in entries : entry(i).name_hash = s.crc[name] /\ named(i) = a.name

\* A name that is asked for has a hash, and does not stand for an assembly with
\* an image and for one without.
NamesAreClear ==
  \A s \in Sources : \A name \in Requests :
    /\ s.crc[name] \in Nat
    /\ \A a, b \in Meant(s, name) : a.ignored <=> b.ignored

-----------------------------------------------------------------------------
(* Properties *)

\* What a finished call returns is what its name asks for: nothing for a name
\* no assembly has, "ignored" for an entry without data, and otherwise the
\* complete image of an assembly of that name, at its true length - with names
\* whose hashes collide, and with other threads mapping and decompressing the
\* same image meanwhile (open_assembly, get_assembly_data).
OpensItsOwnImage ==
  \A t \in Threads : pc[t] = "done" =>
    LET answer == call[t].data
        meant == Meant(source, call[t].name)
    IN  /\ meant = {} => answer.item = "missing"
        /\ meant # {} /\ (\A a \in meant : a.ignored) => answer.item = "ignored"
        /\ (\E a \in meant : ~a.ignored) =>
             /\ answer.item = "data"
             /\ \E a \in meant : answer.of = a.name /\ answer.size = a.image.length

\* A descriptor says `loaded' only of a buffer that holds its whole image, and
\* a buffer is only half written while the thread that holds the mutex writes
\* it: an image is decompressed once, however many threads meet (lines 106-168).
LoadedIsWhole ==
  /\ \A i \in DOMAIN cads : cads[i].loaded =>
       /\ buffer[cads[i].buffer_offset].item = "data"
       /\ buffer[cads[i].buffer_offset].size = cads[i].uncompressed_file_size
  /\ \A t \in Threads : pc[t] \in {"locked", "decompress", "decompressing", "publish", "unlock"} =>
       mutex = t
  /\ \A t \in Threads : pc[t] \in {"decompress", "decompressing", "publish"} => ~Cad(t).loaded

\* A store setup.ps1 refuses has two assemblies that share a hash, and one it
\* accepts resolves every assembly by both of its names: the two readers, the
\* validator and the runtime, agree (setup.ps1 3268-3435, assembly-store.cc).
AcceptsWhatResolves ==
  /\ phase = "refused" =>
       \E a, b \in ToSet(source.assemblies) : a # b /\
         \E x \in ToSet(LookupNames(a.name)), y \in ToSet(LookupNames(b.name)) :
            source.crc[x] = source.crc[y]
  /\ (phase = "ready" /\ source.writer = "setup") =>
       \A a \in ToSet(source.assemblies) : \A name \in ToSet(LookupNames(a.name)) :
         LET entry == FindAssemblyStoreEntry(payload, runtime, name, source.crc[name])
         IN  entry # Nothing /\ runtime.names[entry.descriptor_index + 1] = a.name

\* open_assembly 261: "The assignments here don't need to be atomic, the value
\* will always be the same, so even if two threads arrive here at the same
\* time, nothing bad will happen."
NothingBadHappens == \A t \in Threads : pc[t] # "fault"

\* Every call comes back, unless the process aborts or the thread faults: no
\* thread waits for the decompression mutex for ever.
OpenReturns ==
  \A t \in Threads :
    (pc[t] = "image?") ~> (pc[t] \in {"done", "fault"} \/ phase = "aborted")
=============================================================================
