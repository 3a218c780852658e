------------------------- MODULE AssemblyStoreProofs -------------------------
(***************************************************************************)
(* What is proved of AssemblyStore, for any number of threads and requests *)
(* and every source whose store is laid out and indexed as it should be    *)
(* (StoresAreLaidOut, BuffersAreApart, StoresAreIndexed, NamesAreClear):   *)
(* the search by halving finds what a name stands for, an image is         *)
(* decompressed once and published whole, and a call returns the complete  *)
(* image of the assembly its name stands for.                              *)
(***************************************************************************)
EXTENDS AssemblyStore, WellFoundedInduction, TLAPS

-----------------------------------------------------------------------------
(* The inductive invariant.  A thread's place says what it may rely on: from *)
(* `Mapped' on, that the mapping it reads is its own image's; from the lock  *)
(* to the unlock, that no other thread touches the descriptor or its buffer. *)

Labels == {"idle", "image?", "map", "data", "lock", "locked", "decompress", "decompressing",
           "publish", "unlock", "return", "done", "fault"}
Fields == {"image_data", "descriptor", "debug_info_data"}
Filling == {"decompress", "decompressing", "publish"}
Holding == {"locked", "unlock"} \union Filling
Inflating == {"lock", "return"} \union Holding
Mapped == {"data", "fault"} \union Inflating
Opening == {"image?", "map"} \union Mapped

Shapes ==
  /\ pc \in [Threads -> Labels]
  /\ DOMAIN call = Threads
  /\ \A t \in Threads : DOMAIN call[t] = {"name", "entry", "pending", "data"} /\ call[t].pending \subseteq Fields
  /\ DOMAIN bundled = 0..(Len(source.assemblies) - 1)
  /\ \A m \in DOMAIN bundled : DOMAIN bundled[m] = Fields
  /\ DOMAIN cads = DOMAIN BuiltDescriptors(source.assemblies)
  /\ \A i \in DOMAIN cads :
       /\ DOMAIN cads[i] = {"uncompressed_file_size", "loaded", "buffer_offset"}
       /\ cads[i].buffer_offset = BuiltDescriptors(source.assemblies)[i].buffer_offset
       /\ cads[i].loaded \in BOOLEAN
  /\ DOMAIN buffer = {cads[i].buffer_offset : i \in DOMAIN cads}

\* A thread runs on an accepted store of the source and on its tables.
Configured ==
  /\ source \in Sources
  /\ phase \in {"build", "refused", "built", "ready", "aborted"}
  /\ phase \in {"build", "refused", "built"} =>
       /\ \A t \in Threads : pc[t] = "idle"
       /\ \A m \in DOMAIN bundled : bundled[m].image_data = Null /\ bundled[m].descriptor = Null
  /\ phase = "built" => payload \in StoresOf(source) /\ Accepted(source, payload)
  /\ phase = "ready" \/ (\E t \in Threads : pc[t] # "idle") =>
       /\ payload \in StoresOf(source) /\ Accepted(source, payload)
       /\ runtime = RuntimeOf(payload)

\* The pointers of a mapping are those of a descriptor in use that has it.
PointersAreIts(m) ==
  /\ bundled[m].image_data # Null =>
       \E d \in Used(payload, runtime) :
         Descriptor(d).mapping_index = m /\ bundled[m].image_data = Descriptor(d).data_offset
  /\ bundled[m].descriptor # Null =>
       \E d \in Used(payload, runtime) :
         Descriptor(d).mapping_index = m /\ bundled[m].descriptor = DescriptorPointer(d)

\* What a thread looks for, and that it has mapped it once it reads it.
Looking(t) ==
  pc[t] \in Opening =>
    /\ call[t].name \in Requests
    /\ LET entry == FindAssemblyStoreEntry(payload, runtime, call[t].name, source.crc[call[t].name])
       IN  entry # Nothing /\ ~entry.ignore /\ call[t].entry = entry.descriptor_index
    /\ call[t].entry \in Used(payload, runtime)
    /\ pc[t] \in Mapped \/ (pc[t] = "map" /\ "image_data" \notin call[t].pending) =>
         bundled[MappingOf(t)].image_data = Descriptor(call[t].entry).data_offset
    /\ pc[t] \in Inflating => Image(t).image.kind = "compressed"

\* A published buffer holds the image of its descriptor.
FilesOf(i) ==
  {a \in ToSet(source.assemblies) :
     a.image.kind = "compressed" /\ DescriptorIndexOf(source.assemblies, a.name) = i}
Whole(i) ==
  /\ buffer[cads[i].buffer_offset].item = "data"
  /\ buffer[cads[i].buffer_offset].size = cads[i].uncompressed_file_size
  /\ \A a \in FilesOf(i) : /\ buffer[cads[i].buffer_offset].of = a.name
                           /\ cads[i].uncompressed_file_size = a.image.length

\* The mutex is its holder's, who fills a buffer nobody has published, and who
\* gives it back when the buffer is.
HoldsMutex(t) ==
  /\ pc[t] \in Holding => mutex = t
  /\ pc[t] \in Filling => ~Cad(t).loaded /\ Cad(t).uncompressed_file_size = Image(t).image.length
  /\ pc[t] = "publish" => Whole(CadIndex(t))
  /\ pc[t] \in {"unlock", "return"} => Cad(t).loaded

StoreInv ==
  /\ Shapes /\ Configured
  /\ \A m \in DOMAIN bundled : PointersAreIts(m)
  /\ \A t \in Threads : Looking(t) /\ HoldsMutex(t)
  /\ OpensItsOwnImage
  /\ \A i \in DOMAIN cads : cads[i].loaded => Whole(i)

StoreHypotheses == StoresAreLaidOut /\ BuffersAreApart /\ StoresAreIndexed /\ NamesAreClear

-----------------------------------------------------------------------------
(* The search                                                               *)

LEMMA FirstOfNaturals ==
  ASSUME NEW T, T \subseteq Nat, T # {}
  PROVE \E i \in T : \A j \in T : i <= j
<1>1. PICK i \in T : \A j \in T : ~(<<j, i>> \in OpToRel(<, Nat))
  BY NatLessThanWellFounded, WFMin
<1>2. ASSUME NEW j \in T PROVE i <= j
  <2>1. i \in Nat /\ j \in Nat
    OBVIOUS
  <2>2. j < i => <<j, i>> \in OpToRel(<, Nat)
    BY <2>1 DEF OpToRel
  <2>3. ~(j < i)
    BY <1>1, <2>2, Zenon
  <2> QED BY <2>1, <2>3
<1> QED BY <1>2

\* Halving a sorted index ends at the first entry whose hash is not less than
\* the key, or behind the last.
LEMMA HalvingFindsFirst ==
  ASSUME NEW store, NEW rt, NEW key \in Nat, rt.index_entry_count \in Nat,
         \A i \in 0..(rt.index_entry_count - 1) : EntryAt(store, rt, i).name_hash \in Nat,
         \A i, j \in 0..(rt.index_entry_count - 1) :
           i <= j => EntryAt(store, rt, i).name_hash <= EntryAt(store, rt, j).name_hash
  PROVE /\ LowerBound(store, rt, key) \in 0..rt.index_entry_count
        /\ \A i \in 0..(rt.index_entry_count - 1) :
             EntryAt(store, rt, i).name_hash < key <=> i < LowerBound(store, rt, key)
<1> DEFINE n == rt.index_entry_count
           h(i) == EntryAt(store, rt, i).name_hash
           middle(low, high) == low + ((high - low) \div 2)
           Halves(f) == f = [s \in (0..n) \X (0..n) |->
             IF s[1] >= s[2] THEN s[1]
             ELSE IF h(middle(s[1], s[2])) < key THEN f[<<middle(s[1], s[2]) + 1, s[2]>>]
             ELSE f[<<s[1], middle(s[1], s[2])>>]]
<1>1. LowerBound(store, rt, key) = (CHOOSE f : Halves(f))[<<0, n>>]
  BY DEF LowerBound
<1> HIDE DEF h
<1>2. PICK c \in 0..n : \A i \in 0..(n - 1) : h(i) < key <=> i < c
  <2> DEFINE S == {i \in 0..n : i = n \/ h(i) >= key}
  <2>1. n \in S /\ S \subseteq Nat
    OBVIOUS
  <2>2. PICK c \in S : \A i \in S : c <= i
    <3> HIDE DEF S
    <3> QED BY <2>1, FirstOfNaturals
  <2>3. ASSUME NEW i \in 0..(n - 1) PROVE h(i) < key <=> i < c
    <3>1. h(i) \in Nat /\ i \in 0..n /\ c \in 0..n /\ i # n
      BY DEF h
    <3>2. CASE i < c
      <4>1. i \notin S
        BY <2>2, <3>1, <3>2
      <4> QED BY <3>1, <3>2, <4>1
    <3>3. CASE c <= i
      <4>1. c \in 0..(n - 1) /\ h(c) >= key
        BY <2>2, <3>1, <3>3
      <4>2. h(c) \in Nat /\ h(c) <= h(i)
        BY <3>3, <4>1 DEF h
      <4> QED BY <3>1, <3>3, <4>1, <4>2
    <3> QED BY <3>1, <3>2, <3>3
  <2> QED BY <2>3
<1> DEFINE Within(low, high) == IF low >= high \/ c <= low THEN low ELSE IF c >= high THEN high ELSE c
           places == [s \in (0..n) \X (0..n) |-> Within(s[1], s[2])]
<1>3. ASSUME NEW low \in 0..n, NEW high \in 0..n, low < high
      PROVE /\ middle(low, high) \in 0..(n - 1) /\ low <= middle(low, high) /\ middle(low, high) < high
            /\ h(middle(low, high)) < key => Within(low, high) = Within(middle(low, high) + 1, high)
            /\ ~(h(middle(low, high)) < key) => Within(low, high) = Within(low, middle(low, high))
  <2>1. middle(low, high) \in 0..(n - 1) /\ low <= middle(low, high) /\ middle(low, high) < high
    BY <1>3
  <2> HIDE DEF middle
  <2>2. h(middle(low, high)) < key <=> middle(low, high) < c
    BY <1>2, <2>1
  <2> QED BY <1>3, <2>1, <2>2
<1>4. Halves(places)
  <2>1. ASSUME NEW low \in 0..n, NEW high \in 0..n
        PROVE Within(low, high) =
                IF low >= high THEN low
                ELSE IF h(middle(low, high)) < key THEN places[<<middle(low, high) + 1, high>>]
                ELSE places[<<low, middle(low, high)>>]
    <3>1. CASE low >= high
      BY <3>1
    <3>2. CASE low < high
      <4>1. middle(low, high) \in 0..n /\ middle(low, high) + 1 \in 0..n
        BY <1>3, <3>2
      <4> HIDE DEF Within, middle
      <4>2. places[<<middle(low, high) + 1, high>>] = Within(middle(low, high) + 1, high)
        BY <4>1
      <4>3. places[<<low, middle(low, high)>>] = Within(low, middle(low, high))
        BY <4>1
      <4> HIDE DEF places
      <4> QED BY <1>3, <3>2, <4>2, <4>3
    <3> QED BY <3>1, <3>2
  <2> HIDE DEF Within, middle
  <2> QED BY <2>1
<1>5. ASSUME NEW f, Halves(f) PROVE f[<<0, n>>] = c
  <2> DEFINE Wrong == {w \in 0..n : \E low \in 0..n : low + w \in 0..n /\ f[<<low, low + w>>] # Within(low, low + w)}
  <2>0. \A low, high \in 0..n :
          f[<<low, high>>] = IF low >= high THEN low
                         ELSE IF h(middle(low, high)) < key THEN f[<<middle(low, high) + 1, high>>]
                         ELSE f[<<low, middle(low, high)>>]
    BY <1>5
  <2>1. Wrong = {}
    <3> SUFFICES ASSUME Wrong # {} PROVE FALSE
      OBVIOUS
    <3>1. PICK w \in Wrong : \A v \in Wrong : w <= v
      <4>1. Wrong \subseteq Nat
        OBVIOUS
      <4> HIDE DEF Wrong
      <4> QED BY <4>1, FirstOfNaturals
    <3>2. PICK low \in 0..n : low + w \in 0..n /\ f[<<low, low + w>>] # Within(low, low + w)
      OBVIOUS
    <3> DEFINE high == low + w
               m == middle(low, high)
    <3>3. w # 0 /\ low < high /\ high \in 0..n
      <4>1. CASE w = 0
        <5>1. low + w = low /\ Within(low, low) = low
          BY <4>1
        <5>2. low >= low => f[<<low, low>>] = low
          <6> HIDE DEF middle, Within
          <6> QED BY <2>0
        <5> HIDE DEF Within
        <5> QED BY <3>2, <5>1, <5>2
      <4>2. CASE w # 0
        BY <3>2, <4>2
      <4> QED BY <4>1, <4>2
    <3>4. m \in 0..(n - 1) /\ low <= m /\ m < high
      BY <1>3, <3>3
    <3> HIDE DEF m
    <3>5. ASSUME NEW l \in 0..n, NEW u \in 0..n, l <= u, u - l < w PROVE f[<<l, u>>] = Within(l, u)
      <4>1. u - l \in 0..n /\ l + (u - l) = u /\ ~(w <= u - l)
        BY <3>5
      <4>2. u - l \notin Wrong
        <5> HIDE DEF Wrong
        <5> QED BY <3>1, <4>1
      <4> HIDE DEF Within
      <4> QED BY <4>1, <4>2
    <3>6. f[<<m + 1, high>>] = Within(m + 1, high) /\ f[<<low, m>>] = Within(low, m)
      <4>1. m + 1 \in 0..n /\ m \in 0..n /\ m + 1 <= high /\ high - (m + 1) < w /\ m - low < w
        BY <3>3, <3>4
      <4> HIDE DEF high, Within
      <4> QED BY <3>3, <3>4, <3>5, <4>1
    <3>7. f[<<low, high>>] = IF h(m) < key THEN f[<<m + 1, high>>] ELSE f[<<low, m>>]
      <4> HIDE DEF high, middle
      <4> QED BY <2>0, <3>3 DEF m
    <3>8. Within(low, high) = IF h(m) < key THEN Within(m + 1, high) ELSE Within(low, m)
      <4> HIDE DEF high, middle, Within
      <4> QED BY <1>3, <3>3 DEF m
    <3> HIDE DEF Within
    <3> QED BY <3>2, <3>6, <3>7, <3>8
  <2>2. f[<<0, 0 + n>>] = Within(0, 0 + n)
    <3>1. n \in 0..n /\ 0 \in 0..n /\ 0 + n \in 0..n /\ n \notin Wrong
      BY <2>1
    <3> HIDE DEF Within
    <3> QED BY <3>1
  <2>3. 0 + n = n /\ Within(0, n) = c
    OBVIOUS
  <2> HIDE DEF Within
  <2> QED BY <2>2, <2>3
<1>6. LowerBound(store, rt, key) = c
  <2> HIDE DEF Halves, places
  <2> QED BY <1>1, <1>4, <1>5
<1> QED BY <1>2, <1>6 DEF h
\* What a search returns is an entry of the index.
LEMMA FoundIsEntry ==
  ASSUME NEW store, NEW rt, NEW name, NEW hash,
         FindAssemblyStoreEntry(store, rt, name, hash) # Nothing
  PROVE \E i \in 0..(rt.index_entry_count - 1) :
          FindAssemblyStoreEntry(store, rt, name, hash) = EntryAt(store, rt, i)
<1> DEFINE first == LowerBound(store, rt, hash)
           run == {i \in 0..(rt.index_entry_count - 1) :
                     i >= first /\ \A j \in first..i : EntryAt(store, rt, j).name_hash = hash}
           found == {i \in run :
                      /\ EntryAt(store, rt, i).descriptor_index < rt.assembly_count
                      /\ NameMatches(name, rt.names[EntryAt(store, rt, i).descriptor_index + 1])}
           choice == CHOOSE i \in found : \A j \in found : i <= j
<1>1. FindAssemblyStoreEntry(store, rt, name, hash) =
        IF found = {} THEN Nothing ELSE EntryAt(store, rt, choice)
  BY DEF FindAssemblyStoreEntry
<1>2. found \subseteq 0..(rt.index_entry_count - 1)
  OBVIOUS
<1> HIDE DEF found
<1>3. found # {}
  BY <1>1
<1>4. found \subseteq Nat
  BY <1>2
<1>5. \E i \in found : \A j \in found : i <= j
  BY <1>3, <1>4, FirstOfNaturals
<1>6. choice \in found
  BY <1>5
<1> QED BY <1>1, <1>2, <1>3, <1>6

LEMMA FoundIsUsed ==
  ASSUME NEW store, NEW rt, NEW name, NEW hash,
         FindAssemblyStoreEntry(store, rt, name, hash) # Nothing,
         ~FindAssemblyStoreEntry(store, rt, name, hash).ignore
  PROVE FindAssemblyStoreEntry(store, rt, name, hash).descriptor_index \in Used(store, rt)
<1>1. PICK i \in 0..(rt.index_entry_count - 1) :
          FindAssemblyStoreEntry(store, rt, name, hash) = EntryAt(store, rt, i)
  BY FoundIsEntry
<1> QED BY <1>1 DEF Used

\* With such an index a search finds an entry of an assembly that the name
\* stands for, or none if there is no such assembly, with names whose hashes
\* collide too (find_assembly_store_entry).
THEOREM SearchFinds ==
  ASSUME StoreHypotheses, NEW s \in Sources, NEW store \in StoresOf(s), Accepted(s, store), NEW name \in Requests
  PROVE LET rt == RuntimeOf(store)
            entry == FindAssemblyStoreEntry(store, rt, name, s.crc[name])
            meant == Meant(s, name)
        IN  /\ meant = {} => entry = Nothing
            /\ meant # {} /\ (\A a \in meant : a.ignored) => entry # Nothing /\ entry.ignore
            /\ (\E a \in meant : ~a.ignored) =>
                 /\ entry # Nothing /\ ~entry.ignore
                 /\ \E a \in meant :
                      ReadAt(store, DescriptorIn(store, rt, entry.descriptor_index).data_offset) = ImageOf(a)
<1> DEFINE rt == RuntimeOf(store)
           entries == 0..(rt.index_entry_count - 1)
           entry(i) == EntryAt(store, rt, i)
           named(i) == rt.names[entry(i).descriptor_index + 1]
           key == s.crc[name]
           meant == Meant(s, name)
           first == LowerBound(store, rt, key)
           run == {i \in entries : i >= first /\ \A j \in first..i : entry(j).name_hash = key}
           found == {i \in run : entry(i).descriptor_index < rt.assembly_count /\ NameMatches(name, named(i))}
           choice == CHOOSE i \in found : \A j \in found : i <= j
           Is(i, a) == /\ named(i) = a.name /\ (entry(i).ignore <=> a.ignored)
                       /\ ~a.ignored =>
                            ReadAt(store, DescriptorIn(store, rt, entry(i).descriptor_index).data_offset) = ImageOf(a)
<1>1. /\ rt.index_entry_count \in Nat /\ \A i \in entries : entry(i).name_hash \in Nat
      /\ \A i, j \in entries : i <= j => entry(i).name_hash <= entry(j).name_hash
      /\ \A i \in entries : entry(i).item = "index" /\ entry(i).descriptor_index < rt.assembly_count
      /\ \A i \in entries : \E a \in ToSet(s.assemblies) : Is(i, a)
      /\ \A a \in ToSet(s.assemblies) : \A lookup \in ToSet(LookupNames(a.name)) :
           \E i \in entries : entry(i).name_hash = s.crc[lookup] /\ named(i) = a.name
  <2>1. StoresAreIndexed
    BY DEF StoreHypotheses
  <2> QED BY <2>1 DEF StoresAreIndexed
<1>2. key \in Nat /\ \A a, b \in meant : a.ignored <=> b.ignored
  BY DEF StoreHypotheses, NamesAreClear
<1>3. FindAssemblyStoreEntry(store, rt, name, key) = IF found = {} THEN Nothing ELSE entry(choice)
  BY DEF FindAssemblyStoreEntry
<1> HIDE DEF rt, key
<1>4. first \in 0..rt.index_entry_count /\ \A i \in entries : entry(i).name_hash < key <=> i < first
  BY <1>1, <1>2, HalvingFindsFirst
<1>5. \A a : NameMatches(name, a.name) <=> name \in ToSet(LookupNames(a.name))
  <2> SUFFICES ASSUME NEW a PROVE NameMatches(name, a.name) <=> name \in ToSet(LookupNames(a.name))
    OBVIOUS
  <2>1. ToSet(LookupNames(a.name)) = {a.name, WithoutExtension(a.name)}
    BY DEF ToSet, LookupNames
  <2> QED BY <2>1 DEF NameMatches, WithoutExtension
<1>6. ASSUME NEW i \in found
      PROVE \E a \in meant : Is(i, a)
  <2>1. PICK a \in ToSet(s.assemblies) : Is(i, a)
    BY <1>1
  <2>2. a \in meant
    BY <1>5, <2>1 DEF Meant
  <2> QED BY <2>1, <2>2
<1>7. ASSUME NEW a \in meant
      PROVE found # {}
  <2>1. a \in ToSet(s.assemblies) /\ name \in ToSet(LookupNames(a.name))
    BY DEF Meant
  <2>2. PICK i \in entries : entry(i).name_hash = key /\ named(i) = a.name
    BY <1>1, <2>1 DEF key
  <2>3. i >= first
    BY <1>1, <1>2, <1>4, <2>2
  <2>4. ASSUME NEW j \in first..i PROVE entry(j).name_hash = key
    <3>1. j \in entries /\ j <= i /\ ~(j < first)
      BY <1>1, <1>4, <2>2
    <3>2. entry(j).name_hash \in Nat /\ entry(j).name_hash <= key /\ ~(entry(j).name_hash < key)
      BY <1>1, <1>4, <2>2, <3>1
    <3> QED BY <1>2, <3>2
  <2>5. NameMatches(name, named(i))
    BY <1>5, <2>1, <2>2
  <2> QED BY <1>1, <2>2, <2>3, <2>4, <2>5
<1>8. found # {} => choice \in found
  <2>1. found \subseteq Nat
    BY <1>1
  <2> HIDE DEF found
  <2> QED BY <2>1, FirstOfNaturals
<1>9. found # {} => entry(choice) # Nothing
  <2>1. found # {} => entry(choice).item = "index"
    BY <1>1, <1>8
  <2>2. Nothing.item = "nothing"
    BY DEF Nothing
  <2> QED BY <2>1, <2>2
<1> HIDE DEF found, choice, meant
<1>10. CASE found = {}
  <2>1. meant = {} /\ FindAssemblyStoreEntry(store, rt, name, key) = Nothing
    BY <1>3, <1>7, <1>10
  <2> QED BY <2>1 DEF rt, key, meant
<1>11. CASE found # {}
  <2> DEFINE answer == FindAssemblyStoreEntry(store, rt, name, key)
  <2>1. answer = entry(choice) /\ answer # Nothing
    BY <1>3, <1>9, <1>11
  <2>2. PICK a \in meant : Is(choice, a)
    BY <1>6, <1>8, <1>11
  <2>3. /\ answer.ignore <=> a.ignored
        /\ ~a.ignored => ReadAt(store, DescriptorIn(store, rt, answer.descriptor_index).data_offset) = ImageOf(a)
    BY <2>1, <2>2, Zenon
  <2> HIDE DEF answer, entry
  <2>4. /\ meant # {}
        /\ (\A b \in meant : b.ignored) => answer.ignore
        /\ (\E b \in meant : ~b.ignored) =>
             /\ ~answer.ignore
             /\ \E b \in meant :
                  ReadAt(store, DescriptorIn(store, rt, answer.descriptor_index).data_offset) = ImageOf(b)
    BY <1>2, <2>3, Zenon
  <2> QED BY <2>1, <2>4, Zenon DEF answer, rt, key, meant
<1> QED BY <1>10, <1>11, Zenon DEF rt, key, meant

-----------------------------------------------------------------------------
(* What a thread can rely on                                                *)

\* The image a name leads to, at the place its descriptor gives.
Target(t) == ReadAt(payload, Descriptor(call[t].entry).data_offset)

LEMMA Running ==
  ASSUME StoreHypotheses, Configured, NEW t \in Threads, pc[t] # "idle"
  PROVE /\ source \in Sources /\ payload \in StoresOf(source) /\ Accepted(source, payload)
        /\ runtime = RuntimeOf(payload)
  BY DEF Configured

LEMMA Ready ==
  ASSUME StoreHypotheses, Configured, phase = "ready"
  PROVE /\ source \in Sources /\ payload \in StoresOf(source) /\ Accepted(source, payload)
        /\ runtime = RuntimeOf(payload)
  BY DEF Configured

\* A descriptor in use: its mapping is one of those there are, no other's, and
\* its data an assembly's image.
LEMMA UsedDescriptor ==
  ASSUME StoreHypotheses, source \in Sources, payload \in StoresOf(source), Accepted(source, payload),
         runtime = RuntimeOf(payload), NEW d \in Used(payload, runtime)
  PROVE /\ Descriptor(d).mapping_index \in 0..(Len(source.assemblies) - 1)
        /\ \E a \in ToSet(source.assemblies) :
             /\ ReadAt(payload, Descriptor(d).data_offset) = ImageOf(a)
             /\ a.image.kind = "plain" => Descriptor(d).data_size = a.image.length
        /\ \A e \in Used(payload, runtime) :
             Descriptor(d).mapping_index = Descriptor(e).mapping_index => d = e
<1>1. StoresAreLaidOut
  BY DEF StoreHypotheses
<1> QED BY <1>1, Zenon DEF StoresAreLaidOut, Descriptor

LEMMA OpeningThread ==
  ASSUME StoreHypotheses, Shapes, Configured, NEW t \in Threads, Looking(t), pc[t] \in Opening
  PROVE /\ call[t].entry \in Used(payload, runtime)
        /\ MappingOf(t) \in DOMAIN bundled
        /\ \E a \in ToSet(source.assemblies) :
             /\ Target(t) = ImageOf(a)
             /\ a.image.kind = "plain" => Descriptor(call[t].entry).data_size = a.image.length
        /\ \A d \in Used(payload, runtime) :
             Descriptor(d).mapping_index = MappingOf(t) => d = call[t].entry
<1>1. pc[t] # "idle"
  BY DEF Opening, Mapped, Inflating, Holding, Filling
<1>2. call[t].entry \in Used(payload, runtime)
  BY DEF Looking
<1>3. DOMAIN bundled = 0..(Len(source.assemblies) - 1)
  BY DEF Shapes
<1> QED BY <1>1, <1>2, <1>3, Running, UsedDescriptor DEF Target, MappingOf

\* Once it is mapped, the image a thread reads is the one its name leads to.
LEMMA MappedThread ==
  ASSUME NEW t \in Threads, Looking(t), pc[t] \in Mapped
  PROVE Image(t) = Target(t)
<1>1. pc[t] \in Opening
  BY DEF Opening
<1>2. bundled[MappingOf(t)].image_data = Descriptor(call[t].entry).data_offset
  BY <1>1 DEF Looking
<1> QED BY <1>2 DEF Image, Target

\* The descriptor of a compressed image is its own.
LEMMA InflatingThread ==
  ASSUME StoreHypotheses, Shapes, Configured, NEW t \in Threads, Looking(t), pc[t] \in Mapped,
         Image(t).image.kind = "compressed"
  PROVE /\ CadIndex(t) \in DOMAIN cads
        /\ \E a \in ToSet(source.assemblies) :
             Image(t) = ImageOf(a) /\ Target(t) = ImageOf(a) /\ FilesOf(CadIndex(t)) = {a}
<1>1. pc[t] \in Opening /\ pc[t] # "idle"
  BY DEF Opening, Mapped, Inflating, Holding, Filling
<1>2. PICK a \in ToSet(source.assemblies) : Target(t) = ImageOf(a)
  BY <1>1, OpeningThread
<1>3. Image(t) = ImageOf(a)
  BY <1>2, MappedThread
<1>4. Image(t).of = a.name /\ Image(t).image = a.image
  BY <1>3 DEF ImageOf
<1>5. source \in Sources
  BY DEF Configured
<1>6. BuffersAreApart
  BY DEF StoreHypotheses
<1>7. /\ DescriptorIndexOf(source.assemblies, a.name) \in DOMAIN BuiltDescriptors(source.assemblies)
      /\ \A b \in ToSet(source.assemblies) :
           b.image.kind = "compressed"
             /\ DescriptorIndexOf(source.assemblies, b.name) = DescriptorIndexOf(source.assemblies, a.name)
           => b = a
  <2>1. a.image.kind = "compressed"
    BY <1>4
  <2> QED BY <1>2, <1>5, <1>6, <2>1, Zenon DEF BuffersAreApart
<1>8. CadIndex(t) = DescriptorIndexOf(source.assemblies, a.name)
  BY <1>4 DEF CadIndex
<1>9. CadIndex(t) \in DOMAIN cads
  BY <1>7, <1>8 DEF Shapes
<1>10. FilesOf(CadIndex(t)) = {a}
  BY <1>2, <1>4, <1>7, <1>8 DEF FilesOf
<1> QED BY <1>2, <1>3, <1>9, <1>10

\* Descriptors have places of their own in the buffer.
LEMMA PlacesAreApart ==
  ASSUME StoreHypotheses, Shapes, Configured, NEW i \in DOMAIN cads
  PROVE /\ cads[i].buffer_offset \in DOMAIN buffer
        /\ \A j \in DOMAIN cads : cads[j].buffer_offset = cads[i].buffer_offset => j = i
<1>1. source \in Sources
  BY DEF Configured
<1>2. BuffersAreApart
  BY DEF StoreHypotheses
<1>3. \A j, k \in DOMAIN BuiltDescriptors(source.assemblies) :
        BuiltDescriptors(source.assemblies)[j].buffer_offset
          = BuiltDescriptors(source.assemblies)[k].buffer_offset => j = k
  BY <1>1, <1>2, Zenon DEF BuffersAreApart
<1> QED BY <1>3 DEF Shapes

\* What a thread opens is an image its name stands for.
LEMMA RightImage ==
  ASSUME StoreHypotheses, Configured, NEW t \in Threads, Looking(t), pc[t] \in Opening
  PROVE /\ \E a \in Meant(source, call[t].name) : ~a.ignored
        /\ \E a \in Meant(source, call[t].name) : Target(t) = ImageOf(a)
<1> DEFINE entry == FindAssemblyStoreEntry(payload, runtime, call[t].name, source.crc[call[t].name])
           meant == Meant(source, call[t].name)
<1>1. call[t].name \in Requests /\ entry # Nothing /\ ~entry.ignore /\ call[t].entry = entry.descriptor_index
  BY DEF Looking
<1>2. source \in Sources /\ payload \in StoresOf(source) /\ Accepted(source, payload) /\ runtime = RuntimeOf(payload)
  BY Running DEF Opening, Mapped, Inflating, Holding, Filling
<1>4. /\ meant = {} => entry = Nothing
      /\ meant # {} /\ (\A a \in meant : a.ignored) => entry # Nothing /\ entry.ignore
      /\ (\E a \in meant : ~a.ignored) =>
           \E a \in meant : ReadAt(payload, DescriptorIn(payload, runtime, entry.descriptor_index).data_offset) = ImageOf(a)
  BY <1>1, <1>2, SearchFinds, Zenon
<1>5. \E a \in meant : ~a.ignored
  BY <1>1, <1>4
<1> QED BY <1>1, <1>4, <1>5 DEF Target, Descriptor

-----------------------------------------------------------------------------
(* The initial states                                                       *)

LEMMA StoreInit == StoreHypotheses /\ Init => StoreInv
<1> SUFFICES ASSUME StoreHypotheses, Init PROVE StoreInv
  OBVIOUS
<1> DEFINE built == BuiltDescriptors(source.assemblies)
<1>1. \A t \in Threads : pc[t] = "idle" /\ call[t] = NoCall
  BY DEF Init
<1>2. \A m \in DOMAIN bundled : bundled[m] = [image_data |-> Null, descriptor |-> Null, debug_info_data |-> Null]
  BY DEF Init
<1>3. cads = built
  BY DEF Init
<1>4. \A i \in DOMAIN built : /\ DOMAIN built[i] = {"uncompressed_file_size", "loaded", "buffer_offset"}
                              /\ built[i].loaded = FALSE
  BY DEF BuiltDescriptors
<1>5. Shapes
  <2>1. pc \in [Threads -> Labels]
    BY DEF Init, Labels
  <2>2. DOMAIN call = Threads
    BY DEF Init
  <2>3. ASSUME NEW t \in Threads
        PROVE DOMAIN call[t] = {"name", "entry", "pending", "data"} /\ call[t].pending \subseteq Fields
    BY <1>1, <2>3 DEF NoCall
  <2>4. DOMAIN bundled = 0..(Len(source.assemblies) - 1)
    BY DEF Init
  <2>5. ASSUME NEW m \in DOMAIN bundled PROVE DOMAIN bundled[m] = Fields
    BY <1>2, <2>5 DEF Fields
  <2>6. DOMAIN buffer = {cads[i].buffer_offset : i \in DOMAIN cads}
    BY DEF Init
  <2> QED BY <1>3, <1>4, <2>1, <2>2, <2>3, <2>4, <2>5, <2>6 DEF Shapes
<1>6. Configured
  BY <1>1, <1>2 DEF Configured, Init
<1>7. \A m \in DOMAIN bundled : PointersAreIts(m)
  BY <1>2 DEF PointersAreIts
<1>8. \A t \in Threads : Looking(t) /\ HoldsMutex(t)
  BY <1>1 DEF Looking, HoldsMutex, Opening, Mapped, Inflating, Holding, Filling
<1>9. OpensItsOwnImage
  BY <1>1 DEF OpensItsOwnImage
<1>10. \A i \in DOMAIN cads : cads[i].loaded => Whole(i)
  BY <1>3, <1>4
<1> QED BY <1>5, <1>6, <1>7, <1>8, <1>9, <1>10 DEF StoreInv

-----------------------------------------------------------------------------
(* The steps.  A thread's step leaves the store and the other threads alone. *)

Action(t) == (\E name \in Requests : Open(t, name)) \/ Step(t) \/ Leave(t)

LEMMA NextActs ==
  ASSUME Next
  PROVE BuildStore \/ ConfigureFromPayload \/ \E t \in Threads : Action(t)
  BY DEF Next, Action

LEMMA Opened ==
  ASSUME Shapes, NEW t \in Threads, NEW name \in Requests, Open(t, name)
  PROVE LET entry == FindAssemblyStoreEntry(payload, runtime, name, source.crc[name])
        IN  /\ phase = "ready" /\ pc[t] = "idle"
            /\ UNCHANGED <<storeVars, phase, bundled, cads, buffer, mutex>>
            /\ \/ /\ entry = Nothing \/ entry.ignore
                  /\ pc' = [pc EXCEPT ![t] = "done"]
                  /\ call' = [call EXCEPT ![t] =
                       [name |-> name, entry |-> 0, pending |-> {},
                        data |-> [item |-> IF entry = Nothing THEN "missing" ELSE "ignored"]]]
               \/ /\ entry # Nothing /\ ~entry.ignore
                  /\ pc' = [pc EXCEPT ![t] = "image?"]
                  /\ call' = [call EXCEPT ![t] =
                       [name |-> name, entry |-> entry.descriptor_index, pending |-> {}, data |-> Nothing]]
  BY Zenon DEF Open, Goto

LEMMA ActionFrame ==
  ASSUME Shapes, NEW t \in Threads, Action(t)
  PROVE /\ phase = "ready" /\ phase' \in {"ready", "aborted"} /\ storeVars' = storeVars
        /\ pc' \in [Threads -> Labels] /\ DOMAIN call' = Threads
        /\ \A u \in Threads \ {t} : pc'[u] = pc[u] /\ call'[u] = call[u]
        /\ DOMAIN call'[t] = {"name", "entry", "pending", "data"} /\ call'[t].pending \subseteq Fields
<1> USE DEF Goto, Return, Abort, storeVars, Labels
<1>1. /\ pc \in [Threads -> Labels] /\ DOMAIN call = Threads
      /\ DOMAIN call[t] = {"name", "entry", "pending", "data"} /\ call[t].pending \subseteq Fields
  BY DEF Shapes
<1>2. CASE \E name \in Requests : Open(t, name)
  <2>1. PICK name \in Requests : Open(t, name)
    BY <1>2
  <2> DEFINE entry == FindAssemblyStoreEntry(payload, runtime, name, source.crc[name])
  <2> HIDE DEF entry
  <2>2. /\ phase = "ready" /\ UNCHANGED <<storeVars, phase>>
        /\ \E label \in Labels : pc' = [pc EXCEPT ![t] = label]
        /\ \E n, e, d : call' = [call EXCEPT ![t] = [name |-> n, entry |-> e, pending |-> {}, data |-> d]]
    BY <2>1, Opened
  <2> QED BY <1>1, <2>2
<1>3. CASE CheckImage(t)
  BY <1>1, <1>3 DEF CheckImage, Fields
<1>4. CASE \E field \in call[t].pending : StorePointer(t, field)
  BY <1>1, <1>4 DEF StorePointer
<1>5. CASE CopyImage(t)
  BY <1>1, <1>5 DEF CopyImage
<1>6. CASE CheckCompressed(t)
  BY <1>1, <1>6 DEF CheckCompressed
<1>7. CASE Lock(t)
  BY <1>1, <1>7 DEF Lock
<1>8. CASE CheckAgain(t)
  BY <1>1, <1>8 DEF CheckAgain
<1>9. CASE BeginDecompress(t)
  BY <1>1, <1>9 DEF BeginDecompress
<1>10. CASE EndDecompress(t)
  BY <1>1, <1>10 DEF EndDecompress
<1>11. CASE Publish(t)
  BY <1>1, <1>11 DEF Publish
<1>12. CASE Unlock(t)
  BY <1>1, <1>12 DEF Unlock
<1>13. CASE ReturnBuffer(t)
  BY <1>1, <1>13 DEF ReturnBuffer
<1>14. CASE Leave(t)
  BY <1>1, <1>14 DEF Leave, NoCall
<1> QED BY <1>2, <1>3, <1>4, <1>5, <1>6, <1>7, <1>8, <1>9, <1>10, <1>11, <1>12, <1>13, <1>14 DEF Action, Step

\* What of the shared data an action writes.
LEMMA ActionData ==
  ASSUME NEW t \in Threads, Action(t)
  PROVE /\ \/ bundled' = bundled
           \/ \E m, field, v : bundled' = [bundled EXCEPT ![m][field] = v]
        /\ \/ cads' = cads
           \/ \E i, v : cads' = [cads EXCEPT ![i].uncompressed_file_size = v]
           \/ \E i : cads' = [cads EXCEPT ![i].loaded = TRUE]
        /\ \/ buffer' = buffer
           \/ \E k, v : buffer' = [buffer EXCEPT ![k] = v]
<1>1. CASE \E name \in Requests : Open(t, name)
  BY <1>1, Zenon DEF Open
<1>2. CASE CheckImage(t)
  BY <1>2, Zenon DEF CheckImage
<1>3. CASE \E field \in call[t].pending : StorePointer(t, field)
  <2>1. PICK field \in call[t].pending : StorePointer(t, field)
    BY <1>3
  <2>2. bundled' = [bundled EXCEPT ![MappingOf(t)][field] = PointerValue(t, field)]
    BY <2>1, Zenon DEF StorePointer
  <2>3. cads' = cads /\ buffer' = buffer
    BY <2>1, Zenon DEF StorePointer
  <2> QED BY <2>2, <2>3
<1>4. CASE CopyImage(t)
  BY <1>4, Zenon DEF CopyImage
<1>5. CASE CheckCompressed(t)
  BY <1>5, Zenon DEF CheckCompressed
<1>6. CASE Lock(t)
  BY <1>6, Zenon DEF Lock
<1>7. CASE CheckAgain(t)
  BY <1>7, Zenon DEF CheckAgain
<1>8. CASE BeginDecompress(t)
  BY <1>8, Zenon DEF BeginDecompress
<1>9. CASE EndDecompress(t)
  BY <1>9, Zenon DEF EndDecompress
<1>10. CASE Publish(t)
  BY <1>10, Zenon DEF Publish
<1>11. CASE Unlock(t)
  BY <1>11, Zenon DEF Unlock
<1>12. CASE ReturnBuffer(t)
  BY <1>12, Zenon DEF ReturnBuffer
<1>13. CASE Leave(t)
  BY <1>13, Zenon DEF Leave
<1> QED
  BY <1>1, <1>2, <1>3, <1>4, <1>5, <1>6, <1>7, <1>8, <1>9, <1>10, <1>11, <1>12, <1>13 DEF Action, Step

LEMMA ShapesKept ==
  ASSUME Shapes, NEW t \in Threads, Action(t)
  PROVE Shapes'
<1> DEFINE built == BuiltDescriptors(source.assemblies)
<1>1. /\ pc' \in [Threads -> Labels] /\ DOMAIN call' = Threads /\ source' = source
      /\ \A u \in Threads : /\ DOMAIN call'[u] = {"name", "entry", "pending", "data"}
                            /\ call'[u].pending \subseteq Fields
  BY ActionFrame DEF storeVars, Shapes
<1>2. DOMAIN bundled' = DOMAIN bundled /\ \A m \in DOMAIN bundled : DOMAIN bundled'[m] = Fields
  BY ActionData DEF Shapes
<1>3. /\ DOMAIN cads' = DOMAIN cads
      /\ \A i \in DOMAIN cads :
           /\ DOMAIN cads'[i] = {"uncompressed_file_size", "loaded", "buffer_offset"}
           /\ cads'[i].buffer_offset = cads[i].buffer_offset
           /\ cads'[i].loaded \in BOOLEAN
  <2>1. CASE cads' = cads
    BY <2>1 DEF Shapes
  <2>2. CASE \E i, v : cads' = [cads EXCEPT ![i].uncompressed_file_size = v]
    <3>1. PICK i, v : cads' = [cads EXCEPT ![i].uncompressed_file_size = v]
      BY <2>2
    <3>2. \A k \in DOMAIN cads : cads'[k] = IF k = i THEN [cads[k] EXCEPT !.uncompressed_file_size = v] ELSE cads[k]
      BY <3>1
    <3> QED BY <3>1, <3>2 DEF Shapes
  <2>3. CASE \E i : cads' = [cads EXCEPT ![i].loaded = TRUE]
    <3>1. PICK i : cads' = [cads EXCEPT ![i].loaded = TRUE]
      BY <2>3
    <3>2. \A k \in DOMAIN cads : cads'[k] = IF k = i THEN [cads[k] EXCEPT !.loaded = TRUE] ELSE cads[k]
      BY <3>1
    <3> QED BY <3>1, <3>2 DEF Shapes
  <2> QED BY <2>1, <2>2, <2>3, ActionData
<1>4. DOMAIN buffer' = DOMAIN buffer
  BY ActionData
<1>5. {cads'[i].buffer_offset : i \in DOMAIN cads'} = {cads[i].buffer_offset : i \in DOMAIN cads}
  BY <1>3
<1> QED BY <1>1, <1>2, <1>3, <1>4, <1>5 DEF Shapes

LEMMA ConfiguredKept ==
  ASSUME Shapes, Configured, NEW t \in Threads, Action(t)
  PROVE Configured'
<1>1. phase = "ready" /\ phase' \in {"ready", "aborted"} /\ storeVars' = storeVars
  BY ActionFrame
<1> QED BY <1>1 DEF Configured, storeVars

\* Only a thread that maps its image writes a mapping's pointers, with those of
\* the descriptor that has this mapping alone.
LEMMA PointersKept ==
  ASSUME StoreHypotheses, Shapes, Configured, \A m \in DOMAIN bundled : PointersAreIts(m),
         NEW t \in Threads, Looking(t), Action(t), NEW m \in DOMAIN bundled
  PROVE PointersAreIts(m)'
<1>1. storeVars' = storeVars
  BY ActionFrame
<1>2. CASE bundled' = bundled
  BY <1>1, <1>2 DEF PointersAreIts, storeVars, Descriptor, DescriptorPointer
<1>3. CASE \E field \in call[t].pending : StorePointer(t, field)
  <2>1. PICK field \in call[t].pending : StorePointer(t, field)
    BY <1>3
  <2>2. /\ pc[t] = "map" /\ bundled' = [bundled EXCEPT ![MappingOf(t)][field] = PointerValue(t, field)]
    BY <2>1 DEF StorePointer
  <2>3. pc[t] \in Opening
    BY <2>2 DEF Opening
  <2>4. call[t].entry \in Used(payload, runtime) /\ Descriptor(call[t].entry).mapping_index = MappingOf(t)
    BY <2>3, OpeningThread DEF MappingOf
  <2>5. field \in Fields /\ DOMAIN bundled[m] = Fields
    BY DEF Shapes
  <2>6. CASE m # MappingOf(t)
    <3>1. bundled'[m] = bundled[m]
      BY <2>2, <2>6
    <3> QED BY <1>1, <3>1 DEF PointersAreIts, storeVars, Descriptor, DescriptorPointer
  <2>7. CASE m = MappingOf(t)
    <3>1. bundled'[m] = [bundled[m] EXCEPT ![field] = PointerValue(t, field)]
      BY <2>2, <2>7
    <3>2. \/ bundled'[m].image_data = bundled[m].image_data
          \/ bundled'[m].image_data = Descriptor(call[t].entry).data_offset
      BY <3>1, <2>5 DEF PointerValue, Fields
    <3>3. \/ bundled'[m].descriptor = bundled[m].descriptor
          \/ bundled'[m].descriptor = DescriptorPointer(call[t].entry)
      BY <3>1, <2>5 DEF PointerValue, Fields
    <3>4. PointersAreIts(m)
      OBVIOUS
    <3>5. /\ bundled'[m].image_data # Null =>
               \E d \in Used(payload, runtime) :
                 Descriptor(d).mapping_index = m /\ bundled'[m].image_data = Descriptor(d).data_offset
          /\ bundled'[m].descriptor # Null =>
               \E d \in Used(payload, runtime) :
                 Descriptor(d).mapping_index = m /\ bundled'[m].descriptor = DescriptorPointer(d)
      BY <2>4, <2>7, <3>2, <3>3, <3>4 DEF PointersAreIts
    <3> QED BY <1>1, <3>5 DEF PointersAreIts, storeVars, Descriptor, DescriptorPointer
  <2> QED BY <2>6, <2>7
<1>4. bundled' = bundled \/ \E field \in call[t].pending : StorePointer(t, field)
  BY Zenon DEF Action, Step, Open, CheckImage, CopyImage, CheckCompressed, Lock, CheckAgain,
     BeginDecompress, EndDecompress, Publish, Unlock, ReturnBuffer, Leave
<1> QED BY <1>2, <1>3, <1>4

\* A thread that has its image mapped reads the same pointer for good.
LEMMA MappingStays ==
  ASSUME StoreHypotheses, Shapes, Configured, NEW t \in Threads, Looking(t), Action(t),
         NEW u \in Threads, Looking(u),
         pc[u] \in Mapped \/ (pc[u] = "map" /\ "image_data" \notin call[u].pending)
  PROVE bundled'[MappingOf(u)].image_data = bundled[MappingOf(u)].image_data
<1>1. CASE bundled' = bundled
  BY <1>1
<1>2. CASE \E field \in call[t].pending : StorePointer(t, field)
  <2>1. PICK field \in call[t].pending : StorePointer(t, field)
    BY <1>2
  <2>2. pc[t] = "map" /\ bundled' = [bundled EXCEPT ![MappingOf(t)][field] = PointerValue(t, field)]
    BY <2>1 DEF StorePointer
  <2>3. pc[t] \in Opening /\ pc[u] \in Opening
    BY <2>2 DEF Opening
  <2>4. field \in Fields /\ MappingOf(u) \in DOMAIN bundled /\ DOMAIN bundled[MappingOf(u)] = Fields
    BY <2>3, OpeningThread DEF Shapes
  <2>5. bundled[MappingOf(u)].image_data = Descriptor(call[u].entry).data_offset
    BY <2>3 DEF Looking
  <2>6. CASE MappingOf(u) # MappingOf(t)
    BY <2>2, <2>4, <2>6
  <2>7. CASE MappingOf(u) = MappingOf(t)
    <3>1. call[t].entry = call[u].entry
      <4>1. call[t].entry \in Used(payload, runtime) /\ Descriptor(call[t].entry).mapping_index = MappingOf(t)
        BY <2>3, OpeningThread DEF MappingOf
      <4> QED BY <2>3, <2>7, <4>1, OpeningThread
    <3>2. bundled'[MappingOf(u)] = [bundled[MappingOf(u)] EXCEPT ![field] = PointerValue(t, field)]
      BY <2>2, <2>4, <2>7
    <3>3. field = "image_data" => PointerValue(t, field) = Descriptor(call[u].entry).data_offset
      BY <3>1 DEF PointerValue
    <3> QED BY <2>4, <2>5, <3>2, <3>3 DEF Fields
  <2> QED BY <2>6, <2>7
<1>3. bundled' = bundled \/ \E field \in call[t].pending : StorePointer(t, field)
  BY Zenon DEF Action, Step, Open, CheckImage, CopyImage, CheckCompressed, Lock, CheckAgain,
     BeginDecompress, EndDecompress, Publish, Unlock, ReturnBuffer, Leave
<1> QED BY <1>1, <1>2, <1>3

LEMMA LookingFrom ==
  ASSUME storeVars' = storeVars, NEW u \in Threads, Looking(u), pc[u] \in Opening,
         call'[u].name = call[u].name, call'[u].entry = call[u].entry,
         pc'[u] \in Mapped \/ (pc'[u] = "map" /\ "image_data" \notin call'[u].pending) =>
           bundled'[MappingOf(u)].image_data = Descriptor(call[u].entry).data_offset,
         pc'[u] \in Inflating => Target(u).image.kind = "compressed"
  PROVE Looking(u)'
<1>1. pc'[u] \in Inflating => pc'[u] \in Mapped
  BY DEF Mapped
<1>2. MappingOf(u)' = MappingOf(u) /\ Descriptor(call[u].entry)' = Descriptor(call[u].entry)
  BY DEF MappingOf, Descriptor, storeVars
<1>3. pc'[u] \in Inflating => Image(u)' = Target(u)
  BY <1>1, <1>2 DEF Image, Target, storeVars
<1>4. /\ call[u].name \in Requests
      /\ LET entry == FindAssemblyStoreEntry(payload, runtime, call[u].name, source.crc[call[u].name])
         IN  entry # Nothing /\ ~entry.ignore /\ call[u].entry = entry.descriptor_index
      /\ call[u].entry \in Used(payload, runtime)
  BY DEF Looking
<1>5. /\ call'[u].name \in Requests
      /\ LET entry == FindAssemblyStoreEntry(payload', runtime', call'[u].name, source'.crc[call'[u].name])
         IN  entry # Nothing /\ ~entry.ignore /\ call'[u].entry = entry.descriptor_index
      /\ call'[u].entry \in Used(payload', runtime')
  BY <1>4 DEF storeVars
<1>6. Descriptor(call[u].entry) = DescriptorIn(payload, runtime, call[u].entry)
      /\ Descriptor(call[u].entry)' = DescriptorIn(payload', runtime', call'[u].entry)
  BY DEF Descriptor
<1> QED BY <1>1, <1>2, <1>3, <1>5, <1>6 DEF Looking, Descriptor, MappingOf, storeVars

LEMMA OtherLooks ==
  ASSUME StoreHypotheses, Shapes, Configured, NEW t \in Threads, Looking(t), Action(t),
         NEW u \in Threads \ {t}, Looking(u)
  PROVE /\ Looking(u)'
        /\ pc[u] \in Mapped => Image(u)' = Image(u) /\ CadIndex(u)' = CadIndex(u)
<1>1. storeVars' = storeVars /\ pc'[u] = pc[u] /\ call'[u] = call[u]
  BY ActionFrame
<1>2. pc[u] \in Mapped => Image(u)' = Image(u) /\ CadIndex(u)' = CadIndex(u)
  BY <1>1, MappingStays DEF Image, CadIndex, MappingOf, Descriptor, storeVars
<1>3. CASE pc[u] \notin Opening
  BY <1>1, <1>2, <1>3 DEF Looking
<1>4. CASE pc[u] \in Opening
  <2>1. pc'[u] \in Mapped \/ (pc'[u] = "map" /\ "image_data" \notin call'[u].pending) =>
           bundled'[MappingOf(u)].image_data = Descriptor(call[u].entry).data_offset
    BY <1>1, <1>4, MappingStays DEF Looking
  <2>2. pc'[u] \in Inflating => Target(u).image.kind = "compressed"
    BY <1>1, <1>4, MappedThread DEF Looking, Mapped
  <2> QED BY <1>1, <1>2, <1>4, <2>1, <2>2, LookingFrom
<1> QED BY <1>2, <1>3, <1>4

LEMMA OwnLooking ==
  ASSUME StoreHypotheses, Shapes, Configured, \A m \in DOMAIN bundled : PointersAreIts(m),
         NEW t \in Threads, Looking(t), Action(t)
  PROVE Looking(t)'
<1>1. storeVars' = storeVars /\ DOMAIN call[t] = {"name", "entry", "pending", "data"}
      /\ DOMAIN call = Threads /\ pc \in [Threads -> Labels] /\ phase = "ready"
  BY ActionFrame DEF Shapes
<1>2. ASSUME pc[t] \in Mapped, call' = call,
             pc'[t] \in Inflating => Image(t).image.kind = "compressed"
      PROVE Looking(t)'
  <2>1. pc[t] \in Opening
    BY <1>2 DEF Opening
  <2>2. bundled'[MappingOf(t)].image_data = Descriptor(call[t].entry).data_offset
    BY <1>2, <2>1, MappingStays DEF Looking
  <2>3. pc'[t] \in Inflating => Target(t).image.kind = "compressed"
    BY <1>2, MappedThread
  <2> QED BY <1>1, <1>2, <2>1, <2>2, <2>3, LookingFrom
<1>3. ASSUME pc[t] \in Inflating, call' = call PROVE Looking(t)'
  <2>1. pc[t] \in Mapped /\ pc[t] \in Opening
    BY <1>3 DEF Opening, Mapped
  <2>2. Image(t).image.kind = "compressed"
    BY <1>3, <2>1 DEF Looking
  <2> QED BY <1>2, <1>3, <2>1, <2>2
<1>4. ASSUME pc'[t] \notin Opening PROVE Looking(t)'
  BY <1>4 DEF Looking
<1>5. CASE \E name \in Requests : Open(t, name)
  <2>1. PICK name \in Requests : Open(t, name)
    BY <1>5
  <2> DEFINE entry == FindAssemblyStoreEntry(payload, runtime, name, source.crc[name])
  <2>2. CASE pc' = [pc EXCEPT ![t] = "done"]
    BY <1>1, <1>4, <2>2 DEF Opening, Mapped, Inflating, Holding, Filling
  <2>3. CASE /\ entry # Nothing /\ ~entry.ignore
             /\ pc' = [pc EXCEPT ![t] = "image?"]
             /\ call' = [call EXCEPT ![t] =
                  [name |-> name, entry |-> entry.descriptor_index, pending |-> {}, data |-> Nothing]]
    <3>1. entry.descriptor_index \in Used(payload, runtime)
      BY <2>3, FoundIsUsed
    <3>2. entry # Nothing /\ ~entry.ignore
      BY <2>3
    <3> HIDE DEF entry
    <3>3. pc'[t] = "image?" /\ call'[t].name = name /\ call'[t].entry = entry.descriptor_index
      BY <1>1, <2>3
    <3>4. pc'[t] \notin Mapped /\ pc'[t] # "map" /\ pc'[t] \notin Inflating
      BY <3>3 DEF Mapped, Inflating, Holding, Filling
    <3>5. entry = FindAssemblyStoreEntry(payload', runtime', call'[t].name, source'.crc[call'[t].name])
          /\ Used(payload', runtime') = Used(payload, runtime)
      BY <1>1, <3>3 DEF entry, storeVars
    <3> QED BY <3>1, <3>2, <3>3, <3>4, <3>5, Zenon DEF Looking
  <2> QED BY <2>1, <2>2, <2>3, Opened
<1>6. CASE CheckImage(t)
  <2>1. pc[t] = "image?"
    BY <1>6 DEF CheckImage
  <2>2. pc[t] \in Opening
    BY <2>1 DEF Opening
  <2>3. CASE bundled[MappingOf(t)].image_data # Null
    <3>1. pc'[t] = "data" /\ call' = call /\ bundled' = bundled
      BY <1>1, <1>6, <2>3 DEF CheckImage, Goto
    <3>2. MappingOf(t) \in DOMAIN bundled
      BY <2>2, OpeningThread
    <3>3. PointersAreIts(MappingOf(t))
      BY <3>2
    <3>4. PICK d \in Used(payload, runtime) : /\ Descriptor(d).mapping_index = MappingOf(t)
                                              /\ bundled[MappingOf(t)].image_data = Descriptor(d).data_offset
      BY <2>3, <3>3 DEF PointersAreIts
    <3>5. d = call[t].entry
      BY <2>2, <3>4, OpeningThread
    <3>6. pc'[t] \notin Inflating
      BY <3>1 DEF Inflating, Holding, Filling
    <3> QED BY <1>1, <2>2, <3>1, <3>4, <3>5, <3>6, LookingFrom
  <2>4. CASE bundled[MappingOf(t)].image_data = Null
    <3>1. /\ pc'[t] = "map" /\ call'[t].name = call[t].name /\ call'[t].entry = call[t].entry
          /\ "image_data" \in call'[t].pending
      BY <1>1, <1>6, <2>4 DEF CheckImage, Goto
    <3>2. pc'[t] \notin Mapped /\ pc'[t] \notin Inflating
      BY <3>1 DEF Mapped, Inflating, Holding, Filling
    <3> QED BY <1>1, <2>2, <3>1, <3>2, LookingFrom
  <2> QED BY <2>3, <2>4
<1>7. CASE \E field \in call[t].pending : StorePointer(t, field)
  <2>1. PICK field \in call[t].pending : StorePointer(t, field)
    BY <1>7
  <2>2. /\ pc[t] = "map" /\ bundled' = [bundled EXCEPT ![MappingOf(t)][field] = PointerValue(t, field)]
        /\ call'[t].name = call[t].name /\ call'[t].entry = call[t].entry
        /\ call'[t].pending = call[t].pending \ {field}
        /\ pc'[t] = IF call[t].pending = {field} THEN "data" ELSE "map"
    BY <1>1, <2>1 DEF StorePointer, Goto
  <2>3. pc[t] \in Opening /\ pc'[t] \notin Inflating
    BY <2>2 DEF Opening, Inflating, Holding, Filling
  <2>4. field \in Fields /\ MappingOf(t) \in DOMAIN bundled /\ DOMAIN bundled[MappingOf(t)] = Fields
    BY <2>3, OpeningThread DEF Shapes
  <2>5. pc'[t] \in Mapped \/ (pc'[t] = "map" /\ "image_data" \notin call'[t].pending) =>
          bundled'[MappingOf(t)].image_data = Descriptor(call[t].entry).data_offset
    <3>1. CASE field = "image_data"
      BY <2>2, <2>4, <3>1 DEF PointerValue, Fields
    <3>2. CASE field # "image_data" /\ "image_data" \notin call[t].pending
      BY <2>2, <2>3, <3>2, MappingStays DEF Looking
    <3>3. CASE field # "image_data" /\ "image_data" \in call[t].pending
      BY <2>2, <3>3 DEF Mapped, Inflating, Holding, Filling
    <3> QED BY <3>1, <3>2, <3>3
  <2> QED BY <1>1, <2>2, <2>3, <2>5, LookingFrom
<1>8. CASE CopyImage(t)
  <2>1. CASE bundled[MappingOf(t)].descriptor = Null
    <3>1. pc[t] = "data" /\ pc'[t] = "fault" /\ call' = call
      BY <1>1, <1>8, <2>1 DEF CopyImage, Goto
    <3>2. pc[t] \in Mapped /\ pc'[t] \notin Inflating
      BY <3>1 DEF Mapped, Inflating, Holding, Filling
    <3> QED BY <1>2, <3>1, <3>2
  <2>2. CASE bundled[MappingOf(t)].descriptor # Null
    <3>1. pc'[t] = "done"
      BY <1>1, <1>8, <2>2 DEF CopyImage, Return, Goto
    <3> QED BY <1>4, <3>1 DEF Opening, Mapped, Inflating, Holding, Filling
  <2> QED BY <2>1, <2>2
<1>9. CASE CheckCompressed(t)
  <2>1. pc[t] = "data" /\ call' = call /\ Image(t).image.kind = "compressed"
    BY <1>9 DEF CheckCompressed, Abort
  <2>2. pc[t] \in Mapped
    BY <2>1 DEF Mapped
  <2> QED BY <1>2, <2>1, <2>2
<1>10. CASE Lock(t)
  BY <1>3, <1>10 DEF Lock, Inflating
<1>11. CASE CheckAgain(t)
  BY <1>3, <1>11 DEF CheckAgain, Abort, Inflating, Holding
<1>12. CASE BeginDecompress(t)
  BY <1>3, <1>12 DEF BeginDecompress, Inflating, Holding, Filling
<1>13. CASE EndDecompress(t)
  BY <1>3, <1>13 DEF EndDecompress, Abort, Inflating, Holding, Filling
<1>14. CASE Publish(t)
  BY <1>3, <1>14 DEF Publish, Inflating, Holding, Filling
<1>15. CASE Unlock(t)
  BY <1>3, <1>15 DEF Unlock, Inflating, Holding
<1>16. CASE ReturnBuffer(t)
  <2>1. pc'[t] = "done"
    BY <1>1, <1>16 DEF ReturnBuffer, Return, Goto
  <2> QED BY <1>4, <2>1 DEF Opening, Mapped, Inflating, Holding, Filling
<1>17. CASE Leave(t)
  <2>1. pc'[t] = "idle"
    BY <1>1, <1>17 DEF Leave, Goto
  <2> QED BY <1>4, <2>1 DEF Opening, Mapped, Inflating, Holding, Filling
<1> QED BY <1>5, <1>6, <1>7, <1>8, <1>9, <1>10, <1>11, <1>12, <1>13, <1>14, <1>15, <1>16, <1>17 DEF Action, Step

\* Descriptors and buffers are written under the mutex, a step at a time, and
\* nothing published is taken back.
LEMMA WritesUnderMutex ==
  ASSUME Shapes, NEW t \in Threads, Action(t)
  PROVE /\ pc[t] \notin {"locked", "publish"} => cads' = cads
        /\ pc[t] \notin {"decompress", "decompressing"} => buffer' = buffer
        /\ pc[t] \notin {"lock", "unlock"} => mutex' = mutex
        /\ pc[t] = "lock" => mutex = NoThread
        /\ \A i \in DOMAIN cads : cads[i].loaded => cads'[i].loaded
<1>1. /\ pc[t] \notin {"locked", "publish"} => cads' = cads
      /\ pc[t] \notin {"decompress", "decompressing"} => buffer' = buffer
      /\ pc[t] \notin {"lock", "unlock"} => mutex' = mutex
      /\ pc[t] = "lock" => mutex = NoThread
  BY Zenon DEF Action, Step, Open, CheckImage, StorePointer, CopyImage, CheckCompressed, Lock, CheckAgain,
     BeginDecompress, EndDecompress, Publish, Unlock, ReturnBuffer, Leave
<1>2. ASSUME NEW i \in DOMAIN cads, cads[i].loaded PROVE cads'[i].loaded
  <2>1. DOMAIN cads[i] = {"uncompressed_file_size", "loaded", "buffer_offset"}
    BY DEF Shapes
  <2>2. CASE cads' = cads
    BY <1>2, <2>2
  <2>3. CASE \E k, v : cads' = [cads EXCEPT ![k].uncompressed_file_size = v]
    BY <1>2, <2>1, <2>3
  <2>4. CASE \E k : cads' = [cads EXCEPT ![k].loaded = TRUE]
    BY <1>2, <2>1, <2>4
  <2> QED BY <2>2, <2>3, <2>4, ActionData
<1> QED BY <1>1, <1>2

LEMMA OtherHolds ==
  ASSUME StoreHypotheses, Shapes, Configured,
         NEW t \in Threads, Looking(t), HoldsMutex(t), Action(t),
         NEW u \in Threads \ {t}, Looking(u), HoldsMutex(u)
  PROVE HoldsMutex(u)'
<1>1. pc'[u] = pc[u] /\ storeVars' = storeVars
  BY ActionFrame
<1>2. u # NoThread /\ u # t
  BY NoThreadAssumption
<1>3. pc[u] \in Holding => mutex = u /\ pc[t] \notin Holding /\ mutex' = mutex
  <2>1. pc[u] \in Holding => mutex = u
    BY DEF HoldsMutex
  <2>2. pc[t] \in Holding => mutex = t
    BY DEF HoldsMutex
  <2> QED BY <1>2, <2>1, <2>2, WritesUnderMutex DEF Holding
<1>4. pc[u] \in Filling => cads' = cads /\ buffer' = buffer
  BY <1>3, WritesUnderMutex DEF Holding, Filling
<1>5. pc[u] \in Mapped => Image(u)' = Image(u) /\ CadIndex(u)' = CadIndex(u)
  BY OtherLooks
<1>6. pc[u] \in Filling => pc[u] \in Holding /\ pc[u] \in Mapped
  BY DEF Filling, Holding, Inflating, Mapped
<1>7. ASSUME pc[u] \in Filling PROVE ~Cad(u)'.loaded /\ Cad(u)'.uncompressed_file_size = Image(u)'.image.length
  BY <1>4, <1>5, <1>6, <1>7 DEF HoldsMutex, Cad
<1>8. ASSUME pc[u] = "publish" PROVE Whole(CadIndex(u))'
  <2>1. pc[u] \in Filling
    BY <1>8 DEF Filling
  <2>2. Whole(CadIndex(u))
    BY <1>8 DEF HoldsMutex
  <2> QED BY <1>1, <1>4, <1>5, <1>6, <2>1, <2>2 DEF Whole, FilesOf, storeVars
<1>9. ASSUME pc[u] \in {"unlock", "return"} PROVE Cad(u)'.loaded
  <2>1. pc[u] \in Inflating /\ pc[u] \in Mapped /\ pc[u] \in Opening
    BY <1>9 DEF Inflating, Holding, Mapped, Opening
  <2>2. CadIndex(u) \in DOMAIN cads
    BY <2>1, InflatingThread DEF Looking
  <2>3. cads[CadIndex(u)].loaded
    BY <1>9 DEF HoldsMutex, Cad
  <2> QED BY <1>5, <2>1, <2>2, <2>3, WritesUnderMutex DEF Cad
<1> QED BY <1>1, <1>3, <1>7, <1>8, <1>9 DEF HoldsMutex

\* What a thread that inflates its image has of it, before and after its step.
LEMMA OwnImage ==
  ASSUME StoreHypotheses, Shapes, Configured, NEW t \in Threads, Looking(t), Action(t),
         pc[t] \in Mapped, call' = call
  PROVE Image(t)' = Image(t) /\ CadIndex(t)' = CadIndex(t)
<1>1. storeVars' = storeVars
  BY ActionFrame
<1> QED BY <1>1, MappingStays DEF Image, CadIndex, MappingOf, Descriptor, storeVars

LEMMA OwnHolds ==
  ASSUME StoreHypotheses, Shapes, Configured, NEW t \in Threads, Looking(t), HoldsMutex(t), Action(t)
  PROVE HoldsMutex(t)'
<1> DEFINE c == CadIndex(t)
<1>1. pc \in [Threads -> Labels] /\ storeVars' = storeVars
  BY ActionFrame DEF Shapes
<1>2. ASSUME pc'[t] \notin Holding \union {"return"} PROVE HoldsMutex(t)'
  BY <1>2 DEF HoldsMutex, Holding, Filling
<1>3. ASSUME pc[t] \in Inflating
      PROVE /\ c \in DOMAIN cads /\ DOMAIN cads[c] = {"uncompressed_file_size", "loaded", "buffer_offset"}
            /\ cads[c].buffer_offset \in DOMAIN buffer
            /\ \E a \in ToSet(source.assemblies) : Image(t) = ImageOf(a) /\ FilesOf(c) = {a}
            /\ call' = call => Image(t)' = Image(t) /\ CadIndex(t)' = c
  <2>1. pc[t] \in Mapped /\ pc[t] \in Opening
    BY <1>3 DEF Mapped, Opening
  <2>2. Image(t).image.kind = "compressed"
    BY <1>3, <2>1 DEF Looking
  <2>3. c \in DOMAIN cads /\ \E a \in ToSet(source.assemblies) : Image(t) = ImageOf(a) /\ FilesOf(c) = {a}
    BY <2>1, <2>2, InflatingThread
  <2> QED BY <2>1, <2>3, OwnImage, PlacesAreApart DEF Shapes
<1>4. CASE \/ \E name \in Requests : Open(t, name)
           \/ CheckImage(t) \/ CopyImage(t)
           \/ \E field \in call[t].pending : StorePointer(t, field)
           \/ ReturnBuffer(t) \/ Leave(t)
  <2>1. pc'[t] \in {"done", "image?", "map", "data", "fault", "idle"}
    <3>1. CASE \E name \in Requests : Open(t, name)
      BY <1>1, <3>1, Opened
    <3>2. CASE \E field \in call[t].pending : StorePointer(t, field)
      BY <1>1, <3>2 DEF StorePointer, Goto
    <3>3. CASE CheckImage(t)
      BY <1>1, <3>3 DEF CheckImage, Goto
    <3>4. CASE CopyImage(t)
      BY <1>1, <3>4 DEF CopyImage, Goto, Return
    <3>5. CASE ReturnBuffer(t)
      BY <1>1, <3>5 DEF ReturnBuffer, Goto, Return
    <3>6. CASE Leave(t)
      BY <1>1, <3>6 DEF Leave, Goto
    <3> QED BY <1>4, <3>1, <3>2, <3>3, <3>4, <3>5, <3>6
  <2> QED BY <1>2, <2>1 DEF Holding, Filling
<1>5. CASE CheckCompressed(t)
  <2>1. /\ pc[t] = "data" /\ call' = call /\ cads' = cads
        /\ pc'[t] \in {"data", "fault", "lock", "return"} /\ (pc'[t] = "return" => Cad(t).loaded)
    BY <1>1, <1>5 DEF CheckCompressed, Abort, Goto
  <2>2. Cad(t)' = Cad(t)
    BY <2>1, OwnImage DEF Cad, Mapped
  <2> QED BY <2>1, <2>2 DEF HoldsMutex, Holding, Filling
<1>6. CASE Lock(t)
  <2>1. pc'[t] = "locked" /\ mutex' = t
    BY <1>1, <1>6 DEF Lock, Goto
  <2> QED BY <2>1 DEF HoldsMutex, Holding, Filling
<1>7. CASE CheckAgain(t)
  <2>1. pc[t] = "locked" /\ mutex' = mutex /\ call' = call /\ mutex = t
    BY <1>7 DEF CheckAgain, Abort, HoldsMutex, Holding
  <2>2. Image(t)' = Image(t) /\ CadIndex(t)' = c
    BY <1>3, <2>1 DEF Inflating, Holding
  <2>3. CASE Cad(t).loaded
    <3>1. pc'[t] = "unlock" /\ cads' = cads
      BY <1>1, <1>7, <2>3 DEF CheckAgain, Goto
    <3> QED BY <2>1, <2>2, <2>3, <3>1 DEF HoldsMutex, Filling, Cad
  <2>4. CASE ~Cad(t).loaded /\ Image(t).image.length > Cad(t).uncompressed_file_size
    <3>1. pc' = pc
      BY <1>7, <2>4 DEF CheckAgain, Abort
    <3> QED BY <2>1, <3>1 DEF HoldsMutex, Filling
  <2>5. CASE ~Cad(t).loaded /\ ~(Image(t).image.length > Cad(t).uncompressed_file_size)
    <3>1. /\ pc'[t] = "decompress"
          /\ cads' = [cads EXCEPT ![c].uncompressed_file_size = Image(t).image.length]
      BY <1>1, <1>7, <2>5 DEF CheckAgain, Goto
    <3>2. cads'[c].loaded = cads[c].loaded /\ cads'[c].uncompressed_file_size = Image(t).image.length
      BY <1>3, <2>1, <3>1 DEF Inflating, Holding
    <3> QED BY <2>1, <2>2, <2>5, <3>1, <3>2 DEF HoldsMutex, Cad
  <2> QED BY <2>3, <2>4, <2>5
<1>8. CASE BeginDecompress(t)
  <2>1. pc[t] = "decompress" /\ pc'[t] = "decompressing" /\ mutex' = mutex /\ call' = call /\ cads' = cads
    BY <1>1, <1>8 DEF BeginDecompress, Goto
  <2>2. pc[t] \in Inflating /\ pc[t] \in Holding /\ pc[t] \in Filling
    BY <2>1 DEF Inflating, Holding, Filling
  <2> QED BY <1>3, <2>1, <2>2 DEF HoldsMutex, Cad
<1>9. CASE EndDecompress(t)
  <2>1. pc[t] = "decompressing" /\ mutex' = mutex /\ call' = call /\ cads' = cads
    BY <1>9 DEF EndDecompress, Abort
  <2>2. pc[t] \in Inflating /\ pc[t] \in Holding /\ pc[t] \in Filling
    BY <2>1 DEF Inflating, Holding, Filling
  <2>3. Image(t)' = Image(t) /\ CadIndex(t)' = c
    BY <1>3, <2>1, <2>2
  <2> DEFINE ret == ZSTD_decompress(Cad(t).uncompressed_file_size, Image(t).image)
  <2>4. CASE ret.error \/ ret.size # Cad(t).uncompressed_file_size
    <3>1. pc' = pc
      BY <1>9, <2>4 DEF EndDecompress, Abort
    <3> QED BY <2>1, <2>2, <2>3, <3>1 DEF HoldsMutex, Cad
  <2>5. CASE ~(ret.error \/ ret.size # Cad(t).uncompressed_file_size)
    <3> HIDE DEF ret
    <3>1. /\ pc'[t] = "publish" /\ ret.size = Cad(t).uncompressed_file_size
          /\ buffer' = [buffer EXCEPT ![Cad(t).buffer_offset] =
                          [item |-> "data", of |-> Image(t).of, size |-> ret.size]]
      BY <1>1, <1>9, <2>5 DEF EndDecompress, Goto, ret
    <3>2. buffer'[cads[c].buffer_offset] = [item |-> "data", of |-> Image(t).of, size |-> ret.size]
      BY <1>3, <2>2, <3>1 DEF Cad
    <3>3. PICK a \in ToSet(source.assemblies) : Image(t) = ImageOf(a) /\ FilesOf(c) = {a}
      BY <1>3, <2>2
    <3>4. FilesOf(CadIndex(t))' = {a}
      BY <1>1, <2>3, <3>3 DEF FilesOf, storeVars
    <3>5. Cad(t).uncompressed_file_size = a.image.length /\ Image(t).of = a.name
      BY <2>2, <3>3 DEF HoldsMutex, ImageOf
    <3>6. /\ buffer'[cads'[c].buffer_offset].item = "data"
          /\ buffer'[cads'[c].buffer_offset].size = cads'[c].uncompressed_file_size
          /\ buffer'[cads'[c].buffer_offset].of = a.name
          /\ cads'[c].uncompressed_file_size = a.image.length
      BY <2>1, <3>1, <3>2, <3>5 DEF Cad
    <3>7. Whole(CadIndex(t))'
      BY <2>3, <3>4, <3>6 DEF Whole, FilesOf
    <3> QED BY <2>1, <2>2, <2>3, <3>1, <3>7 DEF HoldsMutex, Cad
  <2> QED BY <2>4, <2>5
<1>10. CASE Publish(t)
  <2>1. /\ pc[t] = "publish" /\ pc'[t] = "unlock" /\ mutex' = mutex /\ call' = call
        /\ cads' = [cads EXCEPT ![c].loaded = TRUE]
    BY <1>1, <1>10 DEF Publish, Goto
  <2>2. pc[t] \in Inflating /\ pc[t] \in Holding
    BY <2>1 DEF Inflating, Holding, Filling
  <2>3. cads'[c].loaded /\ CadIndex(t)' = c
    BY <1>3, <2>1, <2>2
  <2> QED BY <2>1, <2>2, <2>3 DEF HoldsMutex, Cad, Filling
<1>11. CASE Unlock(t)
  <2>1. pc[t] = "unlock" /\ pc'[t] = "return" /\ call' = call /\ cads' = cads
    BY <1>1, <1>11 DEF Unlock, Goto
  <2>2. Cad(t)' = Cad(t)
    BY <1>3, <2>1 DEF Inflating, Holding, Cad
  <2> QED BY <2>1, <2>2 DEF HoldsMutex, Holding, Filling
<1> QED BY <1>4, <1>5, <1>6, <1>7, <1>8, <1>9, <1>10, <1>11 DEF Action, Step

\* A published buffer is not written again.
LEMMA WholeKept ==
  ASSUME StoreHypotheses, Shapes, Configured,
         NEW t \in Threads, Looking(t), HoldsMutex(t), Action(t),
         NEW i \in DOMAIN cads, cads[i].loaded => Whole(i), cads'[i].loaded
  PROVE Whole(i)'
<1> DEFINE c == CadIndex(t)
<1>1. storeVars' = storeVars /\ DOMAIN cads[i] = {"uncompressed_file_size", "loaded", "buffer_offset"}
      /\ cads[i].loaded \in BOOLEAN
  BY ActionFrame DEF Shapes
<1>2. ASSUME Whole(i), cads'[i].uncompressed_file_size = cads[i].uncompressed_file_size,
             cads'[i].buffer_offset = cads[i].buffer_offset,
             buffer'[cads[i].buffer_offset] = buffer[cads[i].buffer_offset]
      PROVE Whole(i)'
  BY <1>1, <1>2 DEF Whole, FilesOf, storeVars
<1>3. CASE pc[t] \notin {"locked", "publish", "decompress", "decompressing"}
  BY <1>2, <1>3, WritesUnderMutex
<1>4. ASSUME pc[t] \in Holding PROVE c \in DOMAIN cads
  <2>1. pc[t] \in Inflating /\ pc[t] \in Mapped /\ pc[t] \in Opening
    BY <1>4 DEF Inflating, Mapped, Opening
  <2> QED BY <2>1, InflatingThread DEF Looking
<1>5. CASE pc[t] = "locked"
  <2>1. CheckAgain(t) /\ buffer' = buffer
    BY <1>5, Opened, WritesUnderMutex DEF Action, Step, CheckImage, StorePointer, CopyImage, CheckCompressed, Lock,
       BeginDecompress, EndDecompress, Publish, Unlock, ReturnBuffer, Leave
  <2>2. \/ cads' = cads
        \/ ~cads[c].loaded /\ cads' = [cads EXCEPT ![c].uncompressed_file_size = Image(t).image.length]
    BY <2>1, Zenon DEF CheckAgain, Cad
  <2>3. CASE cads' = cads
    BY <1>2, <2>1, <2>3
  <2>4. CASE ~cads[c].loaded /\ cads' = [cads EXCEPT ![c].uncompressed_file_size = Image(t).image.length]
    <3>1. i # c
      BY <1>1, <2>4
    <3>2. cads'[i] = cads[i]
      BY <2>4, <3>1
    <3> QED BY <1>2, <2>1, <3>2
  <2> QED BY <2>2, <2>3, <2>4
<1>6. CASE pc[t] \in {"decompress", "decompressing"}
  <2>1. cads' = cads
    BY <1>6, WritesUnderMutex
  <2>2. BeginDecompress(t) \/ EndDecompress(t)
    BY <1>6, Opened DEF Action, Step, CheckImage, StorePointer, CopyImage, CheckCompressed, Lock,
       CheckAgain, Publish, Unlock, ReturnBuffer, Leave
  <2>3. buffer' = buffer \/ \E v : buffer' = [buffer EXCEPT ![cads[c].buffer_offset] = v]
    BY <2>2, Zenon DEF BeginDecompress, EndDecompress, Cad
  <2>4. ~cads[c].loaded /\ c \in DOMAIN cads
    BY <1>4, <1>6 DEF HoldsMutex, Filling, Holding, Cad
  <2>5. cads[i].buffer_offset # cads[c].buffer_offset
    BY <2>1, <2>4, PlacesAreApart
  <2>6. cads[i].buffer_offset \in DOMAIN buffer
    BY PlacesAreApart
  <2> QED BY <1>2, <2>1, <2>3, <2>5, <2>6
<1>7. CASE pc[t] = "publish"
  <2>1. Publish(t) /\ buffer' = buffer
    BY <1>7, Opened, WritesUnderMutex DEF Action, Step, CheckImage, StorePointer, CopyImage, CheckCompressed, Lock,
       BeginDecompress, EndDecompress, CheckAgain, Unlock, ReturnBuffer, Leave
  <2>2. cads' = [cads EXCEPT ![c].loaded = TRUE]
    BY <2>1 DEF Publish
  <2>3. /\ cads'[i].uncompressed_file_size = cads[i].uncompressed_file_size
        /\ cads'[i].buffer_offset = cads[i].buffer_offset
        /\ i # c => cads'[i].loaded = cads[i].loaded
    BY <1>1, <2>2
  <2>4. Whole(i)
    BY <1>7, <2>3 DEF HoldsMutex
  <2> QED BY <1>2, <2>1, <2>3, <2>4
<1> QED BY <1>3, <1>5, <1>6, <1>7

\* What a call returns is what its name asks for.
LEMMA AnswersKept ==
  ASSUME StoreHypotheses, Shapes, Configured, OpensItsOwnImage, \A m \in DOMAIN bundled : PointersAreIts(m),
         \A i \in DOMAIN cads : cads[i].loaded => Whole(i),
         NEW t \in Threads, Looking(t), HoldsMutex(t), Action(t)
  PROVE OpensItsOwnImage'
<1> DEFINE Answers(u) ==
      pc[u] = "done" =>
        LET answer == call[u].data
            meant == Meant(source, call[u].name)
        IN  /\ meant = {} => answer.item = "missing"
            /\ meant # {} /\ (\A a \in meant : a.ignored) => answer.item = "ignored"
            /\ (\E a \in meant : ~a.ignored) =>
                 /\ answer.item = "data"
                 /\ \E a \in meant : answer.of = a.name /\ answer.size = a.image.length
<1>1. \A u \in Threads : Answers(u)
  BY Zenon DEF OpensItsOwnImage
<1> SUFFICES \A u \in Threads : Answers(u)'
  BY Zenon DEF OpensItsOwnImage
<1>2. /\ storeVars' = storeVars /\ pc \in [Threads -> Labels] /\ DOMAIN call = Threads
      /\ DOMAIN call[t] = {"name", "entry", "pending", "data"} /\ phase = "ready"
  BY ActionFrame DEF Shapes
<1>3. ASSUME NEW u \in Threads \ {t} PROVE Answers(u)'
  <2>1. pc'[u] = pc[u] /\ call'[u] = call[u] /\ source' = source
    BY <1>2, ActionFrame DEF storeVars
  <2> QED BY <1>1, <2>1
<1>4. ASSUME pc[t] \in Opening, pc'[t] = "done", call'[t].name = call[t].name, call'[t].data.item = "data",
             call'[t].data.of = Target(t).of, call'[t].data.size = Target(t).image.length
      PROVE Answers(t)'
  <2>1. /\ \E a \in Meant(source, call[t].name) : ~a.ignored
        /\ \E a \in Meant(source, call[t].name) : Target(t) = ImageOf(a)
    BY <1>4, RightImage
  <2>2. PICK a \in Meant(source, call[t].name) : Target(t) = ImageOf(a)
    BY <2>1
  <2>3. call'[t].data.of = a.name /\ call'[t].data.size = a.image.length
    BY <1>4, <2>2 DEF ImageOf
  <2>4. Meant(source', call'[t].name) = Meant(source, call[t].name)
    BY <1>2, <1>4 DEF storeVars
  <2> QED BY <1>4, <2>1, <2>2, <2>3, <2>4
<1> SUFFICES Answers(t)'
  BY <1>3
<1>5. CASE \E name \in Requests : Open(t, name)
  <2>1. PICK name \in Requests : Open(t, name)
    BY <1>5
  <2> DEFINE entry == FindAssemblyStoreEntry(payload, runtime, name, source.crc[name])
             meant == Meant(source, name)
  <2>2. CASE /\ entry = Nothing \/ entry.ignore
             /\ pc' = [pc EXCEPT ![t] = "done"]
             /\ call' = [call EXCEPT ![t] =
                  [name |-> name, entry |-> 0, pending |-> {},
                   data |-> [item |-> IF entry = Nothing THEN "missing" ELSE "ignored"]]]
    <3>1. /\ meant = {} => entry = Nothing
          /\ meant # {} /\ (\A a \in meant : a.ignored) => entry # Nothing /\ entry.ignore
          /\ (\E a \in meant : ~a.ignored) => entry # Nothing /\ ~entry.ignore
      <4> QED BY <1>2, SearchFinds, Ready, Zenon
    <3>2. entry = Nothing \/ entry.ignore
      BY <2>2
    <3> HIDE DEF entry, meant
    <3>3. call'[t].name = name /\ call'[t].data.item = IF entry = Nothing THEN "missing" ELSE "ignored"
      BY <1>2, <2>2
    <3>4. Meant(source', call'[t].name) = meant
      BY <1>2, <3>3 DEF storeVars, meant
    <3> QED BY <3>1, <3>2, <3>3, <3>4
  <2>3. CASE pc' = [pc EXCEPT ![t] = "image?"]
    BY <1>2, <2>3
  <2> QED BY <2>1, <2>2, <2>3, Opened
<1>6. CASE CopyImage(t)
  <2> DEFINE d == bundled[MappingOf(t)].descriptor
  <2>1. pc[t] = "data" /\ Image(t).image.kind = "plain"
    BY <1>6 DEF CopyImage
  <2>2. pc[t] \in Mapped /\ pc[t] \in Opening
    BY <2>1 DEF Mapped, Opening
  <2>3. CASE d = Null
    <3>1. pc'[t] = "fault"
      BY <1>2, <1>6, <2>3 DEF CopyImage, Goto
    <3> QED BY <3>1
  <2>4. CASE d # Null
    <3>1. /\ pc'[t] = "done" /\ call'[t].name = call[t].name
          /\ call'[t].data = [item |-> "data", of |-> Image(t).of, size |-> ReadAt(payload, d).data_size]
      BY <1>2, <1>6, <2>4 DEF CopyImage, Return, Goto
    <3>2. PointersAreIts(MappingOf(t))
      BY <2>2, OpeningThread
    <3>3. PICK e \in Used(payload, runtime) : Descriptor(e).mapping_index = MappingOf(t) /\ d = DescriptorPointer(e)
      BY <2>4, <3>2 DEF PointersAreIts
    <3>4. e = call[t].entry
      BY <2>2, <3>3, OpeningThread
    <3>5. ReadAt(payload, d) = Descriptor(call[t].entry)
      BY <3>3, <3>4 DEF Descriptor, DescriptorIn, DescriptorPointer
    <3>6. Image(t) = Target(t)
      BY <2>2, MappedThread
    <3>7. PICK a \in ToSet(source.assemblies) :
             /\ Target(t) = ImageOf(a)
             /\ a.image.kind = "plain" => Descriptor(call[t].entry).data_size = a.image.length
      BY <2>2, OpeningThread
    <3>8. Target(t).image = a.image
      BY <3>7 DEF ImageOf
    <3>9. /\ call'[t].data.item = "data" /\ call'[t].data.of = Target(t).of
          /\ call'[t].data.size = Target(t).image.length
      BY <2>1, <3>1, <3>5, <3>6, <3>7, <3>8
    <3> QED BY <1>4, <2>2, <3>1, <3>9
  <2> QED BY <2>3, <2>4
<1>7. CASE ReturnBuffer(t)
  <2>1. /\ pc[t] = "return" /\ pc'[t] = "done" /\ call'[t].name = call[t].name
        /\ call'[t].data = [item |-> buffer[Cad(t).buffer_offset].item, of |-> buffer[Cad(t).buffer_offset].of,
                            size |-> Cad(t).uncompressed_file_size]
    BY <1>2, <1>7 DEF ReturnBuffer, Return, Goto
  <2>2. pc[t] \in Inflating /\ pc[t] \in Mapped /\ pc[t] \in Opening
    BY <2>1 DEF Inflating, Mapped, Opening
  <2>3. CadIndex(t) \in DOMAIN cads
        /\ \E a \in ToSet(source.assemblies) :
             Image(t) = ImageOf(a) /\ Target(t) = ImageOf(a) /\ FilesOf(CadIndex(t)) = {a}
    BY <2>2, InflatingThread DEF Looking
  <2>4. PICK a \in ToSet(source.assemblies) : Target(t) = ImageOf(a) /\ FilesOf(CadIndex(t)) = {a}
    BY <2>3
  <2>5. Whole(CadIndex(t))
    BY <2>1, <2>3 DEF HoldsMutex, Cad
  <2>6. /\ buffer[Cad(t).buffer_offset].item = "data" /\ buffer[Cad(t).buffer_offset].of = a.name
        /\ Cad(t).uncompressed_file_size = a.image.length
    BY <2>4, <2>5 DEF Whole, Cad
  <2>7. Target(t).of = a.name /\ Target(t).image = a.image
    BY <2>4 DEF ImageOf
  <2> QED BY <1>4, <2>1, <2>2, <2>6, <2>7
<1>8. ASSUME pc'[t] # "done" PROVE Answers(t)'
  BY <1>8
<1>9. \/ \E name \in Requests : Open(t, name)
      \/ CopyImage(t) \/ ReturnBuffer(t) \/ pc'[t] # "done"
  <2>1. \/ \E name \in Requests : Open(t, name)
        \/ CopyImage(t) \/ ReturnBuffer(t)
        \/ (pc' = pc /\ pc[t] # "done")
        \/ \E label \in Labels \ {"done"} : pc' = [pc EXCEPT ![t] = label]
    BY DEF Action, Step, CheckImage, StorePointer, CheckCompressed, Lock, CheckAgain, BeginDecompress,
       EndDecompress, Publish, Unlock, Leave, Abort, Goto, Labels
  <2> QED BY <1>2, <2>1
<1> QED BY <1>5, <1>6, <1>7, <1>8, <1>9

-----------------------------------------------------------------------------
(* The theorems                                                             *)

LEMMA StoreStep ==
  StoreHypotheses /\ StoreInv /\ [Next]_vars => StoreInv'
<1> SUFFICES ASSUME StoreHypotheses, StoreInv, [Next]_vars PROVE StoreInv'
  OBVIOUS
<1>1. /\ Shapes /\ Configured /\ OpensItsOwnImage
      /\ \A m \in DOMAIN bundled : PointersAreIts(m)
      /\ \A t \in Threads : Looking(t) /\ HoldsMutex(t)
      /\ \A i \in DOMAIN cads : cads[i].loaded => Whole(i)
  BY DEF StoreInv
<1>2. CASE UNCHANGED vars
  <2>1. Shapes' /\ Configured' /\ OpensItsOwnImage'
    <3>1. Shapes'
      BY <1>1, <1>2 DEF vars, Shapes
    <3>2. Configured'
      BY <1>1, <1>2 DEF vars, Configured
    <3>3. OpensItsOwnImage'
      BY <1>1, <1>2 DEF vars, OpensItsOwnImage
    <3> QED BY <3>1, <3>2, <3>3
  <2>2. \A m \in DOMAIN bundled' : PointersAreIts(m)'
    BY <1>1, <1>2 DEF vars, PointersAreIts, Descriptor, DescriptorPointer
  <2>3. \A i \in DOMAIN cads' : cads'[i].loaded => Whole(i)'
    BY <1>1, <1>2 DEF vars, Whole, FilesOf
  <2>4. ASSUME NEW t \in Threads PROVE Looking(t)' /\ HoldsMutex(t)'
    <3>1. Looking(t) /\ HoldsMutex(t)
      BY <1>1
    <3>2. Looking(t)'
      BY <1>2, <3>1 DEF vars, Looking, Descriptor, MappingOf, Image
    <3>3. HoldsMutex(t)'
      BY <1>2, <3>1 DEF vars, HoldsMutex, Cad, CadIndex, Image, MappingOf, Descriptor, Whole, FilesOf
    <3> QED BY <3>2, <3>3
  <2> QED BY <2>1, <2>2, <2>3, <2>4 DEF StoreInv
<1>3. CASE BuildStore \/ ConfigureFromPayload
  <2>1. /\ phase \in {"build", "built"} /\ phase' \in {"built", "refused", "ready", "aborted"}
        /\ UNCHANGED <<source, bundled, cads, buffer, mutex, pc, call>>
    BY <1>3 DEF BuildStore, ConfigureFromPayload
  <2>2. /\ \A t \in Threads : pc[t] = "idle"
        /\ \A m \in DOMAIN bundled : bundled[m].image_data = Null /\ bundled[m].descriptor = Null
    BY <1>1, <2>1 DEF Configured
  <2>3. Shapes'
    BY <1>1, <2>1 DEF Shapes
  <2>4. Configured'
    <3>1. CASE BuildStore
      BY <1>1, <2>1, <2>2, <3>1 DEF BuildStore, Configured
    <3>2. CASE ConfigureFromPayload
      BY <1>1, <2>1, <2>2, <3>2 DEF ConfigureFromPayload, Configured
    <3> QED BY <1>3, <3>1, <3>2
  <2>5. \A m \in DOMAIN bundled' : PointersAreIts(m)'
    BY <2>1, <2>2 DEF PointersAreIts
  <2>6. \A t \in Threads : Looking(t)' /\ HoldsMutex(t)'
    BY <2>1, <2>2 DEF Looking, HoldsMutex, Opening, Mapped, Inflating, Holding, Filling
  <2>7. OpensItsOwnImage'
    BY <2>1, <2>2 DEF OpensItsOwnImage
  <2>8. \A i \in DOMAIN cads' : cads'[i].loaded => Whole(i)'
    BY <1>1, <2>1 DEF Whole, FilesOf
  <2> QED BY <2>3, <2>4, <2>5, <2>6, <2>7, <2>8 DEF StoreInv
<1>4. ASSUME NEW t \in Threads, Action(t) PROVE StoreInv'
  <2>1. Shapes' /\ Configured'
    BY <1>1, <1>4, ShapesKept, ConfiguredKept
  <2>2. \A m \in DOMAIN bundled' : PointersAreIts(m)'
    <3>1. DOMAIN bundled' = DOMAIN bundled
      BY <1>4, ActionData
    <3> QED BY <1>1, <1>4, <3>1, PointersKept
  <2>3. \A u \in Threads : Looking(u)'
    BY <1>1, <1>4, OwnLooking, OtherLooks
  <2>4. \A u \in Threads : HoldsMutex(u)'
    BY <1>1, <1>4, OwnHolds, OtherHolds
  <2>5. OpensItsOwnImage'
    BY <1>1, <1>4, AnswersKept
  <2>6. \A i \in DOMAIN cads' : cads'[i].loaded => Whole(i)'
    <3>1. DOMAIN cads' = DOMAIN cads
      BY <1>4, ActionData
    <3> QED BY <1>1, <1>4, <3>1, WholeKept
  <2> QED BY <2>1, <2>2, <2>3, <2>4, <2>5, <2>6 DEF StoreInv
<1> QED BY <1>2, <1>3, <1>4, NextActs

LEMMA StoreAlways == ASSUME StoreHypotheses PROVE Spec => []StoreInv
<1>1. Init => StoreInv
  BY StoreInit
<1>2. StoreInv /\ [Next]_vars => StoreInv'
  BY StoreStep
<1> QED BY <1>1, <1>2, PTL DEF Spec

\* Whatever threads open whatever names at once, a descriptor says `loaded' only
\* of a buffer that holds its whole image, and a buffer is filled only by the
\* thread that holds the mutex, once (get_assembly_data).
THEOREM ImagesAreLoadedWhole == ASSUME StoreHypotheses PROVE Spec => []LoadedIsWhole
<1>1. StoreInv => LoadedIsWhole
  BY DEF StoreInv, HoldsMutex, Whole, LoadedIsWhole, Holding, Filling
<1> QED BY <1>1, StoreAlways, PTL

\* What a finished call returns is what its name asks for: nothing, "ignored" or
\* the complete image of the assembly (open_assembly).
THEOREM CallsOpenTheirOwnImage == ASSUME StoreHypotheses PROVE Spec => []OpensItsOwnImage
<1>1. StoreInv => OpensItsOwnImage
  BY DEF StoreInv
<1> QED BY <1>1, StoreAlways, PTL
=============================================================================
