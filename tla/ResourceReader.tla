--------------------------- MODULE ResourceReader ---------------------------
(***************************************************************************)
(* The reader the build runs over each binary XML document it wrote        *)
(* (Test-BinaryAxml, Assert-ManifestAttributeIds of setup.ps1), chunk by   *)
(* chunk, over documents as written and with one word of them damaged, and *)
(* the platform's lookup of a resource id in the table, through the        *)
(* structures of lib/ResourceTypes.h.                                      *)
(*                                                                         *)
(* The reader addresses bytes; a read that leaves the document throws, and *)
(* under Set-StrictMode so does an index outside a list.                   *)
(***************************************************************************)
EXTENDS ResourceFormat

CONSTANTS
  Written,     \* name of a document -> [words, tags]
  Table,       \* the words of resources.arsc
  Manifests,   \* the names the negative controls are made from
  Corrupted,   \* the names of which any one word may be damaged
  Values16     \* what a damaged word may be

VARIABLES
  doc, damage, words,    \* what is read
  cursor, depth, namespaces,
  pool, sawPool,         \* the strings
  ids, sawMap,           \* the resource map
  elements,              \* [name, depth, attributes] of the elements opened
  verdict                \* "reading", "accepted", or why it was rejected

vars == <<doc, damage, words, cursor, depth, namespaces, pool, sawPool, ids, sawMap, elements, verdict>>
progress == <<cursor, depth, namespaces, pool, sawPool, ids, sawMap, elements>>

-----------------------------------------------------------------------------
(* Bytes of the document *)

Length == 2 * Len(words)

Inside(at, width) == at >= 0 /\ at + width <= Length
Word(at) == words[at \div 2 + 1]
Byte(at) == IF at % 2 = 0 THEN Word(at) % 256 ELSE Word(at) \div 256
ToUInt16(at) == IF at % 2 = 0 THEN Word(at) ELSE Byte(at) + 256 * Byte(at + 1)
\* Everything from FarAway on is outside any document here.
FarAway == 268435456
ToUInt32(at) == IF ToUInt16(at + 2) >= 4096 THEN FarAway ELSE ToUInt16(at) + 65536 * ToUInt16(at + 2)
ToInt32(at) ==
  LET high == ToUInt16(at + 2)
  IN  65536 * (IF high >= 32768 THEN high - 65536 ELSE high) + ToUInt16(at)
Field(at, field) == IF field[2] = 2 THEN ToUInt16(at + field[1]) ELSE ToInt32(at + field[1])

\* Mutation: the header is not compared with the chunk.
Test_ResChunkHeader_AnySize(at, minimum) ==
  IF at + ResChunk_header.sizeof > Length THEN "past its container"
  ELSE LET header == Field(at, ResChunk_header.headerSize)
           size == Field(at, ResChunk_header.size)
       IN  CASE header < minimum -> "header below minimum"
             [] header >= minimum /\ (header % 4 # 0 \/ size % 4 # 0) -> "misaligned"
             [] OTHER -> IF at + size > Length THEN "past its container" ELSE ""

\* What is wrong with a chunk header, "" for nothing.
Test_ResChunkHeader(at, minimum) ==
  IF at + ResChunk_header.sizeof > Length THEN "past its container"
  ELSE LET header == Field(at, ResChunk_header.headerSize)
           size == Field(at, ResChunk_header.size)
       IN  CASE header < minimum -> "header below minimum"
             [] header >= minimum /\ header > size -> "header larger than chunk"
             [] header >= minimum /\ header <= size /\ (header % 4 # 0 \/ size % 4 # 0) -> "misaligned"
             [] OTHER -> IF at + size > Length THEN "past its container" ELSE ""

NodeTypes == {ChunkType.START_NAMESPACE, ChunkType.END_NAMESPACE, ChunkType.START_ELEMENT, ChunkType.END_ELEMENT}
MinimumHeader(type) ==
  CASE type = ChunkType.STRING_POOL -> ResStringPool_header.sizeof
    [] type \in NodeTypes -> ResXMLTree_node.sizeof
    [] OTHER -> ResChunk_header.sizeof

-----------------------------------------------------------------------------
(* Chunks *)

Bad(why) == [why |-> why, units |-> <<>>]

\* A length takes one or two bytes in UTF-8 pools, one or two words in UTF-16
\* ones; UTF-8 strings have their length in characters first.
StringAt(at, utf8, end) ==
  IF utf8
  THEN IF ~Inside(at, 4) THEN Bad("outside")
       ELSE LET bytes == at + (IF Byte(at) >= 128 THEN 2 ELSE 1)
                long == Byte(bytes) >= 128
                length == IF long THEN 256 * (Byte(bytes) - 128) + Byte(bytes + 1) ELSE Byte(bytes)
                start == bytes + (IF long THEN 2 ELSE 1)
            IN  IF start + length > end THEN Bad("string past the pool")
                ELSE [why |-> "", units |-> [i \in 1..length |-> Byte(start + i - 1)]]
  ELSE IF ~Inside(at, 4) THEN Bad("outside")
       ELSE LET long == ToUInt16(at) >= 32768
                length == IF ~long THEN ToUInt16(at)
                          ELSE IF ToUInt16(at) > 32768 THEN FarAway ELSE ToUInt16(at + 2)
                start == at + (IF long THEN 4 ELSE 2)
            IN  IF start + 2 * length > end THEN Bad("string past the pool")
                ELSE [why |-> "", units |-> [i \in 1..length |-> ToUInt16(start + 2 * i - 2)]]

\* The strings in order, up to the first that cannot be read.
ReadStringPool(at, size) ==
  LET count == Field(at, ResStringPool_header.stringCount)
      utf8 == (Field(at, ResStringPool_header.flags) \div UTF8_FLAG) % 2 = 1
      start == at + Field(at, ResStringPool_header.stringsStart)
      offsets == at + Field(at, ResChunk_header.headerSize)
      string(i) == IF ~Inside(offsets + 4 * i - 4, 4) THEN Bad("outside")
                   ELSE StringAt(start + ToUInt32(offsets + 4 * i - 4), utf8, at + size)
      bad == {i \in 1..Min({count, Length}) : string(i).why # ""}
  IN  [why |-> IF bad = {} THEN "" ELSE string(Min(bad)).why,
       strings |-> IF bad = {} THEN [i \in 1..count |-> string(i).units] ELSE <<>>]

ReadResourceMap(at, size) ==
  LET first == at + Field(at, ResChunk_header.headerSize)
      count == (at + size - first) \div 4
  IN  [i \in 1..count |-> ToInt32(first + 4 * (i - 1))]

\* An index counts from the end when it is negative; outside the list it throws.
Listed(i) == i < Len(pool) /\ i >= -Len(pool)
AtIndex(i) == pool[IF i >= 0 THEN i + 1 ELSE Len(pool) + i + 1]

\* The resource id of a name is what the map has at its index.
ReadAttribute(at) ==
  LET name == Field(at, ResXMLTree_attribute.name)
      raw == Field(at, ResXMLTree_attribute.rawValue)
  IN  [name |-> AtIndex(name), ns |-> Field(at, ResXMLTree_attribute.ns) >= 0,
       id |-> IF name >= 0 /\ name < Len(ids) THEN ids[name + 1] ELSE 0,
       type |-> Byte(at + ResXMLTree_attribute.dataType[1]),
       value |-> IF raw >= 0 THEN AtIndex(raw)
                 ELSE LET data == at + ResXMLTree_attribute.data[1] IN <<ToUInt16(data), ToUInt16(data + 2)>>]

ReadElement(at, size) ==
  LET ext == at + ResXMLTree_node.sizeof
      start == Field(ext, ResXMLTree_attrExt.attributeStart)
      width == Field(ext, ResXMLTree_attrExt.attributeSize)
      count == Field(ext, ResXMLTree_attrExt.attributeCount)
      where(i) == ext + start + width * (i - 1)
      readable(i) == /\ Inside(where(i), ResXMLTree_attribute.sizeof)
                     /\ Listed(Field(where(i), ResXMLTree_attribute.name))
                     /\ LET raw == Field(where(i), ResXMLTree_attribute.rawValue) IN raw >= 0 => Listed(raw)
  IN  CASE ~Inside(ext, ResXMLTree_attrExt.sizeof) -> [why |-> "outside", element |-> <<>>]
        [] Inside(ext, ResXMLTree_attrExt.sizeof) /\ start + width * count > size - ResXMLTree_node.sizeof ->
             [why |-> "attributes past the node", element |-> <<>>]
        [] OTHER ->
             IF (\E i \in 1..count : ~readable(i)) \/ ~Listed(Field(ext, ResXMLTree_attrExt.name))
             THEN [why |-> "outside", element |-> <<>>]
             ELSE [why |-> "", element |-> [name |-> AtIndex(Field(ext, ResXMLTree_attrExt.name)), depth |-> depth + 1,
                                            attributes |-> [i \in 1..count |-> ReadAttribute(where(i))]]]

-----------------------------------------------------------------------------
(* Reading a document *)

NoDamage == [at |-> 0, value |-> 0, why |-> ""]

OtherWords(w) == Values16 \cup ({w - 4, w + 1, w + 4} \cap (0..65535))
AnyWord == UNION {{[at |-> i, value |-> v, why |-> ""] : v \in OtherWords(words[i])} : i \in 1..Len(words)}

\* Test-ManifestNegativeControls patches a copy of what was written; a file that
\* goes bad on the disk is the same to its reader.
Begin ==
  /\ verdict = "written" /\ verdict' = "reading"
  /\ damage' \in {NoDamage} \cup (IF doc \in Manifests THEN NegativeControls(words) ELSE {})
                    \cup (IF doc \in Corrupted THEN AnyWord ELSE {})
  /\ words' = IF damage'.at = 0 THEN words ELSE [words EXCEPT ![damage'.at] = damage'.value]
  /\ UNCHANGED doc /\ UNCHANGED progress

Reject(why) == verdict' = why /\ UNCHANGED <<doc, damage, words>> /\ UNCHANGED progress
At(type) == verdict = "reading" /\ cursor < Length /\ Inside(cursor, 8) /\ ToUInt16(cursor) = type
HeaderFault == Test_ResChunkHeader(cursor, MinimumHeader(ToUInt16(cursor)))
Advance == cursor' = cursor + Field(cursor, ResChunk_header.size)

\* The document's own header: an XML chunk as long as the file.
ReadDocument ==
  /\ verdict = "reading" /\ cursor = 0
  /\ LET why == Test_ResChunkHeader(0, 8)
     IN  IF why # "" THEN Reject(why)
         ELSE IF ToUInt16(0) # ChunkType.XML THEN Reject("not XML")
         ELSE IF Field(0, ResChunk_header.size) # Length THEN Reject("another length")
         ELSE /\ cursor' = Field(0, ResChunk_header.headerSize)
              /\ UNCHANGED <<doc, damage, words, depth, namespaces, pool, sawPool, ids, sawMap, elements, verdict>>

RejectHeader ==
  /\ verdict = "reading" /\ 0 < cursor /\ cursor < Length
  /\ IF ~Inside(cursor, 8) THEN Reject("past its container")
     ELSE HeaderFault # "" /\ Reject(HeaderFault)

ReadPool ==
  /\ At(ChunkType.STRING_POOL) /\ cursor > 0 /\ HeaderFault = ""
  /\ LET read == ReadStringPool(cursor, Field(cursor, ResChunk_header.size))
     IN  IF read.why # "" THEN Reject(read.why)
         ELSE /\ pool' = pool \o read.strings /\ sawPool' = TRUE /\ Advance
              /\ UNCHANGED <<doc, damage, words, depth, namespaces, ids, sawMap, elements, verdict>>

ReadMap ==
  /\ At(ChunkType.RESOURCE_MAP) /\ cursor > 0 /\ HeaderFault = ""
  /\ ids' = ids \o ReadResourceMap(cursor, Field(cursor, ResChunk_header.size)) /\ sawMap' = TRUE /\ Advance
  /\ UNCHANGED <<doc, damage, words, depth, namespaces, pool, sawPool, elements, verdict>>

ReadNamespace ==
  /\ \/ At(ChunkType.START_NAMESPACE) /\ namespaces' = namespaces + 1
     \/ At(ChunkType.END_NAMESPACE) /\ namespaces' = namespaces - 1
  /\ cursor > 0 /\ HeaderFault = "" /\ Advance
  /\ UNCHANGED <<doc, damage, words, depth, pool, sawPool, ids, sawMap, elements, verdict>>

ReadStart ==
  /\ At(ChunkType.START_ELEMENT) /\ cursor > 0 /\ HeaderFault = ""
  /\ LET read == ReadElement(cursor, Field(cursor, ResChunk_header.size))
     IN  IF read.why # "" THEN Reject(read.why)
         ELSE /\ depth' = depth + 1 /\ elements' = Append(elements, read.element) /\ Advance
              /\ UNCHANGED <<doc, damage, words, namespaces, pool, sawPool, ids, sawMap, verdict>>

ReadEnd ==
  /\ At(ChunkType.END_ELEMENT) /\ cursor > 0 /\ HeaderFault = ""
  /\ IF depth = 0 THEN Reject("closes too much")
     ELSE depth' = depth - 1 /\ Advance /\ UNCHANGED <<doc, damage, words, namespaces, pool, sawPool, ids, sawMap, elements, verdict>>

\* Any other chunk is passed over.
SkipChunk ==
  /\ verdict = "reading" /\ 0 < cursor /\ cursor < Length /\ Inside(cursor, 8)
  /\ ToUInt16(cursor) \notin NodeTypes \cup {ChunkType.STRING_POOL, ChunkType.RESOURCE_MAP} /\ HeaderFault = ""
  /\ Advance /\ UNCHANGED <<doc, damage, words, depth, namespaces, pool, sawPool, ids, sawMap, elements, verdict>>

\* Assert-ManifestAttributeIds: every android: attribute has the id its name is declared with.
WrongIds ==
  {i \in 1..Len(elements) : \E k \in 1..Len(elements[i].attributes) :
     LET a == elements[i].attributes[k]
     IN  a.ns /\ ~\E name \in DOMAIN PublicIds : Units[name] = a.name /\ PublicIds[name] = a.id}

Finish ==
  /\ verdict = "reading" /\ cursor >= Length
  /\ verdict' = CASE ~sawPool -> "no string pool"
                  [] sawPool /\ ~sawMap -> "no resource map"
                  [] sawPool /\ sawMap /\ depth # 0 -> "elements left open"
                  [] sawPool /\ sawMap /\ depth = 0 /\ namespaces # 0 -> "namespaces left open"
                  [] OTHER -> IF WrongIds # {} THEN "wrong resource id" ELSE "accepted"
  /\ UNCHANGED <<doc, damage, words>> /\ UNCHANGED progress

Init ==
  /\ doc \in DOMAIN Written /\ words = Written[doc].words /\ damage = NoDamage
  /\ cursor = 0 /\ depth = 0 /\ namespaces = 0 /\ pool = <<>> /\ sawPool = FALSE
  /\ ids = <<>> /\ sawMap = FALSE /\ elements = <<>> /\ verdict = "written"

Next ==
  \/ Begin \/ ReadDocument \/ RejectHeader \/ ReadPool \/ ReadMap \/ ReadNamespace
  \/ ReadStart \/ ReadEnd \/ SkipChunk \/ Finish

Spec == Init /\ [][Next]_vars

-----------------------------------------------------------------------------
(* The platform's lookup in the table *)

TableWord(at) == Table[at \div 2 + 1]
Table32(at) == <<TableWord(at), TableWord(at + 2)>>
TableInt(at) == TableWord(at) + 65536 * TableWord(at + 2)
TableField(at, field) == IF field[2] = 2 THEN TableWord(at + field[1]) ELSE TableInt(at + field[1])
TableByte(at) == IF at % 2 = 0 THEN TableWord(at) % 256 ELSE TableWord(at) \div 256

\* Where the chunks of a type begin between two offsets.
ChunksIn(from, to, type) ==
  LET starts[at \in 0..to] ==
        IF at >= to THEN {}
        ELSE (IF TableWord(at) = type THEN {at} ELSE {}) \cup starts[at + TableField(at, ResChunk_header.size)]
  IN  starts[from]
ChunkEnd(at) == at + TableField(at, ResChunk_header.size)
ChunkBody(at) == at + TableField(at, ResChunk_header.headerSize)

PoolString(at, i) ==
  LET start == at + TableField(at, ResStringPool_header.stringsStart)
                 + TableInt(ChunkBody(at) + 4 * i)
  IN  [k \in 1..TableWord(start) |-> TableWord(start + 2 * k)]

\* offset_from16 for a type chunk of short offsets, else 32 bits; -1 for NO_ENTRY.
EntryOffset(chunk, i) ==
  LET short == TableWord(ChunkBody(chunk) + 2 * i)
      long == Table32(ChunkBody(chunk) + 4 * i)
  IN  IF (TableByte(chunk + ResTable_type.flags[1]) \div FLAG_OFFSET16) % 2 = 1
      THEN IF short = 65535 THEN -1 ELSE 4 * short
      ELSE IF long = Max32 THEN -1 ELSE long[1] + 65536 * long[2]

\* ResTable_entry::key and value: a compact entry holds its value itself.
EntryValue(at) ==
  LET flags == TableField(at, ResTable_entry.flags)
      compact == (flags \div FLAG_COMPACT) % 2 = 1
      value == at + TableField(at, ResTable_entry.size)
  IN  IF compact
      THEN [key |-> TableField(at, ResTable_compact.key), type |-> flags \div 256,
            data |-> Table32(at + ResTable_compact.data[1])]
      ELSE [key |-> TableField(at, ResTable_entry.key), type |-> TableByte(value + Res_value.dataType[1]),
            data |-> Table32(value + Res_value.data[1])]

\* ResTable_config::match, as far as these configurations differ.
Matches(chunk, sdk) ==
  LET config == chunk + ResTable_type.sizeof
  IN  /\ TableField(config, ResTable_config.size) = ResTable_config.sizeof
      /\ TableField(config, ResTable_config.sdkVersion) <= sdk

\* Every value an id has on a device of an SDK version, with its key and density.
Values(id, sdk) ==
  LET packages == {p \in ChunksIn(ChunkBody(0), ChunkEnd(0), ChunkType.PACKAGE) :
                     TableField(p, ResTable_package.id) = Res_GETPACKAGE(id) + 1}
      types(p) == {c \in ChunksIn(ChunkBody(p), ChunkEnd(p), ChunkType.TYPE) :
                     /\ TableByte(c + ResTable_type.id[1]) = Res_GETTYPE(id) + 1
                     /\ Res_GETENTRY(id) < TableField(c, ResTable_type.entryCount)
                     /\ EntryOffset(c, Res_GETENTRY(id)) >= 0 /\ Matches(c, sdk)}
      found(p, c) ==
        LET entry == EntryValue(c + TableField(c, ResTable_type.entriesStart) + EntryOffset(c, Res_GETENTRY(id)))
        IN  [key |-> PoolString(p + TableField(p, ResTable_package.keyStrings), entry.key),
             kind |-> PoolString(p + TableField(p, ResTable_package.typeStrings), Res_GETTYPE(id)),
             density |-> TableField(c + ResTable_type.sizeof, ResTable_config.density),
             type |-> entry.type,
             value |-> IF entry.type = DataType.STRING THEN PoolString(ChunkBody(0), entry.data[1]) ELSE entry.data]
  IN  UNION {{found(p, c) : c \in types(p)} : p \in packages}

-----------------------------------------------------------------------------
(* Properties *)

CONSTANTS Expected     \* resource id -> [key, kind, density, type, value] it is meant to have

Undamaged == damage.at = 0
Opened == SelectSeq(Written[doc].tags, LAMBDA tag : tag[1] = "open")

\* A document read as it was written gives back its elements, every android:
\* attribute under the id its name is declared with, in the order of the ids,
\* which is how the platform looks them up, and each reference of this package
\* names a value of the table that a device of the least SDK finds, one only.
ReadsBack ==
  Undamaged =>
    /\ verdict \in {"written", "reading", "accepted"}
    /\ verdict = "accepted" =>
         /\ Len(elements) = Len(Opened)
         /\ \A i \in 1..Len(elements) :
              LET read == elements[i].attributes
                  android == {k \in 1..Len(read) : read[k].ns}
              IN  /\ elements[i].name = Units[Opened[i][2]]
                  /\ [k \in 1..Len(read) |-> read[k].name] = [k \in 1..Len(Opened[i][3]) |-> Units[Opened[i][3][k].name]]
                  /\ \A k, m \in android : k < m => read[k].id < read[m].id
                  /\ \A k \in android :
                       read[k].type = DataType.REFERENCE /\ read[k].value[2] \div 256 = 127 =>
                         LET id == read[k].value[1] + 65536 * read[k].value[2]
                         IN  id \in DOMAIN Expected /\ Values(id, 26) = {Expected[id]}

\* The damage of each negative control is found, and for its own reason.
ControlsAreRejected == damage.why # "" /\ verdict # "reading" => verdict = damage.why

\* Whatever one word of a document becomes, its reader goes forward in it: no
\* chunk it accepts lets it stay where it is or go back.
ReadingGoesForward == verdict = "reading" /\ verdict' = "reading" => cursor' > cursor
GoesForward == [][ReadingGoesForward]_vars

=============================================================================
