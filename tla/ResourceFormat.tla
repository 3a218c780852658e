--------------------------- MODULE ResourceFormat ---------------------------
(***************************************************************************)
(* Android's binary XML and resource table: the records of                 *)
(* lib/ResourceTypes.h, and the writers of setup.ps1, which place every    *)
(* field by counting.                                                      *)
(*                                                                         *)
(* A document is a sequence of 16-bit words, little-endian; a string is    *)
(* the sequence of its UTF-16 units.  A record is the sequence of its      *)
(* fields with their widths in bytes, unions by their widest member.       *)
(***************************************************************************)
EXTENDS Integers, Sequences, SequencesExt, FiniteSetsExt, TLC

CONSTANTS
  Units,       \* string -> its units
  PublicIds    \* attribute name -> its id in public-final.xml

-----------------------------------------------------------------------------
(* Records of ResourceTypes.h *)

\* A field is <<offset, width>>; the fields of a record the code extends are that record's.
ResChunk_header ==
  [sizeof |-> 8, type |-> <<0, 2>>, headerSize |-> <<2, 2>>, size |-> <<4, 4>>]

ChunkType ==
  [NULL |-> 0, STRING_POOL |-> 1, TABLE |-> 2, XML |-> 3,
   START_NAMESPACE |-> 256, END_NAMESPACE |-> 257, START_ELEMENT |-> 258, END_ELEMENT |-> 259,
   CDATA |-> 260, LAST_CHUNK |-> 383, RESOURCE_MAP |-> 384,
   PACKAGE |-> 512, TYPE |-> 513, TYPE_SPEC |-> 514, LIBRARY |-> 515,
   OVERLAYABLE |-> 516, OVERLAYABLE_POLICY |-> 517, STAGED_ALIAS |-> 518]

\* A resource id is package, type and entry: 0xpptteeee, the first two from 1.
Res_MAKEID(package, type, entry) == (package + 1) * 16777216 + (type + 1) * 65536 + entry
Res_GETPACKAGE(id) == (id \div 16777216) - 1
Res_GETTYPE(id) == ((id \div 65536) % 256) - 1
Res_GETENTRY(id) == id % 65536

Res_value ==
  [sizeof |-> 8, size |-> <<0, 2>>, res0 |-> <<2, 1>>, dataType |-> <<3, 1>>, data |-> <<4, 4>>]

DataType ==
  [NULL |-> 0, REFERENCE |-> 1, ATTRIBUTE |-> 2, STRING |-> 3, FLOAT |-> 4, DIMENSION |-> 5,
   FRACTION |-> 6, DYNAMIC_REFERENCE |-> 7, DYNAMIC_ATTRIBUTE |-> 8,
   INT_DEC |-> 16, INT_HEX |-> 17, INT_BOOLEAN |-> 18, INT_COLOR_ARGB8 |-> 28]

\* A complex value: the unit in the low 4 bits, the radix above, the mantissa from bit 8 on.
COMPLEX_UNIT_DIP == 1
COMPLEX_RADIX_23p0 == 0
ComplexMantissa(data) == data \div 256
ComplexRadix(data) == (data \div 16) % 4
ComplexUnit(data) == data % 16

ResStringPool_header ==
  [sizeof |-> 28, stringCount |-> <<8, 4>>, styleCount |-> <<12, 4>>, flags |-> <<16, 4>>,
   stringsStart |-> <<20, 4>>, stylesStart |-> <<24, 4>>]
UTF8_FLAG == 256

ResXMLTree_header == ResChunk_header
ResXMLTree_node ==
  [sizeof |-> 16, lineNumber |-> <<8, 4>>, comment |-> <<12, 4>>]
ResXMLTree_namespaceExt ==
  [sizeof |-> 8, prefix |-> <<0, 4>>, uri |-> <<4, 4>>]
ResXMLTree_endElementExt ==
  [sizeof |-> 8, ns |-> <<0, 4>>, name |-> <<4, 4>>]
ResXMLTree_attrExt ==
  [sizeof |-> 20, ns |-> <<0, 4>>, name |-> <<4, 4>>, attributeStart |-> <<8, 2>>,
   attributeSize |-> <<10, 2>>, attributeCount |-> <<12, 2>>, idIndex |-> <<14, 2>>,
   classIndex |-> <<16, 2>>, styleIndex |-> <<18, 2>>]
ResXMLTree_attribute ==
  [sizeof |-> 20, ns |-> <<0, 4>>, name |-> <<4, 4>>, rawValue |-> <<8, 4>>, size |-> <<12, 2>>,
   res0 |-> <<14, 1>>, dataType |-> <<15, 1>>, data |-> <<16, 4>>]

ResTable_header ==
  [sizeof |-> 12, packageCount |-> <<8, 4>>]
ResTable_package ==
  [sizeof |-> 288, id |-> <<8, 4>>, name |-> <<12, 256>>, typeStrings |-> <<268, 4>>,
   lastPublicType |-> <<272, 4>>, keyStrings |-> <<276, 4>>, lastPublicKey |-> <<280, 4>>,
   typeIdOffset |-> <<284, 4>>]
ResTable_config ==
  [sizeof |-> 64, size |-> <<0, 4>>, imsi |-> <<4, 4>>, locale |-> <<8, 4>>, orientation |-> <<12, 1>>,
   touchscreen |-> <<13, 1>>, density |-> <<14, 2>>, keyboard |-> <<16, 1>>, navigation |-> <<17, 1>>,
   inputFlags |-> <<18, 1>>, inputFieldPad0 |-> <<19, 1>>, screenWidth |-> <<20, 2>>,
   screenHeight |-> <<22, 2>>, sdkVersion |-> <<24, 2>>, minorVersion |-> <<26, 2>>,
   screenLayout |-> <<28, 1>>, uiMode |-> <<29, 1>>, smallestScreenWidthDp |-> <<30, 2>>,
   screenWidthDp |-> <<32, 2>>, screenHeightDp |-> <<34, 2>>, localeScript |-> <<36, 4>>,
   localeVariant |-> <<40, 8>>, screenLayout2 |-> <<48, 1>>, colorMode |-> <<49, 1>>,
   screenConfigPad2 |-> <<50, 2>>, localeScriptWasComputed |-> <<52, 1>>,
   localeNumberingSystem |-> <<53, 8>>, padding |-> <<61, 3>>]
ResTable_typeSpec ==
  [sizeof |-> 16, id |-> <<8, 1>>, res0 |-> <<9, 1>>, typesCount |-> <<10, 2>>, entryCount |-> <<12, 4>>]
ResTable_type ==
  [sizeof |-> 20, id |-> <<8, 1>>, flags |-> <<9, 1>>, reserved |-> <<10, 2>>, entryCount |-> <<12, 4>>,
   entriesStart |-> <<16, 4>>]
FLAG_OFFSET16 == 2
ResTable_entry ==
  [sizeof |-> 8, size |-> <<0, 2>>, flags |-> <<2, 2>>, key |-> <<4, 4>>]
ResTable_compact ==
  [sizeof |-> 8, key |-> <<0, 2>>, flags |-> <<2, 2>>, data |-> <<4, 4>>]
FLAG_COMPLEX == 1
FLAG_COMPACT == 8

-----------------------------------------------------------------------------
(* The writers: a BinaryWriter's values as words *)

U16(x) == <<x>>
U32(x) == <<x % 65536, x \div 65536>>
Max32 == <<65535, 65535>>               \* -1, and no entry
Bytes(low, high) == <<low + 256 * high>>
Zeros(n) == [i \in 1..n |-> 0]
SizeInBytes(words) == 2 * Len(words)

\* Mutation: the offsets count units.
PoolData_InUnits(strings) ==
  LET pool[i \in 0..Len(strings)] ==
        IF i = 0 THEN [offsets |-> <<>>, data |-> <<>>]
        ELSE LET before == pool[i - 1]
             IN  [offsets |-> before.offsets \o U32(Len(before.data)),
                  data |-> before.data \o U16(Len(strings[i])) \o strings[i] \o U16(0)]
  IN  pool[Len(strings)]

\* The offset of each string, and the data: length, units, terminator.
PoolData(strings) ==
  LET pool[i \in 0..Len(strings)] ==
        IF i = 0 THEN [offsets |-> <<>>, data |-> <<>>]
        ELSE LET before == pool[i - 1]
             IN  [offsets |-> before.offsets \o U32(SizeInBytes(before.data)),
                  data |-> before.data \o U16(Len(strings[i])) \o strings[i] \o U16(0)]
  IN  pool[Len(strings)]

New_ResStringPool(strings) ==
  LET pool == PoolData(strings)
      data == IF Len(pool.data) % 2 = 0 THEN pool.data ELSE Append(pool.data, 0)
      stringsStart == 28 + 4 * Len(strings)
  IN  U16(1) \o U16(28) \o U32(stringsStart + SizeInBytes(data)) \o U32(Len(strings))
        \o U32(0) \o U32(0) \o U32(stringsStart) \o U32(0) \o pool.offsets \o data

ResourceMap(ids) ==
  U16(384) \o U16(8) \o U32(8 + 4 * Len(ids)) \o FlattenSeq([i \in 1..Len(ids) |-> U32(ids[i])])

\* The index a string was given; a later one of the same text wins.
S(strings, s) == Max({i \in 1..Len(strings) : strings[i] = s}) - 1

NamespaceNode(strings, type, prefix, uri) ==
  U16(type) \o U16(16) \o U32(24) \o U32(1) \o Max32 \o U32(S(strings, prefix)) \o U32(S(strings, uri))

EndElement(strings, name) ==
  U16(259) \o U16(16) \o U32(24) \o U32(1) \o Max32 \o Max32 \o U32(S(strings, name))

\* An attribute is [name, ns, raw, type, data]; raw is a string, or "" for none.
Attribute(strings, android, a) ==
  (IF a.ns THEN U32(S(strings, android)) ELSE Max32) \o U32(S(strings, a.name))
    \o (IF a.raw = "" THEN Max32 ELSE U32(S(strings, a.raw)))
    \o U16(8) \o Bytes(0, a.type) \o (IF a.raw = "" THEN a.data ELSE U32(S(strings, a.raw)))

StartElement(strings, android, name, attributes) ==
  U16(258) \o U16(16) \o U32(36 + 20 * Len(attributes)) \o U32(1) \o Max32
    \o Max32 \o U32(S(strings, name)) \o U16(20) \o U16(20) \o U16(Len(attributes))
    \o U16(0) \o U16(0) \o U16(0)
    \o FlattenSeq([i \in 1..Len(attributes) |-> Attribute(strings, android, attributes[i])])

\* A tree is the sequence of its tags: <<"open", name, attributes>> and <<"close", name>>.
Document(strings, android, ids, tags) ==
  LET pool == New_ResStringPool([i \in 1..Len(strings) |-> Units[strings[i]]])
      node(tag) == IF tag[1] = "open" THEN StartElement(strings, android, tag[2], tag[3])
                   ELSE EndElement(strings, tag[2])
      tree == NamespaceNode(strings, 256, "android", android)
                \o FlattenSeq([i \in 1..Len(tags) |-> node(tags[i])])
                \o NamespaceNode(strings, 257, "android", android)
      body == pool \o ResourceMap(ids) \o tree
  IN  U16(3) \o U16(8) \o U32(8 + SizeInBytes(body)) \o body

AttrRef(name, id) == [name |-> name, ns |-> TRUE, raw |-> "", type |-> 1, data |-> U32(id)]
AttrString(name, s) == [name |-> name, ns |-> TRUE, raw |-> s, type |-> 3, data |-> <<>>]
AttrIntDec(name, n) == [name |-> name, ns |-> TRUE, raw |-> "", type |-> 16, data |-> U32(n)]
AttrDip(name, n) == [name |-> name, ns |-> TRUE, raw |-> "", type |-> 5, data |-> U32(n * 256 + 1)]
AttrBool(name, b) == [name |-> name, ns |-> TRUE, raw |-> "", type |-> 18, data |-> IF b THEN Max32 ELSE U32(0)]
Plain(a) == [a EXCEPT !.ns = FALSE]
AndroidUri == "http://schemas.android.com/apk/res/android"

New_LauncherDrawableAxml(foreground, background, kind) ==
  LET tv == kind = "TvBanner"
      names == IF tv THEN <<"gravity", "height", "width", "drawable">> ELSE <<"drawable">>
      strings == names \o <<"adaptive-icon", "background", "foreground", "android", AndroidUri, "layer-list", "item">>
      ids == [i \in 1..Len(names) |-> CASE names[i] = "gravity" -> 16842927 [] names[i] = "height" -> 16843093
                                        [] names[i] = "width" -> 16843097 [] names[i] = "drawable" -> 16843161]
      banner == <<<<"open", "layer-list", <<>>>>,
                  <<"open", "item", <<AttrDip("height", 180), AttrDip("width", 320), AttrRef("drawable", background)>>>>, <<"close", "item">>,
                  <<"open", "item", <<AttrIntDec("gravity", 17), AttrDip("height", 144), AttrDip("width", 144), AttrRef("drawable", foreground)>>>>,
                  <<"close", "item">>, <<"close", "layer-list">>>>
      icon == <<<<"open", "adaptive-icon", <<>>>>,
                <<"open", "background", <<AttrRef("drawable", background)>>>>, <<"close", "background">>,
                <<"open", "foreground", <<AttrRef("drawable", foreground)>>>>, <<"close", "foreground">>,
                <<"close", "adaptive-icon">>>>
      tags == IF tv THEN banner ELSE icon
  IN  [words |-> Document(strings, AndroidUri, ids, tags), tags |-> tags]

\* The permissions are written before the leanback feature and once more after it.
Permissions ==
  <<"INTERNET", "ACCESS_NETWORK_STATE", "WAKE_LOCK", "POST_NOTIFICATIONS", "FOREGROUND_SERVICE", "REQUEST_INSTALL_PACKAGES">>
Element(name, attributes) == <<<<"open", name, attributes>>, <<"close", name>>>>
Uses == FlattenSeq([i \in 1..Len(Permissions) |-> Element("uses-permission", <<AttrString("name", Permissions[i])>>)])

\* The names of the attributes come first, in the order of their ids; hasCode
\* and debuggable are added at their end.
ManifestAttributes(debuggable) ==
  <<"theme", "label", "icon", "name", "exported", "authorities", "initOrder", "launchMode", "value", "resource",
    "minSdkVersion", "versionCode", "versionName", "targetSdkVersion", "allowBackup", "required", "banner",
    "extractNativeLibs", "compileSdkVersion", "compileSdkVersionCodename", "hasCode">>
    \o (IF debuggable THEN <<"debuggable">> ELSE <<>>)

ManifestIds(debuggable) ==
  <<16842752, 16842753, 16842754, 16842755, 16842768, 16842776, 16842778, 16842781, 16842788, 16842789, 16843276,
    16843291, 16843292, 16843376, 16843392, 16843406, 16843762, 16844010, 16844146, 16844147, 16842764>>
    \o (IF debuggable THEN <<16842767>> ELSE <<>>)

ManifestStrings ==
  Permissions \o
  <<"uses-permission", "1.0-preview", "17", "Pwsh", "action", "activity", "android", "android.app.Application",
    "touchscreen", "MAIN", "LAUNCHER", "LEANBACK_LAUNCHER", "leanback", "application", "base", "category",
    "fused.modules", "splits", "package name", "activity name", AndroidUri, "intent-filter",
    "manifest", "meta-data", "package", "platformBuildVersionCode", "platformBuildVersionName",
    "uses-feature", "uses-sdk", "android.app.lib_name", "pwsh-host">>

New_BinaryAxmlManifest(debuggable) ==
  LET flags == <<AttrBool("hasCode", TRUE)>> \o (IF debuggable THEN <<AttrBool("debuggable", TRUE)>> ELSE <<>>)
      tags ==
        <<<<"open", "manifest",
            <<AttrIntDec("versionCode", 1), AttrString("versionName", "1.0-preview"), AttrIntDec("compileSdkVersion", 37),
              AttrString("compileSdkVersionCodename", "17"), Plain(AttrString("package", "package name")),
              Plain(AttrIntDec("platformBuildVersionCode", 37)), Plain(AttrString("platformBuildVersionName", "17"))>>>>>>
        \o Element("uses-sdk", <<AttrIntDec("minSdkVersion", 26), AttrIntDec("targetSdkVersion", 37)>>) \o Uses
        \o Element("uses-feature", <<AttrString("name", "leanback"), AttrBool("required", FALSE)>>) \o Uses
        \o Element("uses-feature", <<AttrString("name", "touchscreen"), AttrBool("required", FALSE)>>)
        \o <<<<"open", "application",
               <<AttrString("label", "Pwsh"), AttrRef("icon", 2130771968), AttrString("name", "android.app.Application")>> \o flags
                 \o <<AttrBool("allowBackup", TRUE), AttrRef("banner", 2130771970), AttrBool("extractNativeLibs", TRUE)>>>>,
             <<"open", "activity",
               <<AttrRef("theme", 16974382), AttrString("label", "Pwsh"), AttrRef("icon", 2130771968), AttrString("name", "activity name"),
                 AttrBool("exported", TRUE), AttrIntDec("launchMode", 1), AttrRef("banner", 2130771970)>>>>,
             <<"open", "intent-filter", <<>>>>>>
        \o Element("action", <<AttrString("name", "MAIN")>>) \o Element("category", <<AttrString("name", "LAUNCHER")>>)
        \o Element("category", <<AttrString("name", "LEANBACK_LAUNCHER")>>) \o <<<<"close", "intent-filter">>>>
        \o Element("meta-data", <<AttrString("name", "android.app.lib_name"), AttrString("value", "pwsh-host")>>)
        \o <<<<"close", "activity">>>>
        \o Element("meta-data", <<AttrString("name", "fused.modules"), AttrString("value", "base")>>)
        \o <<<<"close", "application">>, <<"close", "manifest">>>>
  IN  [words |-> Document(ManifestAttributes(debuggable) \o ManifestStrings, AndroidUri, ManifestIds(debuggable), tags),
       tags |-> tags]

-----------------------------------------------------------------------------
(* The resource table: one package, three mipmaps and a color *)

TypeSpec(id, entries) ==
  U16(514) \o U16(16) \o U32(16 + 4 * entries) \o Bytes(id, 0) \o U16(0) \o U32(entries) \o Zeros(2 * entries)

\* A 64-byte configuration with only a density and an SDK version.
Config(density, sdk) == U32(64) \o Zeros(5) \o U16(density) \o Zeros(4) \o U16(sdk) \o Zeros(19)

Entry(key, type, data) == U16(8) \o U16(0) \o U32(key) \o U16(8) \o Bytes(0, type) \o data

\* One entry of three; the others are NO_ENTRY.
New_IconTypeChunk(index, density, sdk) ==
  U16(513) \o U16(84) \o U32(96 + 16) \o Bytes(1, 0) \o U16(0) \o U32(3) \o U32(96) \o Config(density, sdk)
    \o FlattenSeq([i \in 1..3 |-> IF i - 1 = index THEN U32(0) ELSE Max32])
    \o Entry(index, 3, U32(index))

ColorTypeChunk(color) ==
  U16(513) \o U16(84) \o U32(88 + 16) \o Bytes(2, 0) \o U16(0) \o U32(1) \o U32(88) \o Config(0, 0)
    \o U32(0) \o Entry(3, 28, color)

New_ResourceTable(name, icon, foreground, banner, color) ==
  LET values == New_ResStringPool(<<Units[icon], Units[foreground], Units[banner]>>)
      types == New_ResStringPool(<<Units["mipmap"], Units["color"]>>)
      keys == New_ResStringPool(<<Units["ic_launcher"], Units["ic_launcher_foreground"], Units["ic_tv_banner"],
                                  Units["ic_launcher_background"]>>)
      chunks == TypeSpec(1, 3) \o New_IconTypeChunk(0, 65534, 26) \o New_IconTypeChunk(1, 65535, 0)
                  \o New_IconTypeChunk(2, 65534, 26) \o TypeSpec(2, 1) \o ColorTypeChunk(color)
      package ==
        U16(512) \o U16(288) \o U32(288 + SizeInBytes(types \o keys \o chunks)) \o U32(127)
          \o Units[name] \o Zeros(128 - Len(Units[name]))
          \o U32(288) \o U32(2) \o U32(288 + SizeInBytes(types)) \o U32(4) \o U32(0)
          \o types \o keys \o chunks
  IN  U16(2) \o U16(12) \o U32(12 + SizeInBytes(values \o package)) \o U32(1) \o values \o package

-----------------------------------------------------------------------------
(* The damage the build does to a manifest, to see its reader find it *)

\* Get-AxmlChunkOffset: where the first chunk of a type begins, and the last chunk.
ChunkStarts(words) ==
  LET starts[at \in 0..2 * Len(words)] ==
        IF at >= 2 * Len(words) THEN {} ELSE {at} \cup starts[at + words[at \div 2 + 3] + 65536 * words[at \div 2 + 4]]
  IN  starts[words[2]]
Get_AxmlChunkOffset(words, type) == Min({at \in ChunkStarts(words) : words[at \div 2 + 1] = type})

\* Test-ManifestNegativeControls: each breaks one rule.
NegativeControls(words) ==
  LET chunk(type) == Get_AxmlChunkOffset(words, type) \div 2
      pl == chunk(ChunkType.STRING_POOL)
      map == chunk(ChunkType.RESOURCE_MAP)
      last == Max(ChunkStarts(words)) \div 2
      hasCode == CHOOSE i \in map + 5..map + words[map + 3] \div 2 : words[i] = 12 /\ words[i + 1] = 257
      first == pl + (words[pl + 11] + words[pl + 15]) \div 2
      damaged(at, value, why) == [at |-> at, value |-> value, why |-> why]
  IN  {damaged(pl + 3, words[pl + 3] - 2, "misaligned"), damaged(pl + 2, 30, "misaligned"),
       damaged(pl + 2, 24, "header below minimum"),
       damaged(chunk(ChunkType.END_ELEMENT) + 2, 28, "header larger than chunk"),
       damaged(last + 3, words[last + 3] + 4, "past its container"),
       damaged(chunk(ChunkType.START_ELEMENT) + 8 + 7, 60, "attributes past the node"),
       damaged(first + 1, 32767, "string past the pool"),
       damaged(hasCode, 3, "wrong resource id")}

=============================================================================
