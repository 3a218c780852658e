---------------------------- MODULE MCResources ----------------------------
EXTENDS Integers, Sequences, SequencesExt, FiniteSetsExt, TLC

VARIABLES doc, damage, words, cursor, depth, namespaces, pool, sawPool, ids, sawMap, elements, verdict

Lists == INSTANCE ResourceFormat WITH Units <- <<>>, PublicIds <- <<>>
Names ==
  Lists!ManifestAttributes(TRUE) \o Lists!ManifestStrings
    \o <<"gravity", "height", "width", "drawable", "adaptive-icon", "background", "foreground", "layer-list", "item",
         "mipmap", "color", "icon path", "foreground path", "banner path",
         "ic_launcher", "ic_launcher_foreground", "ic_tv_banner", "ic_launcher_background">>
MCUnits ==
  LET units[i \in 0..Len(Names)] ==
        IF i = 0 THEN "none" :> <<0>> ELSE (Names[i] :> IF i % 2 = 0 THEN <<i>> ELSE <<i, i>>) @@ units[i - 1]
  IN  units[Len(Names)]

MCPublicIds ==
  ("theme" :> 16842752) @@ ("label" :> 16842753) @@ ("icon" :> 16842754) @@ ("name" :> 16842755) @@ ("hasCode" :> 16842764)
    @@ ("debuggable" :> 16842767) @@ ("exported" :> 16842768) @@ ("launchMode" :> 16842781) @@ ("value" :> 16842788)
    @@ ("gravity" :> 16842927) @@ ("height" :> 16843093) @@ ("width" :> 16843097) @@ ("drawable" :> 16843161)
    @@ ("minSdkVersion" :> 16843276) @@ ("versionCode" :> 16843291) @@ ("versionName" :> 16843292)
    @@ ("targetSdkVersion" :> 16843376) @@ ("allowBackup" :> 16843392) @@ ("required" :> 16843406) @@ ("banner" :> 16843762)
    @@ ("extractNativeLibs" :> 16844010) @@ ("compileSdkVersion" :> 16844146) @@ ("compileSdkVersionCodename" :> 16844147)

Format == INSTANCE ResourceFormat WITH Units <- MCUnits, PublicIds <- MCPublicIds
Background == <<11566, 65291>>
MCTable == Format!New_ResourceTable("package name", "icon path", "foreground path", "banner path", Background)
MCWritten ==
  ("adaptive icon" :> Format!New_LauncherDrawableAxml(2130771969, 2130837504, "AdaptiveIcon"))
    @@ ("banner" :> Format!New_LauncherDrawableAxml(2130771969, 2130837504, "TvBanner"))
    @@ ("manifest" :> Format!New_BinaryAxmlManifest(FALSE)) @@ ("debuggable manifest" :> Format!New_BinaryAxmlManifest(TRUE))

Resource(key, kind, density, type, value) ==
  [key |-> MCUnits[key], kind |-> MCUnits[kind], density |-> density, type |-> type, value |-> value]
MCExpected ==
  (2130771968 :> Resource("ic_launcher", "mipmap", 65534, 3, MCUnits["icon path"]))
    @@ (2130771969 :> Resource("ic_launcher_foreground", "mipmap", 65535, 3, MCUnits["foreground path"]))
    @@ (2130771970 :> Resource("ic_tv_banner", "mipmap", 65534, 3, MCUnits["banner path"]))
    @@ (2130837504 :> Resource("ic_launcher_background", "color", 0, 28, Background))

Reader == INSTANCE ResourceReader WITH
  Units <- MCUnits, PublicIds <- MCPublicIds, Written <- MCWritten, Table <- MCTable, Manifests <- {"manifest", "debuggable manifest"},
  Corrupted <- {"adaptive icon", "banner"}, Values16 <- {0, 4, 28, 16383, 65535}, Expected <- MCExpected
=============================================================================
