--------------------------- MODULE NativeHostProofs ---------------------------
(***************************************************************************)
(* What is proved of NativeHost, for any activities, windows and assembly  *)
(* table, on targets of 32 and 64 bits: whatever call of the VM, of the    *)
(* runtime or of Android fails, callbacks return with nothing held, a      *)
(* window goes with its surface, and PowerShell is started once, with the  *)
(* structures read where the headers put them.                             *)
(***************************************************************************)
EXTENDS NativeHost, WellFoundedInduction, SequenceTheorems, TLAPS

-----------------------------------------------------------------------------
(* The headers' places *)

LEMMA ActivityMembers ==
  /\ Len(ANativeActivity) = 10
  /\ \A i \in 1..10 : ANativeActivity[i].type = IF i = 7 THEN "int32_t" ELSE "pointer"
  /\ \A i, j \in 1..10 : ANativeActivity[i].name = ANativeActivity[j].name => i = j
  /\ ANativeActivity[3].name = "env" /\ ANativeActivity[4].name = "clazz"
  /\ ANativeActivity[5].name = "internalDataPath"
<1>1. Len(ANativeActivity) = 10
  BY DEF ANativeActivity
<1>2. \A i \in 1..10 : i \in {1, 2, 3, 4, 5, 6, 7, 8, 9, 10}
  OBVIOUS
<1>3. ASSUME NEW i \in 1..10 PROVE ANativeActivity[i].type = IF i = 7 THEN "int32_t" ELSE "pointer"
  BY <1>2 DEF ANativeActivity, Member
<1>4. /\ ANativeActivity[1].name = "callbacks" /\ ANativeActivity[2].name = "vm" /\ ANativeActivity[3].name = "env"
      /\ ANativeActivity[4].name = "clazz" /\ ANativeActivity[5].name = "internalDataPath"
      /\ ANativeActivity[6].name = "externalDataPath" /\ ANativeActivity[7].name = "sdkVersion"
      /\ ANativeActivity[8].name = "instance" /\ ANativeActivity[9].name = "assetManager"
      /\ ANativeActivity[10].name = "obbPath"
  BY DEF ANativeActivity, Member
<1>5. ASSUME NEW i \in 1..10, NEW j \in 1..10, ANativeActivity[i].name = ANativeActivity[j].name PROVE i = j
  BY <1>2, <1>4, <1>5
<1> QED BY <1>1, <1>3, <1>4, <1>5

\* Every member is a pointer but one, which is followed by padding where a
\* pointer is wider: member i is at (i - 1) pointers.
LEMMA OffsetsArePointers ==
  ASSUME NEW p \in {4, 8}
  PROVE FieldOffsets(p) = [i \in 1..10 |-> (i - 1) * p]
<1> DEFINE size(i) == SizeOf(ANativeActivity[i].type, p)
           Laid(f) == f = [i \in 1..Len(ANativeActivity) |->
              IF i = 1 THEN 0 ELSE ((f[i - 1] + size(i - 1) + size(i) - 1) \div size(i)) * size(i)]
           places == [i \in 1..10 |-> (i - 1) * p]
<1>1. FieldOffsets(p) = CHOOSE f : Laid(f)
  BY DEF FieldOffsets
<1>2. \A i \in 1..10 : size(i) = IF i = 7 THEN 4 ELSE p
  BY ActivityMembers DEF SizeOf
<1> HIDE DEF size
<1>3. \A i \in 2..10 : (((i - 2) * p + size(i - 1) + size(i) - 1) \div size(i)) * size(i) = (i - 1) * p
  <2> SUFFICES ASSUME NEW i \in 2..10
               PROVE (((i - 2) * p + size(i - 1) + size(i) - 1) \div size(i)) * size(i) = (i - 1) * p
    OBVIOUS
  <2>1. i \in {2, 3, 4, 5, 6, 7, 8, 9, 10} /\ p \in {4, 8}
    OBVIOUS
  <2> QED BY <1>2, <2>1
<1>4. Laid(places)
  <2>1. ASSUME NEW i \in 1..10
        PROVE places[i] = IF i = 1 THEN 0
                          ELSE ((places[i - 1] + size(i - 1) + size(i) - 1) \div size(i)) * size(i)
    <3>1. CASE i = 1
      BY <3>1
    <3>2. CASE i # 1
      <4>1. i \in 2..10 /\ places[i - 1] = (i - 2) * p /\ places[i] = (i - 1) * p
        BY <3>2
      <4> QED BY <1>3, <3>2, <4>1
    <3> QED BY <3>1, <3>2
  <2> QED BY <2>1, ActivityMembers
<1>5. ASSUME NEW f, Laid(f) PROVE f = places
  <2>1. /\ f = [i \in 1..10 |-> f[i]] /\ f[1] = 0
        /\ \A i \in 2..10 : f[i] = ((f[i - 1] + size(i - 1) + size(i) - 1) \div size(i)) * size(i)
    BY <1>5, ActivityMembers
  <2>2. \A i \in 2..10 : f[i - 1] = (i - 2) * p => f[i] = (i - 1) * p
    BY <1>3, <2>1
  <2>3. f[1] = 0 * p /\ f[2] = 1 * p /\ f[3] = 2 * p /\ f[4] = 3 * p /\ f[5] = 4 * p
    BY <2>1, <2>2
  <2>4. f[6] = 5 * p /\ f[7] = 6 * p /\ f[8] = 7 * p /\ f[9] = 8 * p /\ f[10] = 9 * p
    BY <2>2, <2>3
  <2>5. \A i \in 1..10 : f[i] = (i - 1) * p
    BY <2>3, <2>4
  <2> QED BY <2>1, <2>5
<1> QED BY <1>1, <1>4, <1>5

LEMMA FieldOffset ==
  ASSUME NEW p \in {4, 8}, NEW i \in 1..10
  PROVE Get_NativeActivityFieldOffset(ANativeActivity[i].name, p) = (i - 1) * p
<1>1. (CHOOSE j \in 1..Len(ANativeActivity) : ANativeActivity[j].name = ANativeActivity[i].name) = i
  BY ActivityMembers
<1> QED BY <1>1, OffsetsArePointers DEF Get_NativeActivityFieldOffset

\* What the code reads of the activity.
LEMMA ReadsFields ==
  ASSUME ps \in {4, 8}
  PROVE /\ Read(2 * ps) = "env" /\ Read(3 * ps) = "clazz"
        /\ Read(InternalDataPath(ps)) = "internalDataPath"
<1>1. ASSUME NEW k \in 1..10 PROVE Read((k - 1) * ps) = ANativeActivity[k].name
  <2> DEFINE fields == {f \in ToSet(ANativeActivity) : Get_NativeActivityFieldOffset(f.name, ps) = (k - 1) * ps}
  <2>1. ToSet(ANativeActivity) = {ANativeActivity[i] : i \in 1..10}
    BY ActivityMembers DEF ToSet, ANativeActivity
  <2>2. \A i \in 1..10 : (i - 1) * ps = (k - 1) * ps => i = k
    <3>1. CASE ps = 4
      BY <3>1
    <3>2. CASE ps = 8
      BY <3>2
    <3> QED BY <3>1, <3>2
  <2>3. fields = {ANativeActivity[k]}
    BY <2>1, <2>2, FieldOffset
  <2> QED BY <2>3 DEF Read
<1>2. InternalDataPath(ps) = 4 * ps
  <2>1. Get_NativeActivityFieldOffset("internalDataPath", ps) = 4 * ps
    BY FieldOffset, ActivityMembers
  <2> QED BY <2>1 DEF InternalDataPath
<1>3. Read(2 * ps) = "env"
  <2>1. Read((3 - 1) * ps) = "env"
    BY <1>1, ActivityMembers
  <2> QED BY <2>1
<1>4. Read(3 * ps) = "clazz"
  <2>1. Read((4 - 1) * ps) = "clazz"
    BY <1>1, ActivityMembers
  <2> QED BY <2>1
<1>5. Read(4 * ps) = "internalDataPath"
  <2>1. Read((5 - 1) * ps) = "internalDataPath"
    BY <1>1, ActivityMembers
  <2> QED BY <2>1
<1> QED BY <1>2, <1>3, <1>4, <1>5

\* CoreCLR finds the probe where the header has it.
LEMMA ContractHasProbe ==
  ASSUME ps \in {4, 8}
  PROVE Contract(ps)[(Place("external_assembly_probe", host_runtime_contract) - 1) * ps]
          = <<"pwsh_assembly_probe", 0>>
<1>1. Place("external_assembly_probe", host_runtime_contract) = 6 /\ Place("size", host_runtime_contract) = 1
      /\ Len(host_runtime_contract) = 7
  BY DEF Place, host_runtime_contract
<1>2. host_runtime_contract[6] = "external_assembly_probe" /\ host_runtime_contract[1] = "size"
  BY DEF host_runtime_contract
<1>3. "size" \in ToSet(host_runtime_contract) /\ "external_assembly_probe" \in ToSet(host_runtime_contract)
  BY <1>1, <1>2 DEF ToSet, host_runtime_contract
<1>4. /\ Get_HostRuntimeContractLayout(ps)["size"] = 0
      /\ Get_HostRuntimeContractLayout(ps)["external_assembly_probe"] = 5 * ps
  BY <1>1, <1>3 DEF Get_HostRuntimeContractLayout
<1>5. 5 * ps \in {(i - 1) * ps : i \in 1..Len(host_runtime_contract)}
  BY <1>1
<1> QED BY <1>1, <1>4, <1>5 DEF Contract

LEMMA Slots ==
  /\ Slot("onNativeWindowCreated") = 7 /\ Slot("onNativeWindowResized") = 8
  /\ Slot("onNativeWindowRedrawNeeded") = 9 /\ Slot("onNativeWindowDestroyed") = 10
<1>1. Place("onNativeWindowCreated", ANativeActivityCallbacks) = 8
  BY DEF Place, ANativeActivityCallbacks
<1>2. Place("onNativeWindowResized", ANativeActivityCallbacks) = 9
  BY DEF Place, ANativeActivityCallbacks
<1>3. Place("onNativeWindowRedrawNeeded", ANativeActivityCallbacks) = 10
  BY DEF Place, ANativeActivityCallbacks
<1>4. Place("onNativeWindowDestroyed", ANativeActivityCallbacks) = 11
  BY DEF Place, ANativeActivityCallbacks
<1> QED BY <1>1, <1>2, <1>3, <1>4 DEF Slot

LEMMA ErrorPriority == Get_AndroidLogPriority("ERROR") = 6
<1>1. Place("ERROR", android_LogPriority) = 7
  BY DEF Place, android_LogPriority
<1> QED BY <1>1 DEF Get_AndroidLogPriority

-----------------------------------------------------------------------------
(* The probe *)

LEMMA FirstOfNaturals ==
  ASSUME NEW S \in SUBSET Nat, S # {}
  PROVE \E n \in S : \A m \in S : n <= m
<1>1. PICK n \in S : \A m \in S : <<m, n>> \notin OpToRel(<, Nat)
  BY NatLessThanWellFounded, WFMin
<1>2. \A m \in S : ~(m < n)
  BY <1>1 DEF OpToRel
<1> QED BY <1>2

\* Three words for each assembly, and the end.
LEMMA TableWords ==
  ASSUME HostHypotheses
  PROVE /\ \A i \in 1..Len(StoreEntries) :
             /\ ProbeTable[3 * (i - 1) + 1] = StoreEntries[i].name
             /\ ProbeTable[3 * (i - 1) + 2] = StoreEntries[i].offset
             /\ ProbeTable[3 * (i - 1) + 3] = StoreEntries[i].size
        /\ ProbeTable[3 * Len(StoreEntries) + 1] = End
<1>1. Len(StoreEntries) \in Nat
  BY DEF HostHypotheses
<1>2. ASSUME NEW i \in 1..Len(StoreEntries), NEW k \in 1..3
      PROVE ProbeTable[3 * (i - 1) + k]
              = <<StoreEntries[i].name, StoreEntries[i].offset, StoreEntries[i].size>>[k]
  <2> DEFINE word == 3 * (i - 1) + k
  <2>1. word \in 1..(3 * Len(StoreEntries)) /\ (word - 1) \div 3 = i - 1 /\ (word - 1) % 3 = k - 1
    BY <1>1
  <2>2. word \in 1..(3 * Len(StoreEntries) + 1) /\ ~(word > 3 * Len(StoreEntries))
    BY <1>1, <2>1
  <2> HIDE DEF word
  <2>3. ProbeTable[word] = LET entry == StoreEntries[((word - 1) \div 3) + 1]
                           IN  <<entry.name, entry.offset, entry.size>>[((word - 1) % 3) + 1]
    BY <2>2 DEF ProbeTable
  <2>4. ((word - 1) \div 3) + 1 = i /\ ((word - 1) % 3) + 1 = k
    BY <2>1
  <2> QED BY <2>3, <2>4 DEF word
<1>3. ProbeTable[3 * Len(StoreEntries) + 1] = End
  BY <1>1 DEF ProbeTable
<1>4. ASSUME NEW i \in 1..Len(StoreEntries)
      PROVE /\ ProbeTable[3 * (i - 1) + 1] = StoreEntries[i].name
            /\ ProbeTable[3 * (i - 1) + 2] = StoreEntries[i].offset
            /\ ProbeTable[3 * (i - 1) + 3] = StoreEntries[i].size
  BY <1>2
<1> QED BY <1>3, <1>4

\* The walk stops at the first assembly of the name, if there is one.
LEMMA ProbeFinds ==
  ASSUME HostHypotheses, NEW path, path # End
  PROVE LET stored == {i \in 1..Len(StoreEntries) : StoreEntries[i].name = path}
            entry == StoreEntries[CHOOSE i \in stored : \A j \in stored : i <= j]
        IN  pwsh_assembly_probe(path)
              = IF stored = {} THEN [found |-> FALSE, start |-> Garbage, size |-> <<Garbage, Garbage>>]
                ELSE [found |-> TRUE, start |-> entry.offset, size |-> <<entry.size, 0>>]
<1> DEFINE n == Len(StoreEntries)
           stored == {i \in 1..n : StoreEntries[i].name = path}
           halts == {k \in 0..n : ProbeTable[3 * k + 1] \in {path, End}}
           stops == {3 * k + 1 : k \in halts}
           cursor == CHOOSE c \in stops : \A d \in stops : c <= d
<1>1. n \in Nat /\ \A i \in 1..n : StoreEntries[i].name # End
  <2> DEFINE Entry == [name : STRING \ {End}, offset : Nat, size : Nat]
  <2>1. \A e \in Entry : e.name # End
    OBVIOUS
  <2> HIDE DEF Entry
  <2>2. StoreEntries \in Seq(Entry)
    BY DEF HostHypotheses, Entry
  <2> QED BY <2>1, <2>2
<1>2. \A k \in 0..n : ProbeTable[3 * k + 1] = IF k = n THEN End ELSE StoreEntries[k + 1].name
  <2> SUFFICES ASSUME NEW k \in 0..n, k # n PROVE ProbeTable[3 * k + 1] = StoreEntries[k + 1].name
    BY TableWords
  <2>1. k + 1 \in 1..n /\ 3 * ((k + 1) - 1) + 1 = 3 * k + 1
    BY <1>1
  <2> QED BY <2>1, TableWords
<1>3. \A k \in 0..n : k \in halts <=> k = n \/ k + 1 \in stored
  <2> SUFFICES ASSUME NEW k \in 0..n PROVE k \in halts <=> k = n \/ k + 1 \in stored
    OBVIOUS
  <2>1. CASE k = n
    BY <1>2, <2>1
  <2>2. CASE k # n
    <3>1. k + 1 \in 1..n
      BY <1>1, <2>2
    <3> QED BY <1>1, <1>2, <2>2, <3>1
  <2> QED BY <2>1, <2>2
<1>4. PICK k \in halts : \A l \in halts : k <= l
  <2>1. n \in halts /\ halts \subseteq Nat
    BY <1>1, <1>3
  <2> HIDE DEF halts
  <2> QED BY <2>1, FirstOfNaturals
<1>5. k \in 0..n
  OBVIOUS
<1>6. cursor = 3 * k + 1
  <2>1. 3 * k + 1 \in stops /\ \A c \in stops : 3 * k + 1 <= c
    BY <1>4, <1>5
  <2>2. \A c \in stops : c \in Nat
    BY <1>1
  <2>3. 3 * k + 1 \in Nat
    BY <1>5
  <2> HIDE DEF stops
  <2>4. \A c \in stops : (\A d \in stops : c <= d) => c = 3 * k + 1
    BY <2>1, <2>2, <2>3
  <2> QED BY <2>1, <2>4
<1>7. pwsh_assembly_probe(path)
        = IF ProbeTable[cursor] = End THEN [found |-> FALSE, start |-> Garbage, size |-> <<Garbage, Garbage>>]
          ELSE [found |-> TRUE, start |-> ProbeTable[cursor + 1], size |-> <<ProbeTable[cursor + 2], 0>>]
  BY DEF pwsh_assembly_probe
<1> HIDE DEF halts, stops, cursor
<1>8. CASE stored = {}
  <2>1. k = n
    BY <1>3, <1>4, <1>5, <1>8
  <2> QED BY <1>2, <1>5, <1>6, <1>7, <1>8, <2>1
<1>9. CASE stored # {}
  <2>1. PICK i \in stored : TRUE
    BY <1>9
  <2>2. i - 1 \in 0..n /\ (i - 1) + 1 \in stored /\ i - 1 # n
    BY <1>1, <2>1
  <2>3. k # n /\ k + 1 \in stored
    <3>1. i - 1 \in halts
      BY <1>3, <2>2
    <3>2. k <= i - 1 /\ i - 1 < n
      BY <1>1, <1>4, <2>1, <3>1
    <3>3. k # n
      BY <1>1, <1>5, <2>1, <3>2
    <3> QED BY <1>3, <1>4, <1>5, <3>3
  <2>4. \A j \in stored : k + 1 <= j
    <3> SUFFICES ASSUME NEW j \in stored PROVE k + 1 <= j
      OBVIOUS
    <3>1. j - 1 \in 0..n /\ (j - 1) + 1 \in stored
      BY <1>1
    <3>2. j - 1 \in halts
      BY <1>3, <3>1
    <3> QED BY <1>4, <1>5, <3>1, <3>2
  <2>5. (CHOOSE j \in stored : \A l \in stored : j <= l) = k + 1
    <3>1. \A j \in stored : j \in Nat
      BY <1>1
    <3>2. \A j \in stored : (\A l \in stored : j <= l) => j = k + 1
      BY <1>5, <2>3, <2>4, <3>1
    <3> HIDE DEF stored
    <3> QED BY <2>3, <2>4, <3>2
  <2>6. k + 1 \in 1..n /\ StoreEntries[k + 1].name = path
    BY <2>3
  <2>7. ProbeTable[3 * ((k + 1) - 1) + 1] = path /\ ProbeTable[3 * ((k + 1) - 1) + 2] = StoreEntries[k + 1].offset
        /\ ProbeTable[3 * ((k + 1) - 1) + 3] = StoreEntries[k + 1].size
    BY <2>6, TableWords
  <2>8. ProbeTable[cursor] = path /\ ProbeTable[cursor + 1] = StoreEntries[k + 1].offset
        /\ ProbeTable[cursor + 2] = StoreEntries[k + 1].size
    <3>1. cursor = 3 * ((k + 1) - 1) + 1 /\ cursor + 1 = 3 * ((k + 1) - 1) + 2 /\ cursor + 2 = 3 * ((k + 1) - 1) + 3
      BY <1>5, <1>6
    <3> QED BY <2>7, <3>1
  <2> QED BY <1>7, <1>9, <2>5, <2>8
<1> QED BY <1>8, <1>9

-----------------------------------------------------------------------------
(* The VM's answers *)

Vm(locals, globals, pending, state, locked) ==
  [locals |-> locals, globals |-> globals, pending |-> pending, state |-> state, locked |-> locked]
Runs(locals, globals, locked) == Vm(locals, globals, NoException, Running, locked)
Raised(locals, globals, locked) == Vm(locals, globals, AnException, Running, locked)

Plus(S, e) == S \union {e}
Minus(S, e) == S \ {e}

LEMMA Distinct == NoException # AnException /\ Running # Aborted
BY DEF NoException, AnException, Running, Aborted

LEMMA VmFields ==
  ASSUME NEW l, NEW g, NEW p, NEW s, NEW k
  PROVE /\ Vm(l, g, p, s, k).locals = l /\ Vm(l, g, p, s, k).globals = g /\ Vm(l, g, p, s, k).pending = p
        /\ Vm(l, g, p, s, k).state = s /\ Vm(l, g, p, s, k).locked = k
  BY DEF Vm

LEMMA VmExcept ==
  ASSUME NEW l, NEW g, NEW p, NEW s, NEW k, NEW x
  PROVE /\ [Vm(l, g, p, s, k) EXCEPT !.locals = x] = Vm(x, g, p, s, k)
        /\ [Vm(l, g, p, s, k) EXCEPT !.globals = x] = Vm(l, x, p, s, k)
        /\ [Vm(l, g, p, s, k) EXCEPT !.pending = x] = Vm(l, g, x, s, k)
        /\ [Vm(l, g, p, s, k) EXCEPT !.state = x] = Vm(l, g, p, x, k)
        /\ [Vm(l, g, p, s, k) EXCEPT !.locked = x] = Vm(l, g, p, s, x)
  BY DEF Vm

LEMMA RaisesIs ==
  ASSUME NEW l, NEW g, NEW k
  PROVE Raises(Runs(l, g, k)) = Gives(Null, Raised(l, g, k))
<1>1. [Vm(l, g, NoException, Running, k) EXCEPT !.pending = AnException] = Vm(l, g, AnException, Running, k)
  BY DEF Vm
<1> QED BY <1>1, Zenon DEF Raises, Runs, Raised

\* What the code asks of the VM: the function it names, in both tables.
LEMMA Named ==
  ASSUME HostHypotheses
  PROVE /\ \A f \in {"ExceptionDescribe", "ExceptionClear", "NewGlobalRef", "DeleteGlobalRef", "DeleteLocalRef",
                     "CallObjectMethodA", "CallBooleanMethodA", "CallVoidMethodA", "ExceptionCheck", "FindClass",
                     "NewObjectA", "GetMethodID", "GetStaticMethodID", "GetStaticFieldID", "GetStaticObjectField"} :
             Function(f) = f
        /\ \A f \in {"GetObjectClass", "RegisterNatives", "DeleteLocalRef", "ExceptionCheck", "ExceptionClear"} :
             PeerFunction(f) = f
<1>1. DOMAIN JniSlot = {"ExceptionDescribe", "ExceptionClear", "NewGlobalRef", "DeleteGlobalRef", "DeleteLocalRef",
                        "CallObjectMethodA", "CallBooleanMethodA", "CallVoidMethodA", "ExceptionCheck", "FindClass",
                        "NewObjectA", "GetMethodID", "GetStaticMethodID", "GetStaticFieldID", "GetStaticObjectField"}
  BY DEF JniSlot
<1>2. DOMAIN Get_JniFunctionTable
        = {"GetObjectClass", "RegisterNatives", "DeleteLocalRef", "ExceptionCheck", "ExceptionClear"}
  BY DEF Get_JniFunctionTable
<1> QED BY <1>1, <1>2 DEF HostHypotheses

\* Calls that cannot fail.
LEMMA Certain ==
  ASSUME NEW l, NEW g, NEW p, NEW s, NEW k, NEW arg
  PROVE /\ VmAfter("ExceptionDescribe", arg, Vm(l, g, p, s, k)) = Vm(l, g, p, s, k)
        /\ VmAfter("ExceptionClear", arg, Vm(l, g, p, s, k)) = Vm(l, g, NoException, s, k)
        /\ VmAfter("DeleteLocalRef", arg, Vm(l, g, p, s, k)) = Vm(Minus(l, arg), g, p, s, k)
        /\ VmAfter("DeleteGlobalRef", arg, Vm(l, g, p, s, k)) = Vm(l, Minus(g, arg), p, s, k)
<1> DEFINE vm == Vm(l, g, p, s, k)
<1>1. /\ [vm EXCEPT !.pending = NoException] = Vm(l, g, NoException, s, k)
      /\ [vm EXCEPT !.locals = Minus(vm.locals, arg)] = Vm(Minus(l, arg), g, p, s, k)
      /\ [vm EXCEPT !.globals = Minus(vm.globals, arg)] = Vm(l, Minus(g, arg), p, s, k)
  <2>2. [vm EXCEPT !.pending = NoException] = Vm(l, g, NoException, s, k)
    BY DEF Vm
  <2>3. [vm EXCEPT !.locals = Minus(vm.locals, arg)] = Vm(Minus(l, arg), g, p, s, k)
    BY DEF Vm
  <2>4. [vm EXCEPT !.globals = Minus(vm.globals, arg)] = Vm(l, Minus(g, arg), p, s, k)
    BY DEF Vm
  <2> QED BY <2>2, <2>3, <2>4
<1> HIDE DEF vm
<1>2. \A v : Gives(Null, v).vm = v
  BY DEF Gives
<1>3. ASSUME NEW f, NEW v, JniCall(f, arg, Null, vm) = {Gives(Null, v)} PROVE VmAfter(f, arg, vm) = v
  <2>1. (CHOOSE result \in {Gives(Null, v)} : TRUE) = Gives(Null, v)
    OBVIOUS
  <2> QED BY <1>2, <1>3, <2>1 DEF VmAfter
<1>4. /\ JniCall("ExceptionDescribe", arg, Null, vm) = {Gives(Null, vm)}
      /\ JniCall("ExceptionClear", arg, Null, vm) = {Gives(Null, [vm EXCEPT !.pending = NoException])}
      /\ JniCall("DeleteLocalRef", arg, Null, vm) = {Gives(Null, [vm EXCEPT !.locals = Minus(vm.locals, arg)])}
      /\ JniCall("DeleteGlobalRef", arg, Null, vm) = {Gives(Null, [vm EXCEPT !.globals = Minus(vm.globals, arg)])}
  BY DEF JniCall, Always, Plus, Minus
<1>5. /\ VmAfter("ExceptionDescribe", arg, vm) = vm
      /\ VmAfter("ExceptionClear", arg, vm) = [vm EXCEPT !.pending = NoException]
      /\ VmAfter("DeleteLocalRef", arg, vm) = [vm EXCEPT !.locals = Minus(vm.locals, arg)]
      /\ VmAfter("DeleteGlobalRef", arg, vm) = [vm EXCEPT !.globals = Minus(vm.globals, arg)]
  BY <1>3, <1>4, Zenon
<1> QED BY <1>1, <1>5, Zenon DEF vm

Done(value, vm) == [value |-> value, ends |-> "returns", vm |-> vm]
Thrown(vm) == [value |-> Null, ends |-> "throws", vm |-> vm]

\* What throws leaves no exception behind.
LEMMA AssertedIs ==
  ASSUME HostHypotheses, NEW l, NEW g, NEW k, NEW value
  PROVE /\ Asserted(Gives(value, Runs(l, g, k))) = Done(value, Runs(l, g, k))
        /\ Asserted(Gives(value, Raised(l, g, k))) = Thrown(Runs(l, g, k))
<1>1. /\ Function("ExceptionCheck") = "ExceptionCheck" /\ Function("ExceptionClear") = "ExceptionClear"
      /\ Function("ExceptionDescribe") = "ExceptionDescribe"
  BY Named
<1>2. \A vm : Gives(value, vm).vm = vm /\ Gives(value, vm).value = value
  BY DEF Gives
<1>3. Asserted(Gives(value, Runs(l, g, k))) = Done(value, Runs(l, g, k))
  <2>1. Runs(l, g, k).pending = NoException
    BY VmFields DEF Runs
  <2> QED BY <1>2, <2>1 DEF Asserted, Done
<1>4. VmAfter("ExceptionClear", Null, VmAfter("ExceptionDescribe", Null, Raised(l, g, k))) = Runs(l, g, k)
  <2>1. ASSUME NEW p, NEW s
        PROVE /\ VmAfter("ExceptionDescribe", Null, Vm(l, g, p, s, k)) = Vm(l, g, p, s, k)
              /\ VmAfter("ExceptionClear", Null, Vm(l, g, p, s, k)) = Vm(l, g, NoException, s, k)
    BY Certain
  <2>2. VmAfter("ExceptionDescribe", Null, Raised(l, g, k)) = Raised(l, g, k)
    BY <2>1 DEF Raised
  <2>3. VmAfter("ExceptionClear", Null, Raised(l, g, k)) = Runs(l, g, k)
    BY <2>1 DEF Raised, Runs
  <2> QED BY <2>2, <2>3
<1>5. Asserted(Gives(value, Raised(l, g, k))) = Thrown(Runs(l, g, k))
  <2>1. Raised(l, g, k).pending = AnException
    BY VmFields DEF Raised
  <2> QED BY Distinct, <1>1, <1>2, <1>4, <2>1 DEF Asserted, Thrown
<1> QED BY <1>3, <1>5

\* Calls that may fail, on an object and with no exception pending ...
LEMMA GetClass ==
  ASSUME NEW l, NEW g, NEW k, NEW arg, arg # Null, NEW ref
  PROVE JniCall("GetObjectClass", arg, ref, Runs(l, g, k))
          = {Gives(ref, Runs(Plus(l, ref), g, k)), Gives(Null, Raised(l, g, k))}
<1> DEFINE vm == Runs(l, g, k)
<1>1. vm.pending = NoException /\ [vm EXCEPT !.locals = Plus(vm.locals, ref)] = Runs(Plus(l, ref), g, k)
  <2>1. vm.pending = NoException /\ vm.locals = l
    BY VmFields DEF Runs
  <2>2. [vm EXCEPT !.locals = Plus(l, ref)] = Runs(Plus(l, ref), g, k)
    BY DEF Vm, Runs
  <2> QED BY <2>1, <2>2
<1>2. Raises(vm) = Gives(Null, Raised(l, g, k))
  BY RaisesIs
<1> HIDE DEF vm
<1>3. JniCall("GetObjectClass", arg, ref, vm) = {Gives(ref, [vm EXCEPT !.locals = Plus(vm.locals, ref)]), Raises(vm)}
  BY <1>1 DEF JniCall, Always, Plus
<1> QED BY <1>1, <1>2, <1>3 DEF vm

LEMMA CallObject ==
  ASSUME NEW l, NEW g, NEW k, NEW arg, arg # Null, NEW ref
  PROVE JniCall("CallObjectMethodA", arg, ref, Runs(l, g, k))
          = {Gives(ref, Runs(Plus(l, ref), g, k)), Gives(Null, Raised(l, g, k))}
<1> DEFINE vm == Runs(l, g, k)
<1>1. vm.pending = NoException /\ [vm EXCEPT !.locals = Plus(vm.locals, ref)] = Runs(Plus(l, ref), g, k)
  <2>1. vm.pending = NoException /\ vm.locals = l
    BY VmFields DEF Runs
  <2>2. [vm EXCEPT !.locals = Plus(l, ref)] = Runs(Plus(l, ref), g, k)
    BY DEF Vm, Runs
  <2> QED BY <2>1, <2>2
<1>2. Raises(vm) = Gives(Null, Raised(l, g, k))
  BY RaisesIs
<1> HIDE DEF vm
<1>3. JniCall("CallObjectMethodA", arg, ref, vm) = {Gives(ref, [vm EXCEPT !.locals = Plus(vm.locals, ref)]), Raises(vm)}
  BY <1>1 DEF JniCall, Always, Plus
<1> QED BY <1>1, <1>2, <1>3 DEF vm

LEMMA CallVoid ==
  ASSUME NEW l, NEW g, NEW k, NEW arg, arg # Null, NEW ref
  PROVE JniCall("CallVoidMethodA", arg, ref, Runs(l, g, k)) = {Gives(Null, Runs(l, g, k)), Gives(Null, Raised(l, g, k))}
<1> DEFINE vm == Runs(l, g, k)
<1>1. vm.pending = NoException
  BY VmFields DEF Runs
<1>2. Raises(vm) = Gives(Null, Raised(l, g, k))
  BY RaisesIs
<1> HIDE DEF vm
<1>3. JniCall("CallVoidMethodA", arg, ref, vm) = {Gives(Null, vm), Raises(vm)}
  BY <1>1 DEF JniCall, Always
<1> QED BY <1>2, <1>3 DEF vm

LEMMA CallBoolean ==
  ASSUME NEW l, NEW g, NEW k, NEW arg, arg # Null, NEW ref
  PROVE JniCall("CallBooleanMethodA", arg, ref, Runs(l, g, k))
          = {Gives(ref, Runs(l, g, k)), Gives(Null, Runs(l, g, k)), Gives(Null, Raised(l, g, k))}
<1> DEFINE vm == Runs(l, g, k)
<1>1. vm.pending = NoException
  BY VmFields DEF Runs
<1>2. Raises(vm) = Gives(Null, Raised(l, g, k))
  BY RaisesIs
<1> HIDE DEF vm
<1>3. JniCall("CallBooleanMethodA", arg, ref, vm) = {Gives(ref, vm), Gives(Null, vm), Raises(vm)}
  BY <1>1 DEF JniCall, Always
<1> QED BY <1>2, <1>3 DEF vm

LEMMA Register ==
  ASSUME NEW l, NEW g, NEW k, NEW arg, arg # Null, NEW ref
  PROVE JniCall("RegisterNatives", arg, ref, Runs(l, g, k))
          = {Gives(ref, Runs(l, g, k)), Gives(Null, Runs(l, g, k)), Gives(Null, Raised(l, g, k))}
<1> DEFINE vm == Runs(l, g, k)
<1>1. vm.pending = NoException
  BY VmFields DEF Runs
<1>2. Raises(vm) = Gives(Null, Raised(l, g, k))
  BY RaisesIs
<1> HIDE DEF vm
<1>3. JniCall("RegisterNatives", arg, ref, vm) = {Gives(ref, vm), Gives(Null, vm), Raises(vm)}
  BY <1>1 DEF JniCall, Always
<1> QED BY <1>2, <1>3 DEF vm

LEMMA NewGlobal ==
  ASSUME NEW l, NEW g, NEW k, NEW arg, arg # Null, NEW ref
  PROVE JniCall("NewGlobalRef", arg, ref, Runs(l, g, k))
          = {Gives(arg, Runs(l, Plus(g, arg), k)), Gives(Null, Runs(l, g, k)), Gives(Null, Raised(l, g, k))}
<1> DEFINE vm == Runs(l, g, k)
<1>1. vm.pending = NoException /\ [vm EXCEPT !.globals = Plus(vm.globals, arg)] = Runs(l, Plus(g, arg), k)
  <2>1. vm.pending = NoException /\ vm.globals = g
    BY VmFields DEF Runs
  <2>2. [vm EXCEPT !.globals = Plus(g, arg)] = Runs(l, Plus(g, arg), k)
    BY DEF Vm, Runs
  <2> QED BY <2>1, <2>2
<1>2. Raises(vm) = Gives(Null, Raised(l, g, k))
  BY RaisesIs
<1> HIDE DEF vm
<1>3. JniCall("NewGlobalRef", arg, ref, vm)
        = {Gives(arg, [vm EXCEPT !.globals = Plus(vm.globals, arg)]), Gives(Null, vm), Raises(vm)}
  BY <1>1 DEF JniCall, Always, Plus
<1> QED BY <1>1, <1>2, <1>3 DEF vm

\* ... and on none, or with one pending: the VM aborts.
LEMMA Aborts ==
  ASSUME NEW l, NEW g, NEW p, NEW k, NEW arg, p # NoException \/ arg = Null, NEW ref
  PROVE JniCall("CallObjectMethodA", arg, ref, Vm(l, g, p, Running, k)) = {Gives(Null, Vm(l, g, p, Aborted, k))}
<1>1. Vm(l, g, p, Running, k).pending = p
  BY VmFields
<1>2. [Vm(l, g, p, Running, k) EXCEPT !.state = Aborted] = Vm(l, g, p, Aborted, k)
  BY DEF Vm
<1> DEFINE vm == Vm(l, g, p, Running, k)
<1> HIDE DEF vm
<1>3. JniCall("CallObjectMethodA", arg, ref, vm) = {Gives(Null, [vm EXCEPT !.state = Aborted])}
  BY <1>1 DEF JniCall, Always, Plus, Minus, vm
<1> QED BY <1>2, <1>3, Zenon DEF vm

\* The same through Invoke-JavaCall, which clears what it throws for.
LEMMA InvokeObject ==
  ASSUME HostHypotheses, NEW l, NEW g, NEW k, NEW arg, arg # Null, NEW ref
  PROVE Invoke_JavaCall("CallObjectMethodA", arg, ref, Runs(l, g, k))
          = {Done(ref, Runs(Plus(l, ref), g, k)), Thrown(Runs(l, g, k))}
<1>1. Function("CallObjectMethodA") = "CallObjectMethodA"
  BY Named
<1>2. JniCall("CallObjectMethodA", arg, ref, Runs(l, g, k))
        = {Gives(ref, Runs(Plus(l, ref), g, k)), Gives(Null, Raised(l, g, k))}
  BY CallObject
<1>3. Asserted(Gives(Null, Raised(l, g, k))) = Thrown(Runs(l, g, k))
  BY AssertedIs
<1>4. Asserted(Gives(ref, Runs(Plus(l, ref), g, k))) = Done(ref, Runs(Plus(l, ref), g, k))
  BY AssertedIs
<1>6. Invoke_JavaCall("CallObjectMethodA", arg, ref, Runs(l, g, k))
        = {Asserted(Gives(ref, Runs(Plus(l, ref), g, k))), Asserted(Gives(Null, Raised(l, g, k)))}
  BY <1>1, <1>2 DEF Invoke_JavaCall
<1> QED BY <1>3, <1>4, <1>6

LEMMA InvokeVoid ==
  ASSUME HostHypotheses, NEW l, NEW g, NEW k, NEW arg, arg # Null, NEW ref
  PROVE Invoke_JavaCall("CallVoidMethodA", arg, ref, Runs(l, g, k)) = {Done(Null, Runs(l, g, k)), Thrown(Runs(l, g, k))}
<1>1. Function("CallVoidMethodA") = "CallVoidMethodA"
  BY Named
<1>2. JniCall("CallVoidMethodA", arg, ref, Runs(l, g, k)) = {Gives(Null, Runs(l, g, k)), Gives(Null, Raised(l, g, k))}
  BY CallVoid
<1>3. Asserted(Gives(Null, Raised(l, g, k))) = Thrown(Runs(l, g, k))
  BY AssertedIs
<1>4. Asserted(Gives(Null, Runs(l, g, k))) = Done(Null, Runs(l, g, k))
  BY AssertedIs
<1>6. Invoke_JavaCall("CallVoidMethodA", arg, ref, Runs(l, g, k))
        = {Asserted(Gives(Null, Runs(l, g, k))), Asserted(Gives(Null, Raised(l, g, k)))}
  BY <1>1, <1>2 DEF Invoke_JavaCall
<1> QED BY <1>3, <1>4, <1>6

LEMMA InvokeBoolean ==
  ASSUME HostHypotheses, NEW l, NEW g, NEW k, NEW arg, arg # Null, NEW ref
  PROVE Invoke_JavaCall("CallBooleanMethodA", arg, ref, Runs(l, g, k))
          = {Done(ref, Runs(l, g, k)), Done(Null, Runs(l, g, k)), Thrown(Runs(l, g, k))}
<1>1. Function("CallBooleanMethodA") = "CallBooleanMethodA"
  BY Named
<1>2. JniCall("CallBooleanMethodA", arg, ref, Runs(l, g, k))
        = {Gives(ref, Runs(l, g, k)), Gives(Null, Runs(l, g, k)), Gives(Null, Raised(l, g, k))}
  BY CallBoolean
<1>3. Asserted(Gives(Null, Raised(l, g, k))) = Thrown(Runs(l, g, k))
  BY AssertedIs
<1>4. Asserted(Gives(ref, Runs(l, g, k))) = Done(ref, Runs(l, g, k))
  BY AssertedIs
<1>5. Asserted(Gives(Null, Runs(l, g, k))) = Done(Null, Runs(l, g, k))
  BY AssertedIs
<1>6. Invoke_JavaCall("CallBooleanMethodA", arg, ref, Runs(l, g, k))
        = {Asserted(Gives(ref, Runs(l, g, k))), Asserted(Gives(Null, Runs(l, g, k))), Asserted(Gives(Null, Raised(l, g, k)))}
  BY <1>1, <1>2 DEF Invoke_JavaCall
<1> QED BY <1>3, <1>4, <1>5, <1>6

\* Whatever state the VM is in: what these calls leave of it.  The session makes
\* its calls without looking at what it got, on a VM that may have aborted.
LEMMA Lookup ==
  ASSUME NEW l, NEW g, NEW p, NEW s, NEW k, NEW arg, NEW ref,
         NEW f \in {"GetMethodID", "GetStaticMethodID", "GetStaticFieldID"},
         NEW result \in JniCall(f, arg, ref, Vm(l, g, p, s, k))
  PROVE \E q, t, v : result = Gives(v, Vm(l, g, q, t, k))
<1> DEFINE vm == Vm(l, g, p, s, k)
<1>1. [vm EXCEPT !.state = Aborted] = Vm(l, g, p, Aborted, k) /\ [vm EXCEPT !.pending = AnException] = Vm(l, g, AnException, s, k)
  <2>1. [vm EXCEPT !.state = Aborted] = Vm(l, g, p, Aborted, k)
    BY DEF Vm
  <2>2. [vm EXCEPT !.pending = AnException] = Vm(l, g, AnException, s, k)
    BY DEF Vm
  <2> QED BY <2>1, <2>2
<1> HIDE DEF vm
<1>2. result \in {Gives(Null, [vm EXCEPT !.state = Aborted])} \union {Gives(Null, vm), Raises(vm)}
  BY DEF JniCall, Always, vm
<1>3. Raises(vm) = Gives(Null, [vm EXCEPT !.pending = AnException])
  BY DEF Raises
<1> QED BY <1>1, <1>2, <1>3, Zenon DEF vm

LEMMA GivesLocal ==
  ASSUME NEW l, NEW g, NEW p, NEW s, NEW k, NEW arg, NEW ref,
         NEW f \in {"FindClass", "NewObjectA", "CallObjectMethodA", "GetStaticObjectField"},
         NEW result \in JniCall(f, arg, ref, Vm(l, g, p, s, k))
  PROVE \E m, q, t, v : m \subseteq Plus(l, ref) /\ result = Gives(v, Vm(m, g, q, t, k))
                        /\ (f = "GetStaticObjectField" => q = p)
<1> DEFINE vm == Vm(l, g, p, s, k)
<1>1. /\ [vm EXCEPT !.state = Aborted] = Vm(l, g, p, Aborted, k)
      /\ [vm EXCEPT !.pending = AnException] = Vm(l, g, AnException, s, k)
      /\ [vm EXCEPT !.locals = Plus(vm.locals, ref)] = Vm(Plus(l, ref), g, p, s, k)
  <2>1. [vm EXCEPT !.state = Aborted] = Vm(l, g, p, Aborted, k)
    BY DEF Vm
  <2>2. [vm EXCEPT !.pending = AnException] = Vm(l, g, AnException, s, k)
    BY DEF Vm
  <2>3. [vm EXCEPT !.locals = Plus(vm.locals, ref)] = Vm(Plus(l, ref), g, p, s, k)
    BY DEF Vm
  <2> QED BY <2>1, <2>2, <2>3
<1> HIDE DEF vm
<1>2. /\ result \in {Gives(Null, [vm EXCEPT !.state = Aborted]), Gives(ref, [vm EXCEPT !.locals = Plus(vm.locals, ref)]), Raises(vm)}
      /\ f = "GetStaticObjectField" =>
           result \in {Gives(Null, [vm EXCEPT !.state = Aborted]), Gives(ref, [vm EXCEPT !.locals = Plus(vm.locals, ref)])}
  BY DEF JniCall, Always, Plus, vm
<1>3. Raises(vm) = Gives(Null, [vm EXCEPT !.pending = AnException])
  BY DEF Raises
<1>4. l \subseteq Plus(l, ref) /\ Plus(l, ref) \subseteq Plus(l, ref)
  BY DEF Plus
<1>5. CASE result = Gives(Null, [vm EXCEPT !.state = Aborted])
  BY <1>1, <1>4, <1>5, Zenon
<1>6. CASE result = Gives(ref, [vm EXCEPT !.locals = Plus(vm.locals, ref)])
  BY <1>1, <1>4, <1>6, Zenon
<1>7. CASE result = Raises(vm) /\ f # "GetStaticObjectField"
  <2>1. result = Gives(Null, Vm(l, g, AnException, s, k))
    BY <1>1, <1>3, <1>7
  <2> QED BY <1>4, <1>7, <2>1
<1> QED BY <1>2, <1>5, <1>6, <1>7

LEMMA LastingIs ==
  ASSUME HostHypotheses, NEW l, NEW g, NEW p, NEW s, NEW k, NEW ref, NEW kept \in Lasting(ref, Vm(l, g, p, s, k))
  PROVE \E q, t : kept.vm = Vm(l, g, q, t, k)
<1> DEFINE vm == Vm(l, g, p, s, k)
<1>1. vm.globals = g /\ Function("NewGlobalRef") = "NewGlobalRef"
  BY VmFields, Named
<1>2. PICK result \in JniCall("NewGlobalRef", ref, ref, vm) : kept = Gives(result.value, [result.vm EXCEPT !.globals = g])
  <2> HIDE DEF vm
  <2>1. kept \in {Gives(result.value, [result.vm EXCEPT !.globals = vm.globals]) :
                    result \in JniCall(Function("NewGlobalRef"), ref, ref, vm)}
    BY DEF Lasting, vm
  <2> QED BY <1>1, <2>1
<1>3. \E q, t, h, v : result = Gives(v, Vm(l, h, q, t, k))
  <2>1. /\ [vm EXCEPT !.state = Aborted] = Vm(l, g, p, Aborted, k)
        /\ [vm EXCEPT !.pending = AnException] = Vm(l, g, AnException, s, k)
        /\ [vm EXCEPT !.globals = Plus(vm.globals, ref)] = Vm(l, Plus(g, ref), p, s, k)
    <3>1. [vm EXCEPT !.state = Aborted] = Vm(l, g, p, Aborted, k)
      BY DEF Vm
    <3>2. [vm EXCEPT !.pending = AnException] = Vm(l, g, AnException, s, k)
      BY DEF Vm
    <3>3. [vm EXCEPT !.globals = Plus(vm.globals, ref)] = Vm(l, Plus(g, ref), p, s, k)
      BY DEF Vm
    <3> QED BY <3>1, <3>2, <3>3
  <2> HIDE DEF vm
  <2>2. result \in {Gives(Null, [vm EXCEPT !.state = Aborted]), Gives(ref, [vm EXCEPT !.globals = Plus(vm.globals, ref)]),
                    Gives(Null, vm), Raises(vm)}
    BY <1>2 DEF JniCall, Always, Plus
  <2>3. Raises(vm) = Gives(Null, [vm EXCEPT !.pending = AnException])
    BY DEF Raises
  <2>4. CASE result = Gives(Null, [vm EXCEPT !.state = Aborted])
    BY <2>1, <2>4
  <2>5. CASE result = Gives(ref, [vm EXCEPT !.globals = Plus(vm.globals, ref)])
    BY <2>1, <2>5
  <2>6. CASE result = Gives(Null, vm)
    BY <2>6 DEF vm
  <2>7. CASE result = Raises(vm)
    <3>1. result = Gives(Null, Vm(l, g, AnException, s, k))
      BY <2>1, <2>3, <2>7
    <3> QED BY <3>1
  <2> QED BY <2>2, <2>4, <2>5, <2>6, <2>7
<1>4. PICK q, t, h, v : result = Gives(v, Vm(l, h, q, t, k))
  BY <1>3
<1>5. result.vm = Vm(l, h, q, t, k)
  BY <1>4 DEF Gives
<1>6. [Vm(l, h, q, t, k) EXCEPT !.globals = g] = Vm(l, g, q, t, k)
  BY DEF Vm
<1>7. kept.vm = [result.vm EXCEPT !.globals = g]
  BY <1>2 DEF Gives
<1>8. kept.vm = Vm(l, g, q, t, k)
  BY <1>5, <1>6, <1>7, Zenon
<1> QED BY <1>8

\* Through a check nothing stays pending.
LEMMA AssertedClears ==
  ASSUME HostHypotheses, NEW l, NEW g, NEW p, NEW s, NEW k, NEW value
  PROVE Asserted(Gives(value, Vm(l, g, p, s, k))).vm = Vm(l, g, NoException, s, k)
<1>1. /\ Function("ExceptionCheck") = "ExceptionCheck" /\ Function("ExceptionClear") = "ExceptionClear"
      /\ Function("ExceptionDescribe") = "ExceptionDescribe"
  BY Named
<1>2. /\ VmAfter("ExceptionDescribe", Null, Vm(l, g, p, s, k)) = Vm(l, g, p, s, k)
      /\ VmAfter("ExceptionClear", Null, Vm(l, g, p, s, k)) = Vm(l, g, NoException, s, k)
  BY Certain
<1>3. Vm(l, g, p, s, k).pending = p
  BY VmFields
<1> DEFINE vm == Vm(l, g, p, s, k)
           cleared == Vm(l, g, NoException, s, k)
<1>4. p = NoException => vm = cleared
  OBVIOUS
<1> HIDE DEF vm, cleared
<1>5. VmAfter("ExceptionDescribe", Null, vm) = vm /\ VmAfter("ExceptionClear", Null, vm) = cleared /\ vm.pending = p
  BY <1>2, <1>3 DEF vm, cleared
<1>6. Gives(value, vm).vm = vm
  BY DEF Gives
<1>7. CASE p = NoException
  BY <1>4, <1>5, <1>6, <1>7 DEF Asserted, vm, cleared
<1>8. CASE p # NoException
  BY <1>1, <1>5, <1>6, <1>8 DEF Asserted, vm, cleared
<1> QED BY <1>7, <1>8

LEMMA InvokeLookup ==
  ASSUME HostHypotheses, NEW l, NEW g, NEW p, NEW s, NEW k, NEW arg, NEW ref,
         NEW f \in {"GetMethodID", "GetStaticMethodID", "GetStaticFieldID"},
         NEW got \in Invoke_JavaCall(f, arg, ref, Vm(l, g, p, s, k))
  PROVE \E t : got.vm = Vm(l, g, NoException, t, k)
<1>1. Function(f) = f
  BY Named
<1>2. PICK result \in JniCall(f, arg, ref, Vm(l, g, p, s, k)) : got = Asserted(result)
  BY <1>1 DEF Invoke_JavaCall
<1>3. PICK q, t, v : result = Gives(v, Vm(l, g, q, t, k))
  BY Lookup
<1>4. Asserted(Gives(v, Vm(l, g, q, t, k))).vm = Vm(l, g, NoException, t, k)
  BY AssertedClears
<1> QED BY <1>2, <1>3, <1>4

LEMMA InvokeGives ==
  ASSUME HostHypotheses, NEW l, NEW g, NEW p, NEW s, NEW k, NEW arg, NEW ref,
         NEW f \in {"FindClass", "NewObjectA", "CallObjectMethodA"},
         NEW got \in Invoke_JavaCall(f, arg, ref, Vm(l, g, p, s, k))
  PROVE \E m, t : m \subseteq Plus(l, ref) /\ got.vm = Vm(m, g, NoException, t, k)
<1>1. Function(f) = f
  BY Named
<1>2. PICK result \in JniCall(f, arg, ref, Vm(l, g, p, s, k)) : got = Asserted(result)
  BY <1>1 DEF Invoke_JavaCall
<1>3. PICK m, q, t, v : m \subseteq Plus(l, ref) /\ result = Gives(v, Vm(m, g, q, t, k))
  BY GivesLocal
<1>4. Asserted(Gives(v, Vm(m, g, q, t, k))).vm = Vm(m, g, NoException, t, k)
  BY AssertedClears
<1> QED BY <1>2, <1>3, <1>4

\* What throws got nothing.
LEMMA InvokeThrows ==
  ASSUME HostHypotheses, NEW l, NEW g, NEW s, NEW k, NEW arg, NEW ref,
         NEW f \in {"FindClass", "NewObjectA", "CallObjectMethodA"},
         NEW got \in Invoke_JavaCall(f, arg, ref, Vm(l, g, NoException, s, k)), got.ends = "throws"
  PROVE got.vm = Vm(l, g, NoException, s, k)
<1>1. Function(f) = f
  BY Named
<1>2. PICK result \in JniCall(f, arg, ref, Vm(l, g, NoException, s, k)) : got = Asserted(result)
  BY <1>1 DEF Invoke_JavaCall
<1> DEFINE vm == Vm(l, g, NoException, s, k)
           aborted == [vm EXCEPT !.state = Aborted]
           local == [vm EXCEPT !.locals = Plus(vm.locals, ref)]
<1>3. /\ aborted = Vm(l, g, NoException, Aborted, k) /\ local = Vm(Plus(vm.locals, ref), g, NoException, s, k)
      /\ [vm EXCEPT !.pending = AnException] = Vm(l, g, AnException, s, k)
  <2>1. aborted = Vm(l, g, NoException, Aborted, k)
    BY DEF Vm
  <2>2. local = Vm(Plus(vm.locals, ref), g, NoException, s, k)
    BY DEF Vm
  <2>3. [vm EXCEPT !.pending = AnException] = Vm(l, g, AnException, s, k)
    BY DEF Vm
  <2> QED BY <2>1, <2>2, <2>3
<1>4. aborted.pending = NoException /\ local.pending = NoException
  BY <1>3, VmFields
<1> HIDE DEF vm, aborted, local
<1>5. result \in {Gives(Null, aborted), Gives(ref, local), Raises(vm)}
  <2>1. JniCall(f, arg, ref, vm) \subseteq {Gives(Null, aborted), Gives(ref, local), Raises(vm)}
    BY DEF JniCall, Always, Plus, vm, aborted, local
  <2> QED BY <1>2, <2>1 DEF vm
<1>6. \A v, w : Gives(v, w).vm = w
  BY DEF Gives
<1>7. \A v, w : w.pending = NoException => Asserted(Gives(v, w)).ends = "returns"
  BY <1>6 DEF Asserted
<1>8. result = Gives(Null, Vm(l, g, AnException, s, k))
  <2>1. result # Gives(Null, aborted) /\ result # Gives(ref, local)
    BY <1>2, <1>4, <1>7
  <2>2. Raises(vm) = Gives(Null, [vm EXCEPT !.pending = AnException])
    BY DEF Raises
  <2> QED BY <1>3, <1>5, <2>1, <2>2 DEF vm
<1>9. Asserted(Gives(Null, Vm(l, g, AnException, s, k))).vm = Vm(l, g, NoException, s, k)
  BY AssertedClears
<1> QED BY <1>2, <1>8, <1>9

LEMMA RemoveIs ==
  ASSUME HostHypotheses, NEW l, NEW g, NEW p, NEW s, NEW k, NEW ref
  PROVE Remove_JavaLocalRef(ref, Vm(l, g, p, s, k)) = IF ref = Null THEN Vm(l, g, p, s, k) ELSE Vm(Minus(l, ref), g, p, s, k)
BY Named, Certain DEF Remove_JavaLocalRef

-----------------------------------------------------------------------------
(* The inductive invariant.  The main thread's place says what is held: the *)
(* references of the calls on the way, the memory of the registration, and  *)
(* the window and canvas of the frame.                                      *)

Starting == {"directory", "contract", "initialize", "admit", "admission", "create run", "run"}
Binding == {"get class", "fill methods", "register", "unbind", "unbind after exception", "session"}
Framing == {"open surface", "set geometry", "to surface", "retain", "lock", "test", "draw", "unlock"}

\* The activity's table once the session has set it.
Drawing == [[[[Nobody EXCEPT ![7] = "draw"] EXCEPT ![8] = "draw"] EXCEPT ![9] = "draw"] EXCEPT ![10] = "release"]

Class == <<"class", activity>>
Surface(w) == <<"surface", w>>
Given(ref) == {ref} \ {Null}

Made(activities, windows) == [activities |-> activities, windows |-> windows]
CanvasOf(a, draws, w, surface, surfaceWindow) ==
  [activity |-> a, draws |-> draws, window |-> w, surface |-> surface, surfaceWindow |-> surfaceWindow]
FrameOf(w, surface, picture) == [window |-> w, surface |-> surface, canvas |-> picture]
RuntimeOf(up, directory, probe) == [up |-> up, directory |-> directory, probe |-> probe]

Windows ==
  /\ ps \in PointerSizes /\ hardware \in BOOLEAN
  /\ at \in {"looper"} \union Starting \union Binding \union Opening \union Framing
  /\ activity \in Nat /\ window \in Nat
  /\ made = Made(made.activities, made.windows) /\ made.activities \in Nat /\ made.windows \in Nat
  /\ activity = 0 => window = 0 /\ callbacks = Nobody
  /\ at # "looper" => activity # 0
  /\ callbacks \in {Nobody, Drawing}

\* The module's surface is the window's, and without the hardware path there is none.
Canvas ==
  /\ canvas = CanvasOf(canvas.activity, canvas.draws, canvas.window, canvas.surface, canvas.surfaceWindow)
  /\ canvas.window \in {0, window} /\ (canvas.window # 0 => callbacks = Drawing)
  /\ canvas.surfaceWindow \in {0, canvas.window}
  /\ canvas.surface = IF canvas.surfaceWindow = 0 THEN Null ELSE Surface(canvas.surfaceWindow)
  /\ ~hardware => canvas.surfaceWindow = 0

Frame ==
  /\ frame = FrameOf(frame.window, frame.surface, frame.canvas)
  /\ at \notin Framing => frame = NoFrame
  /\ at \in Framing => frame.window = window /\ window # 0 /\ canvas.window = window
  /\ frame.surface \in {Null, Surface(window)} /\ frame.canvas \in {Null, <<"canvas", window>>}
  /\ at \in {"open surface", "set geometry", "to surface", "retain"} => frame.surface = Null
  /\ at \notin {"test", "draw", "unlock"} => frame.canvas = Null
  /\ at \in {"test", "draw"} => frame.canvas # Null
  /\ frame.canvas # Null => frame.surface # Null
  /\ hardware /\ at = "lock" => frame.surface # Null
  /\ hardware /\ frame.surface # Null => canvas.surfaceWindow = window
  /\ hardware /\ at \in {"set geometry", "to surface", "retain"} => canvas.surfaceWindow = 0
  /\ at = "retain" => hardware

\* The local references at a place.
Locals ==
  CASE at \in {"fill methods", "register", "unbind"} -> {{Class}}
    [] at = "unbind after exception" -> {{}, {Class}}
    [] at = "retain" -> {{Surface(window)}}
    [] at \in {"lock", "test", "draw", "unlock"} ->
         {Given(frame.canvas) \union (IF hardware THEN {} ELSE Given(frame.surface))}
    [] OTHER -> {{}}

Locked == IF frame.canvas = Null THEN 0 ELSE 1

\* While the session opens the canvas the VM may have aborted, and the local
\* references are among these.
LocalsOfOpening ==
  CASE at = "members" -> {Monospace}
    [] at = "paint" -> {Monospace, Paint}
    [] OTHER -> {Monospace, SetTypeface}

\* Without the hardware path an exception may be pending at the call that locks
\* the canvas, on which the VM aborts.
References ==
  \/ /\ java.state = Aborted /\ java.locked = 0
     /\ ~hardware /\ at = "unlock" /\ canvas.surface = Null
  \/ \E locals \in Locals : java = Runs(locals, Given(canvas.surface), Locked)
  \/ /\ at \in Opening
     /\ \E locals, state : locals \subseteq LocalsOfOpening /\ java = Vm(locals, Given(canvas.surface), NoException, state, 0)
  \/ /\ java = Raised({}, {}, 0) 
     /\ ~hardware /\ at = "lock" /\ frame.surface = Null

Memory ==
  /\ at = "register" => memory = {"methods"} \union Strings
  /\ at \in {"unbind", "unbind after exception"} => memory \subseteq {"methods"} \union Strings
  /\ at \notin {"register", "unbind", "unbind after exception"} => memory = {}

Both == {"Admit", "RunPowerShell"}
Ran == ran # <<>> /\ ran[1][3] = activity

Started ==
  /\ runtime = RuntimeOf(runtime.up, runtime.directory, runtime.probe)
  /\ runtime.up \/ at \in {"contract", "initialize"} => runtime.directory = "internalDataPath"
  /\ runtime.up => runtime.probe = <<"pwsh_assembly_probe", 0>>
  /\ delegates \subseteq Both
  /\ at \in {"admission", "create run"} => "Admit" \in delegates
  /\ at = "run" \/ ran # <<>> => delegates = Both
  /\ ran # <<>> => runtime.up /\ ran = <<<<"env", "clazz", ran[1][3]>>>>
  /\ at \in {"admit", "admission", "create run", "run"} => ran = <<>> /\ runtime.up
  /\ at \in Binding \union Opening \/ callbacks = Drawing => Ran
  /\ at \in {"looper"} \union Framing /\ activity # 0 /\ ~Ran => log # <<>> /\ log[1] = 6

HostInv == Windows /\ Canvas /\ Frame /\ References /\ Memory /\ Started /\ ProbeAnswers

-----------------------------------------------------------------------------
(* Helpers *)

LEMMA Tables ==
  /\ Nobody[7] = "none" /\ Nobody[8] = "none" /\ Nobody[9] = "none" /\ Nobody[10] = "none"
  /\ Drawing[7] = "draw" /\ Drawing[8] = "draw" /\ Drawing[9] = "draw" /\ Drawing[10] = "release"
<1>1. Len(ANativeActivityCallbacks) = 16
  BY DEF ANativeActivityCallbacks
<1>2. Nobody = [slot \in 0..15 |-> "none"]
  BY <1>1 DEF Nobody
<1> QED BY <1>2 DEF Drawing

\* Registering the handlers sets the table, whatever it was.
LEMMA Redraws ==
  ASSUME callbacks \in {Nobody, Drawing}
  PROVE [[[[callbacks EXCEPT ![7] = "draw"] EXCEPT ![8] = "draw"] EXCEPT ![9] = "draw"] EXCEPT ![10] = "release"] = Drawing
<1>1. Len(ANativeActivityCallbacks) = 16
  BY DEF ANativeActivityCallbacks
<1>2. Nobody = [slot \in 0..15 |-> "none"]
  BY <1>1 DEF Nobody
<1>3. Drawing = [slot \in 0..15 |-> IF slot \in {7, 8, 9} THEN "draw" ELSE IF slot = 10 THEN "release" ELSE "none"]
  BY <1>2 DEF Drawing
<1>4. CASE callbacks = Nobody
  BY <1>4 DEF Drawing
<1>5. CASE callbacks = Drawing
  BY <1>3, <1>5
<1> QED BY <1>4, <1>5

\* Places where nothing is held.
Idle == at \in {"looper", "get class", "session"} \union Starting

LEMMA NoFrameIs ==
  /\ NoFrame = FrameOf(NoFrame.window, NoFrame.surface, NoFrame.canvas)
  /\ NoFrame.window = 0 /\ NoFrame.surface = Null /\ NoFrame.canvas = Null
BY DEF NoFrame, FrameOf

LEMMA QuietFrame ==
  ASSUME Idle, frame = NoFrame
  PROVE Frame
BY NoFrameIs DEF Idle, Frame, Starting, Framing, Opening

LEMMA IdleLocals == ASSUME Idle PROVE Locals = {{}}
BY DEF Idle, Locals, Starting, Opening

\* A step between such places that leaves the VM and the frame alone.
LEMMA Quiet ==
  ASSUME HostInv, Idle, Idle', UNCHANGED <<java, frame, memory>>, canvas'.surface = canvas.surface
  PROVE Frame' /\ References' /\ Memory'
<1>1. at \notin Framing /\ at # "unlock" /\ at # "lock" /\ at \notin {"register", "unbind", "unbind after exception"}
  BY DEF Idle, Starting, Framing, Opening
<1>2. at' \notin {"register", "unbind", "unbind after exception"}
  BY DEF Idle, Starting, Opening
<1>3. frame = NoFrame
  BY <1>1 DEF HostInv, Frame
<1>4. Frame'
  <2>1. (Idle /\ frame = NoFrame => Frame)'
    BY QuietFrame, PTL
  <2> QED BY <1>3, <2>1
<1>5. Locals = {{}} /\ Locals' = {{}}
  <2>1. (Idle => Locals = {{}})'
    BY IdleLocals, PTL
  <2> QED BY <2>1, IdleLocals
<1>6. PICK locals \in Locals : java = Runs(locals, Given(canvas.surface), Locked)
  BY <1>1 DEF HostInv, References, Idle, Starting, Opening
<1>7. Locked' = Locked
  BY DEF Locked
<1>8. References'
  <2>1. locals \in Locals' /\ java' = Runs(locals, Given(canvas'.surface), Locked')
    BY <1>5, <1>6, <1>7
  <2> QED BY <2>1 DEF References
<1>9. Memory'
  BY <1>1, <1>2 DEF HostInv, Memory
<1> QED BY <1>4, <1>8, <1>9

LEMMA HostInit == HostHypotheses /\ Init => HostInv
<1> SUFFICES ASSUME HostHypotheses, Init PROVE HostInv
  OBVIOUS
<1> USE DEF Init
<1>1. Idle /\ at = "looper"
  BY DEF Idle, Opening
<1>2. Windows
  BY DEF Windows, Made
<1>3. Canvas
  BY DEF Canvas, CanvasOf
<1>4. Frame
  BY <1>1, QuietFrame
<1>5. References
  <2>1. {} \in Locals
    BY <1>1, IdleLocals
  <2>2. Given(canvas.surface) = {} /\ Locked = 0
    BY NoFrameIs DEF Given, Locked
  <2>3. java = Runs({}, {}, 0)
    BY DEF Runs, Vm
  <2> QED BY <2>1, <2>2, <2>3 DEF References
<1>6. Memory
  BY DEF Memory
<1>7. Started
  <2>1. runtime = RuntimeOf(runtime.up, runtime.directory, runtime.probe)
    BY DEF NotStarted, RuntimeOf
  <2>2. ~runtime.up
    BY DEF NotStarted
  <2>3. callbacks # Drawing
    BY Tables
  <2>4. ran = <<>> /\ delegates \subseteq Both
    OBVIOUS
  <2> QED BY <1>1, <2>1, <2>2, <2>3, <2>4 DEF Started, Binding, Framing, Opening
<1>8. ProbeAnswers
  BY DEF ProbeAnswers
<1> QED BY <1>2, <1>3, <1>4, <1>5, <1>6, <1>7, <1>8 DEF HostInv

Places == {"looper"} \union Starting \union Binding \union Opening \union Framing

\* A step that leaves the activity, the window and the canvas alone.
LEMMA InPlace ==
  ASSUME HostInv, UNCHANGED <<ps, hardware, app, canvas>>, at' \in Places, at' # "looper" => activity # 0
  PROVE Windows' /\ Canvas'
<1>1. Windows'
  BY DEF HostInv, Windows, app, Places, Opening
<1>2. Canvas'
  BY DEF HostInv, Canvas, app
<1> QED BY <1>1, <1>2

LEMMA SameAnswer == ASSUME HostInv, UNCHANGED answer PROVE ProbeAnswers'
BY DEF HostInv, ProbeAnswers

LEMMA FailsWith == ASSUME NEW line, Fails(line) PROVE at' = "looper" /\ log' # <<>> /\ log'[1] = 6
BY ErrorPriority DEF Fails

LEMMA FailureIsLogged ==
  ASSUME HostInv, NEW line, Fails(line), UNCHANGED <<app, runtime, delegates, ran>>
  PROVE Started'
<1>1. at' = "looper" /\ log' # <<>> /\ log'[1] = 6
  BY FailsWith
<1> QED BY <1>1 DEF HostInv, Started, Starting, Binding, Framing, Opening, Ran, app

-----------------------------------------------------------------------------
(* The activity and its start *)

LEMMA CreateStep == ASSUME HostInv, Create PROVE HostInv'
<1> USE DEF Create
<1>1. Idle /\ Idle'
  BY DEF Idle, Starting, Opening
<1>2. Windows'
  <2>1. made' = Made(made.activities + 1, made.windows)
    BY DEF HostInv, Windows, Made
  <2>2. made'.activities = made.activities + 1 /\ made'.windows = made.windows
    BY <2>1 DEF Made
  <2> QED BY <2>1, <2>2 DEF HostInv, Windows, Starting
<1>3. Canvas'
  <2>1. canvas.window = 0
    BY DEF HostInv, Windows, Canvas
  <2> QED BY <2>1 DEF HostInv, Canvas
<1>4. Frame' /\ References' /\ Memory'
  BY <1>1, Quiet DEF host
<1>5. Started'
  <2>1. callbacks' # Drawing
    BY Tables
  <2> QED BY <2>1 DEF HostInv, Started, Starting, Binding, Framing, Opening, host, Ran
<1>6. ProbeAnswers'
  BY SameAnswer DEF host
<1> QED BY <1>2, <1>3, <1>4, <1>5, <1>6 DEF HostInv

LEMMA FormatDirectoryStep == ASSUME HostHypotheses, HostInv, FormatDirectory PROVE HostInv'
<1>1. Idle /\ Idle' /\ at' \in Places /\ activity # 0
  BY DEF FormatDirectory, Fails, Goes, Idle, Starting, Places, HostInv, Windows, Opening
<1>2. Windows' /\ Canvas'
  BY <1>1, InPlace DEF FormatDirectory, app
<1>3. Frame' /\ References' /\ Memory'
  BY <1>1, Quiet DEF FormatDirectory
<1>4. Started'
  <2>1. CASE at' = "contract" /\ runtime' = [runtime EXCEPT !.directory = Read(InternalDataPath(ps))]
    <3>1. ps \in {4, 8}
      BY DEF HostHypotheses, HostInv, Windows
    <3>2. runtime' = RuntimeOf(runtime.up, "internalDataPath", runtime.probe)
      BY <2>1, <3>1, ReadsFields DEF HostInv, Started, RuntimeOf
    <3>3. runtime' = RuntimeOf(runtime'.up, runtime'.directory, runtime'.probe) /\ runtime'.up = runtime.up
          /\ runtime'.directory = "internalDataPath" /\ runtime'.probe = runtime.probe
      BY <3>2 DEF RuntimeOf
    <3>4. runtime'.up => runtime'.probe = <<"pwsh_assembly_probe", 0>>
      BY <3>3 DEF HostInv, Started
    <3> HIDE DEF FormatDirectory
    <3>5. at = "directory" /\ UNCHANGED <<app, delegates, ran>>
      BY DEF FormatDirectory
    <3> QED BY <2>1, <3>3, <3>4, <3>5 DEF HostInv, Started, Starting, Binding, Framing, Opening, Ran, app
  <2>2. CASE Fails("base directory does not fit") /\ UNCHANGED runtime
    BY <2>2, FailureIsLogged DEF FormatDirectory
  <2> QED BY <2>1, <2>2 DEF FormatDirectory, Goes
<1>5. ProbeAnswers'
  BY SameAnswer DEF FormatDirectory
<1> QED BY <1>2, <1>3, <1>4, <1>5 DEF HostInv

LEMMA FormatContractStep == ASSUME HostInv, FormatContract PROVE HostInv'
<1>1. Idle /\ Idle' /\ at' \in Places /\ activity # 0
  BY DEF FormatContract, Fails, Goes, Idle, Starting, Places, HostInv, Windows, Opening
<1>2. Windows' /\ Canvas'
  BY <1>1, InPlace DEF FormatContract, app
<1>3. Frame' /\ References' /\ Memory'
  BY <1>1, Quiet DEF FormatContract, host
<1>4. Started'
  <2>1. CASE at' = "initialize" /\ UNCHANGED log
    BY <2>1 DEF HostInv, Started, FormatContract, Starting, Binding, Framing, Opening, Ran, app, host
  <2>2. CASE Fails("contract pointer does not fit")
    BY <2>2, FailureIsLogged DEF FormatContract, host
  <2> QED BY <2>1, <2>2 DEF FormatContract, Goes
<1>5. ProbeAnswers'
  BY SameAnswer DEF FormatContract, host
<1> QED BY <1>2, <1>3, <1>4, <1>5 DEF HostInv

LEMMA InitializeStep == ASSUME HostHypotheses, HostInv, coreclr_initialize PROVE HostInv'
<1>1. Idle /\ Idle' /\ at' \in Places /\ activity # 0
  BY DEF coreclr_initialize, Fails, Goes, Idle, Starting, Places, HostInv, Windows, Opening
<1>2. Windows' /\ Canvas'
  BY <1>1, InPlace DEF coreclr_initialize, app
<1>3. Frame' /\ References' /\ Memory'
  BY <1>1, Quiet DEF coreclr_initialize
<1>4. Started'
  <2> DEFINE probe == Contract(ps)[(Place("external_assembly_probe", host_runtime_contract) - 1) * ps]
  <2>1. CASE at' = "admit" /\ ~runtime.up /\ runtime' = [runtime EXCEPT !.up = TRUE, !.probe = probe] /\ UNCHANGED log
    <3>1. ps \in {4, 8}
      BY DEF HostHypotheses, HostInv, Windows
    <3>2. probe = <<"pwsh_assembly_probe", 0>>
      BY <3>1, ContractHasProbe
    <3> HIDE DEF probe
    <3>3. runtime = RuntimeOf(runtime.up, runtime.directory, runtime.probe) /\ runtime.directory = "internalDataPath"
      BY DEF HostInv, Started, coreclr_initialize
    <3>4. runtime' = RuntimeOf(runtime'.up, runtime'.directory, runtime'.probe)
          /\ runtime'.directory = runtime.directory /\ runtime'.probe = probe /\ runtime'.up
      BY <2>1, <3>3 DEF RuntimeOf
    <3> QED BY <2>1, <3>2, <3>3, <3>4 DEF HostInv, Started, coreclr_initialize, Starting, Binding, Framing, Opening, Ran, app
  <2>2. CASE Fails("coreclr_initialize failed") /\ UNCHANGED runtime
    BY <2>2, FailureIsLogged DEF coreclr_initialize
  <2>3. PICK result \in (IF runtime.up THEN {1} ELSE {0, 1}) :
          IF result = 0 THEN Goes("admit") /\ runtime' = [runtime EXCEPT !.up = TRUE, !.probe = probe]
          ELSE Fails("coreclr_initialize failed") /\ UNCHANGED runtime
    BY DEF coreclr_initialize
  <2>4. result = 0 => ~runtime.up
    OBVIOUS
  <2> HIDE DEF probe
  <2> QED BY <2>1, <2>2, <2>3, <2>4 DEF Goes
<1>5. ProbeAnswers'
  BY SameAnswer DEF coreclr_initialize
<1> QED BY <1>2, <1>3, <1>4, <1>5 DEF HostInv

LEMMA CreateDelegateStep ==
  ASSUME HostInv, NEW here, NEW method, NEW next, coreclr_create_delegate(here, method, next),
         \/ here = "admit" /\ method = "Admit" /\ next = "admission"
         \/ here = "create run" /\ method = "RunPowerShell" /\ next = "run"
  PROVE HostInv'
<1>0. /\ at = here /\ method \in Both /\ here \in Starting /\ next \in Starting
      /\ \/ at' = next /\ delegates' = delegates \union {method} /\ UNCHANGED log
         \/ Fails("coreclr_create_delegate failed") /\ UNCHANGED delegates
      /\ UNCHANGED <<ps, hardware, app, runtime, ran, memory, java, canvas, frame, answer>>
  <2>1. method \in Both /\ here \in Starting /\ next \in Starting
    BY DEF Both, Starting
  <2> QED BY <2>1 DEF coreclr_create_delegate, Goes
<1>1. Idle /\ Idle' /\ at' \in Places /\ activity # 0
  BY <1>0 DEF Fails, Idle, Starting, Places, HostInv, Windows, Opening
<1>2. Windows' /\ Canvas'
  BY <1>0, <1>1, InPlace DEF app
<1>3. Frame' /\ References' /\ Memory'
  BY <1>0, <1>1, Quiet
<1>4. Started'
  <2>1. CASE at' = next /\ delegates' = delegates \union {method} /\ UNCHANGED log
    <3>1. delegates' \subseteq Both /\ (delegates = Both => delegates' = Both)
      BY <1>0, <2>1 DEF HostInv, Started
    <3>2. at' \in {"admission", "create run"} => "Admit" \in delegates'
      BY <1>0, <2>1
    <3>3. at' = "run" => delegates' = Both
      BY <1>0, <2>1, <3>1 DEF HostInv, Started, Both
    <3> QED BY <1>0, <2>1, <3>1, <3>2, <3>3 DEF HostInv, Started, Starting, Binding, Framing, Opening, Ran, app
  <2>2. CASE Fails("coreclr_create_delegate failed") /\ UNCHANGED delegates
    BY <1>0, <2>2, FailureIsLogged
  <2> QED BY <1>0, <2>1, <2>2
<1>5. ProbeAnswers'
  BY <1>0, SameAnswer
<1> QED BY <1>2, <1>3, <1>4, <1>5 DEF HostInv

LEMMA AdmitStep == ASSUME HostInv, Admit PROVE HostInv'
<1>1. Idle /\ Idle' /\ at' \in Places /\ activity # 0
  BY DEF Admit, Fails, Goes, Idle, Starting, Places, HostInv, Windows, Opening
<1>2. Windows' /\ Canvas'
  BY <1>1, InPlace DEF Admit, app
<1>3. Frame' /\ References' /\ Memory'
  BY <1>1, Quiet DEF Admit, host
<1>4. Started'
  <2>1. CASE at' = "create run" /\ UNCHANGED log
    BY <2>1 DEF HostInv, Started, Admit, Starting, Binding, Framing, Opening, Ran, app, host
  <2>2. CASE Fails("Admit returned")
    BY <2>2, FailureIsLogged DEF Admit, host
  <2> QED BY <2>1, <2>2 DEF Admit, Goes
<1>5. ProbeAnswers'
  BY SameAnswer DEF Admit, host
<1> QED BY <1>2, <1>3, <1>4, <1>5 DEF HostInv

LEMMA RunStep == ASSUME HostHypotheses, HostInv, RunPowerShell PROVE HostInv'
<1>1. Idle /\ Idle' /\ at' \in Places /\ activity # 0
  BY DEF RunPowerShell, Goes, Idle, Starting, Places, Binding, HostInv, Windows, Opening
<1>2. Windows' /\ Canvas'
  BY <1>1, InPlace DEF RunPowerShell, app
<1>3. Frame' /\ References' /\ Memory'
  BY <1>1, Quiet DEF RunPowerShell
<1>4. Started'
  <2>1. ps \in {4, 8}
    BY DEF HostHypotheses, HostInv, Windows
  <2>2. ran' = <<<<"env", "clazz", activity>>>> /\ runtime.up
    <3>1. ran = <<>> /\ runtime.up
      BY DEF RunPowerShell, HostInv, Started
    <3>2. ran' = Append(<<>>, <<"env", "clazz", activity>>)
      BY <2>1, <3>1, ReadsFields DEF RunPowerShell
    <3> QED BY <3>1, <3>2
  <2>3. ran' # <<>> /\ ran'[1][3] = activity
    BY <2>2
  <2>4. at = "run" /\ at' = "get class" /\ UNCHANGED <<app, runtime, delegates>>
    BY DEF RunPowerShell, Goes
  <2> QED BY <2>2, <2>3, <2>4 DEF HostInv, Started, Starting, Binding, Framing, Opening, Ran, app
<1>5. ProbeAnswers'
  BY SameAnswer DEF RunPowerShell
<1> QED BY <1>2, <1>3, <1>4, <1>5 DEF HostInv

\* A step on the way through Bind, or from it to the looper, after PowerShell ran.
LEMMA StillStarted ==
  ASSUME HostInv, Ran, at' \in Places \ Starting,
         UNCHANGED <<activity, runtime, delegates, ran>>
  PROVE Started'
BY DEF HostInv, Started, Starting, Binding, Framing, Opening, Places, Ran

LEMMA HasRun == ASSUME HostInv, at \in Binding \union Opening \/ callbacks = Drawing PROVE Ran
BY DEF HostInv, Started

-----------------------------------------------------------------------------
(* Bind, and the session *)

\* The frame where there is none.
LEMMA OutsideFrame ==
  ASSUME HostInv, at \notin Framing
  PROVE /\ frame = NoFrame /\ frame.canvas = Null /\ frame.surface = Null /\ Locked = 0
BY NoFrameIs DEF HostInv, Frame, Locked

LEMMA StaysOutside ==
  ASSUME HostInv, at \notin Framing, at' \notin Framing, UNCHANGED frame
  PROVE Frame' /\ Locked' = 0
<1>1. frame = NoFrame /\ frame.canvas = Null /\ frame.surface = Null
  BY OutsideFrame
<1>2. Frame'
  BY <1>1, NoFrameIs DEF Frame, Framing, Opening
<1>3. Locked' = 0
  BY <1>1 DEF Locked
<1> QED BY <1>2, <1>3

\* Outside a frame the VM runs with nothing pending.
LEMMA JavaOutside ==
  ASSUME HostInv, at \notin Framing \union Opening
  PROVE \E locals \in Locals : java = Runs(locals, Given(canvas.surface), 0)
<1>1. Locked = 0
  BY OutsideFrame
<1> QED BY <1>1 DEF HostInv, References, Framing, Opening

LEMMA ReferencesAre ==
  ASSUME NEW locals \in Locals', Locked' = 0, java' = Runs(locals, Given(canvas'.surface), 0)
  PROVE References'
BY DEF References

LEMMA SurfaceNotNull == \A what, of : <<what, of>> # Null
BY DEF Null

LEMMA CheckIs ==
  ASSUME HostHypotheses, NEW l, NEW g, NEW k
  PROVE /\ Check(Runs(l, g, k)) = Runs(l, g, k) /\ Runs(l, g, k).pending = NoException
        /\ Check(Raised(l, g, k)) = Runs(l, g, k) /\ Raised(l, g, k).pending # NoException
<1>1. Runs(l, g, k).pending = NoException /\ Raised(l, g, k).pending # NoException
  BY VmFields, Distinct DEF Runs, Raised
<1>2. VmAfter("ExceptionClear", Null, Raised(l, g, k)) = Runs(l, g, k)
  <2>1. ASSUME NEW p, NEW s PROVE VmAfter("ExceptionClear", Null, Vm(l, g, p, s, k)) = Vm(l, g, NoException, s, k)
    BY Certain
  <2> QED BY <2>1 DEF Raised, Runs
<1>3. PeerFunction("ExceptionClear") = "ExceptionClear"
  BY Named
<1> QED BY <1>1, <1>2, <1>3 DEF Check

LEMMA GivesFields == ASSUME NEW value, NEW vm PROVE Gives(value, vm).value = value /\ Gives(value, vm).vm = vm
BY DEF Gives

LEMMA ClassIsOne == Plus({}, Class) = {Class} /\ Minus({Class}, Class) = {} /\ Class # Null
BY DEF Plus, Minus, Class, Null

LEMMA GetObjectClassStep == ASSUME HostHypotheses, HostInv, GetObjectClass PROVE HostInv'
<1>0. /\ at = "get class" /\ at \notin Framing /\ Ran /\ activity # 0
      /\ UNCHANGED <<ps, hardware, app, host, canvas, frame>>
  BY HasRun DEF GetObjectClass, Framing, Opening, Binding, HostInv, Windows
<1>1. java = Runs({}, Given(canvas.surface), 0)
  <2>1. Locals = {{}}
    BY <1>0 DEF Locals
  <2> QED BY <1>0, <2>1, JavaOutside DEF Framing, Opening
<1>2. JniCall(PeerFunction("GetObjectClass"), <<Read(3 * ps)>>, Class, java)
        = {Gives(Class, Runs({Class}, Given(canvas.surface), 0)), Gives(Null, Raised({}, Given(canvas.surface), 0))}
  <2>1. PeerFunction("GetObjectClass") = "GetObjectClass" /\ <<Read(3 * ps)>> # Null
    BY Named DEF Null
  <2> QED BY <1>1, <2>1, GetClass, ClassIsOne
<1>3. PICK result \in JniCall(PeerFunction("GetObjectClass"), <<Read(3 * ps)>>, Class, java) :
        /\ java' = Check(result.vm)
        /\ IF result.vm.pending # NoException THEN Finally(TRUE) ELSE Goes("fill methods")
  BY DEF GetObjectClass, Class
<1>4. \/ java' = Runs({Class}, Given(canvas.surface), 0) /\ at' = "fill methods"
      \/ java' = Runs({}, Given(canvas.surface), 0) /\ at' = "unbind after exception"
  <2> DEFINE got == Runs({Class}, Given(canvas.surface), 0)
             raised == Raised({}, Given(canvas.surface), 0)
             running == Runs({}, Given(canvas.surface), 0)
  <2>1. Check(got) = got /\ got.pending = NoException
    BY CheckIs
  <2>2. Check(raised) = running /\ raised.pending # NoException
    BY CheckIs
  <2>3. result.vm = got \/ result.vm = raised
    BY <1>2, GivesFields
  <2> HIDE DEF got, raised, running
  <2>4. CASE result.vm = got
    BY <1>3, <2>1, <2>4 DEF Goes, got
  <2>5. CASE result.vm = raised
    BY <1>3, <2>2, <2>5 DEF Finally, Goes, running
  <2> QED BY <2>3, <2>4, <2>5
<1>5. at' \in Binding /\ at' \notin Framing /\ at' \in Places
  BY <1>4 DEF Binding, Framing, Opening, Places
<1>6. Windows' /\ Canvas'
  BY <1>0, <1>5, InPlace
<1>7. Frame' /\ Locked' = 0
  BY <1>0, <1>5, StaysOutside
<1>8. References'
  <2>1. Class' = Class
    BY <1>0 DEF app, Class
  <2>2. CASE java' = Runs({Class}, Given(canvas.surface), 0) /\ at' = "fill methods"
    <3>1. {Class} \in Locals'
      BY <2>1, <2>2 DEF Locals
    <3> QED BY <1>0, <1>7, <2>2, <3>1, ReferencesAre
  <2>3. CASE java' = Runs({}, Given(canvas.surface), 0) /\ at' = "unbind after exception"
    <3>1. {} \in Locals'
      BY <2>3 DEF Locals
    <3> QED BY <1>0, <1>7, <2>3, <3>1, ReferencesAre
  <2> QED BY <1>4, <2>2, <2>3
<1>9. Memory'
  BY <1>0, <1>4 DEF HostInv, Memory, host
<1>10. Started' /\ ProbeAnswers'
  BY <1>0, <1>5, StillStarted, SameAnswer DEF host, app, Binding, Starting, Opening
<1> QED BY <1>6, <1>7, <1>8, <1>9, <1>10 DEF HostInv

LEMMA FillMethodsStep == ASSUME HostInv, FillMethods PROVE HostInv'
<1>0. /\ at = "fill methods" /\ at \notin Framing /\ Ran /\ activity # 0
      /\ UNCHANGED <<ps, hardware, app, runtime, delegates, ran, java, canvas, frame, answer>>
      /\ \/ at' = "register" /\ memory' = {"methods"} \union Strings
         \/ at' = "unbind after exception" /\ memory' \subseteq {"methods"} \union Strings
  <2>1. Ran
    BY HasRun DEF FillMethods, Binding, Opening
  <2> QED BY <2>1 DEF FillMethods, Finally, Goes, Framing, Opening, HostInv, Windows, Strings
<1>1. java = Runs({Class}, Given(canvas.surface), 0)
  <2>1. Locals = {{Class}}
    BY <1>0 DEF Locals
  <2> QED BY <1>0, <2>1, JavaOutside DEF Framing, Opening
<1>2. at' \in Binding /\ at' \notin Framing /\ at' \in Places
  BY <1>0 DEF Binding, Framing, Opening, Places
<1>3. Windows' /\ Canvas'
  BY <1>0, <1>2, InPlace
<1>4. Frame' /\ Locked' = 0
  BY <1>0, <1>2, StaysOutside
<1>5. References'
  <2>1. Class' = Class
    BY <1>0 DEF app, Class
  <2>2. {Class} \in Locals'
    BY <1>0, <2>1 DEF Locals
  <2> QED BY <1>0, <1>1, <1>4, <2>2, ReferencesAre
<1>6. Memory'
  BY <1>0 DEF Memory
<1>7. Started' /\ ProbeAnswers'
  BY <1>0, <1>2, StillStarted, SameAnswer DEF app, Binding, Starting, Opening
<1> QED BY <1>3, <1>4, <1>5, <1>6, <1>7 DEF HostInv

LEMMA RegisterNativesStep == ASSUME HostHypotheses, HostInv, RegisterNatives PROVE HostInv'
<1>0. /\ at = "register" /\ at \notin Framing /\ Ran /\ activity # 0
      /\ UNCHANGED <<ps, hardware, app, runtime, delegates, ran, memory, canvas, frame, answer>>
  BY HasRun DEF RegisterNatives, Framing, Opening, Binding, HostInv, Windows
<1> DEFINE running == Runs({Class}, Given(canvas.surface), 0)
<1>1. java = running
  <2>1. Locals = {{Class}}
    BY <1>0 DEF Locals
  <2> QED BY <1>0, <2>1, JavaOutside DEF Framing, Opening
<1>2. JniCall(PeerFunction("RegisterNatives"), Class, <<"0">>, java)
        = {Gives(<<"0">>, running), Gives(Null, running), Gives(Null, Raised({Class}, Given(canvas.surface), 0))}
  <2>1. PeerFunction("RegisterNatives") = "RegisterNatives"
    BY Named
  <2> QED BY <1>1, <2>1, Register, ClassIsOne
<1>3. PICK result \in JniCall(PeerFunction("RegisterNatives"), Class, <<"0">>, java) :
        java' = Check(result.vm) /\ Finally(result.value # <<"0">>)
  BY DEF RegisterNatives, Class
<1>4. java' = running /\ at' \in {"unbind", "unbind after exception"}
  <2>1. at' \in {"unbind", "unbind after exception"}
    BY <1>3 DEF Finally, Goes
  <2> DEFINE raised == Raised({Class}, Given(canvas.surface), 0)
  <2>2. result.vm = running \/ result.vm = raised
    <3>1. result = Gives(<<"0">>, running) \/ result = Gives(Null, running) \/ result = Gives(Null, raised)
      BY <1>2
    <3> HIDE DEF running, raised
    <3> QED BY <3>1, GivesFields
  <2>3. Check(running) = running /\ Check(raised) = running
    BY CheckIs
  <2> QED BY <1>3, <2>1, <2>2, <2>3
<1>5. at' \in Binding /\ at' \notin Framing /\ at' \in Places
  BY <1>4 DEF Binding, Framing, Opening, Places
<1>6. Windows' /\ Canvas'
  BY <1>0, <1>5, InPlace
<1>7. Frame' /\ Locked' = 0
  BY <1>0, <1>5, StaysOutside
<1>8. References'
  <2>1. Class' = Class
    BY <1>0 DEF app, Class
  <2>2. {Class} \in Locals'
    BY <1>4, <2>1 DEF Locals
  <2> QED BY <1>0, <1>4, <1>7, <2>2, ReferencesAre
<1>9. Memory'
  BY <1>0, <1>4 DEF HostInv, Memory
<1>10. Started' /\ ProbeAnswers'
  BY <1>0, <1>5, StillStarted, SameAnswer DEF app, Binding, Starting, Opening
<1> QED BY <1>6, <1>7, <1>8, <1>9, <1>10 DEF HostInv

LEMMA LeaveBindStep == ASSUME HostHypotheses, HostInv, LeaveBind PROVE HostInv'
<1>0. /\ at \in {"unbind", "unbind after exception"} /\ at \notin Framing /\ Ran /\ activity # 0
      /\ UNCHANGED <<ps, hardware, app, runtime, delegates, ran, canvas, frame, answer>>
      /\ memory' = memory \ (Strings \union {"methods"}) /\ at' \in {"session", "looper"}
  BY HasRun DEF LeaveBind, Framing, Opening, Binding, HostInv, Windows, Goes, Returned
<1> DEFINE G == Given(canvas.surface)
<1>1. java = Runs({Class}, G, 0) \/ java = Runs({}, G, 0)
  <2>1. Locals = {{Class}} \/ Locals = {{}, {Class}}
    BY <1>0 DEF Locals
  <2>2. PICK locals \in Locals : java = Runs(locals, G, 0)
    BY <1>0, JavaOutside DEF Framing, Opening
  <2>3. locals = {Class} \/ locals = {}
    BY <2>1
  <2> QED BY <2>2, <2>3
<1>2. java' = Runs({}, G, 0)
  <2>1. ASSUME NEW l PROVE Runs(l, G, 0).locals = l
    BY VmFields DEF Runs
  <2>2. java' = IF Class \in java.locals THEN VmAfter("DeleteLocalRef", Class, java) ELSE java
    BY Named DEF LeaveBind, Class
  <2>3. CASE java = Runs({Class}, G, 0)
    <3>1. VmAfter("DeleteLocalRef", Class, Runs({Class}, G, 0)) = Runs(Minus({Class}, Class), G, 0)
      <4>1. ASSUME NEW l, NEW p, NEW s, NEW k
            PROVE VmAfter("DeleteLocalRef", Class, Vm(l, G, p, s, k)) = Vm(Minus(l, Class), G, p, s, k)
        BY Certain
      <4> QED BY <4>1 DEF Runs
    <3>2. Class \in java.locals
      BY <2>1, <2>3
    <3> QED BY <2>2, <2>3, <3>1, <3>2, ClassIsOne
  <2>4. CASE java = Runs({}, G, 0)
    <3>1. Class \notin java.locals
      BY <2>1, <2>4
    <3> QED BY <2>2, <2>4, <3>1
  <2> QED BY <1>1, <2>3, <2>4
<1>3. at' \notin Framing /\ at' \in Places \ Starting
  BY <1>0 DEF Binding, Framing, Opening, Places, Starting
<1>4. Windows' /\ Canvas'
  BY <1>0, <1>3, InPlace
<1>5. Frame' /\ Locked' = 0
  BY <1>0, <1>3, StaysOutside
<1>6. References'
  <2>1. {} \in Locals'
    BY <1>0 DEF Locals
  <2> QED BY <1>0, <1>2, <1>5, <2>1, ReferencesAre
<1>7. Memory'
  BY <1>0 DEF HostInv, Memory
<1>8. Started' /\ ProbeAnswers'
  BY <1>0, <1>3, StillStarted, SameAnswer DEF app
<1> QED BY <1>4, <1>5, <1>6, <1>7, <1>8 DEF HostInv

LEMMA CanvasFields ==
  ASSUME NEW a, NEW d, NEW w, NEW s, NEW t
  PROVE /\ CanvasOf(a, d, w, s, t).activity = a /\ CanvasOf(a, d, w, s, t).draws = d /\ CanvasOf(a, d, w, s, t).window = w
        /\ CanvasOf(a, d, w, s, t).surface = s /\ CanvasOf(a, d, w, s, t).surfaceWindow = t
BY DEF CanvasOf

\* A step of the session: what is left to show is what it holds.
LEMMA OpeningStep ==
  ASSUME HostInv, at \in {"session"} \union Opening, at' \in Opening,
         UNCHANGED <<ps, hardware, app, host, frame>>, Canvas', canvas'.surface = canvas.surface,
         NEW l, NEW t, l \subseteq LocalsOfOpening', java' = Vm(l, Given(canvas.surface), NoException, t, 0)
  PROVE HostInv'
<1>1. at \notin Framing /\ at' \notin Framing /\ at' \in Places \ Starting /\ Ran /\ activity # 0
  BY HasRun DEF Opening, Framing, Binding, Places, Starting, HostInv, Windows
<1>2. Windows'
  BY <1>1 DEF HostInv, Windows, app, Places
<1>3. Frame'
  BY <1>1, StaysOutside
<1>4. References'
  BY DEF References
<1>5. Memory'
  BY DEF HostInv, Memory, host, Opening
<1>6. Started' /\ ProbeAnswers'
  BY <1>1, StillStarted, SameAnswer DEF host, app
<1> QED BY <1>2, <1>3, <1>4, <1>5, <1>6 DEF HostInv

\* What the VM holds on the way.
LEMMA JavaOpening ==
  ASSUME HostInv, at \in Opening
  PROVE \E l, t : l \subseteq LocalsOfOpening /\ java = Vm(l, Given(canvas.surface), NoException, t, 0)
<1>1. at \notin Framing /\ at # "lock" /\ at # "unlock" /\ Locals = {{}}
  BY DEF Opening, Framing, Locals
<1>2. Locked = 0
  BY <1>1, OutsideFrame
<1>3. CASE \E locals \in Locals : java = Runs(locals, Given(canvas.surface), Locked)
  <2>1. java = Vm({}, Given(canvas.surface), NoException, Running, 0)
    BY <1>1, <1>2, <1>3 DEF Runs
  <2> QED BY <2>1
<1> QED BY <1>1, <1>3 DEF HostInv, References

LEMMA SameModule == ASSUME HostInv, UNCHANGED <<ps, hardware, app, canvas>> PROVE Canvas'
BY DEF HostInv, Canvas, app

LEMMA AtSession ==
  ASSUME HostInv, at = "session"
  PROVE java = Vm({}, Given(canvas.surface), NoException, Running, 0)
<1>1. at \notin Framing \union Opening /\ Locals = {{}}
  BY DEF Opening, Framing, Locals
<1> QED BY <1>1, JavaOutside DEF Runs

LEMMA Initialize_AndroidCanvasStep == ASSUME HostHypotheses, HostInv, Initialize_AndroidCanvas PROVE HostInv'
<1> DEFINE G == Given(canvas.surface)
<1>0. at = "session" /\ at \in {"session"} \union Opening /\ UNCHANGED <<ps, hardware, app, host, frame>> /\ activity # 0
  BY DEF Initialize_AndroidCanvas, HostInv, Windows
<1>1. java = Vm({}, G, NoException, Running, 0)
  BY <1>0, AtSession
<1>2. CASE canvas.activity # 0
  <2>1. at' = "opened" /\ at' \in Opening /\ UNCHANGED <<java, canvas>>
    BY <1>2 DEF Initialize_AndroidCanvas, Goes, Opening
  <2>2. Canvas'
    BY <1>0, <2>1, SameModule
  <2> QED BY <1>0, <1>1, <2>1, <2>2, OpeningStep
<1>3. CASE canvas.activity = 0
  <2>1. canvas' = [canvas EXCEPT !.activity = activity]
    BY <1>3 DEF Initialize_AndroidCanvas
  <2>2. canvas' = CanvasOf(activity, canvas.draws, canvas.window, canvas.surface, canvas.surfaceWindow)
    <3>1. ASSUME NEW a, NEW d, NEW w, NEW u, NEW v, NEW x
          PROVE [CanvasOf(a, d, w, u, v) EXCEPT !.activity = x] = CanvasOf(x, d, w, u, v)
      BY DEF CanvasOf
    <3>2. canvas = CanvasOf(canvas.activity, canvas.draws, canvas.window, canvas.surface, canvas.surfaceWindow)
      BY DEF HostInv, Canvas
    <3>3. canvas' = [CanvasOf(canvas.activity, canvas.draws, canvas.window, canvas.surface, canvas.surfaceWindow)
                       EXCEPT !.activity = activity]
      BY <2>1, <3>2
    <3> QED BY <3>1, <3>3
  <2>3. /\ canvas'.activity = activity /\ canvas'.draws = canvas.draws /\ canvas'.window = canvas.window
        /\ canvas'.surface = canvas.surface /\ canvas'.surfaceWindow = canvas.surfaceWindow
    BY <2>2, CanvasFields
  <2>4. Canvas'
    BY <1>0, <2>2, <2>3 DEF HostInv, Canvas, app
  <2>5. PICK found \in Invoke_JavaCall("FindClass", <<"name">>, TypefaceClass, java) :
          IF found.ends = "throws" THEN java' = found.vm /\ Goes("opened")
          ELSE \E class \in Lasting(TypefaceClass, found.vm) :
               \E field \in Invoke_JavaCall("GetStaticFieldID", class.value, Null,
                                            VmAfter(Function("DeleteLocalRef"), TypefaceClass, class.vm)) :
                 IF field.ends = "throws" THEN java' = field.vm /\ Goes("opened")
                 ELSE \E mono \in JniCall(Function("GetStaticObjectField"), class.value, Monospace, field.vm) :
                        java' = mono.vm /\ Goes("members")
    BY <1>3 DEF Initialize_AndroidCanvas
  <2>6. PICK m, t : m \subseteq {TypefaceClass} /\ found.vm = Vm(m, G, NoException, t, 0)
    <3>1. Plus({}, TypefaceClass) = {TypefaceClass}
      BY DEF Plus
    <3> QED BY <1>1, <3>1, InvokeGives
  <2>7. CASE found.ends = "throws"
    \* FindClass found nothing and left no reference
    <3>1. found.vm = Vm({}, G, NoException, Running, 0)
      BY <1>1, <2>7, InvokeThrows
    <3>2. at' = "opened" /\ at' \in Opening /\ java' = Vm({}, G, NoException, Running, 0)
      BY <2>5, <2>7, <3>1 DEF Goes, Opening
    <3> QED BY <1>0, <2>3, <2>4, <3>2, OpeningStep
  <2>8. CASE found.ends # "throws"
    <3>1. PICK class \in Lasting(TypefaceClass, Vm(m, G, NoException, t, 0)) :
            \E field \in Invoke_JavaCall("GetStaticFieldID", class.value, Null,
                                         VmAfter("DeleteLocalRef", TypefaceClass, class.vm)) :
              IF field.ends = "throws" THEN java' = field.vm /\ Goes("opened")
              ELSE \E mono \in JniCall("GetStaticObjectField", class.value, Monospace, field.vm) :
                     java' = mono.vm /\ Goes("members")
      <4>1. Function("DeleteLocalRef") = "DeleteLocalRef" /\ Function("GetStaticObjectField") = "GetStaticObjectField"
        BY Named
      <4> QED BY <2>5, <2>6, <2>8, <4>1
    <3>2. PICK q, u : class.vm = Vm(m, G, q, u, 0)
      BY LastingIs
    <3>3. VmAfter("DeleteLocalRef", TypefaceClass, class.vm) = Vm({}, G, q, u, 0)
      <4>1. VmAfter("DeleteLocalRef", TypefaceClass, Vm(m, G, q, u, 0)) = Vm(Minus(m, TypefaceClass), G, q, u, 0)
        BY Certain
      <4>2. Minus(m, TypefaceClass) = {}
        BY <2>6 DEF Minus
      <4> QED BY <3>2, <4>1, <4>2
    <3>4. PICK field \in Invoke_JavaCall("GetStaticFieldID", class.value, Null, Vm({}, G, q, u, 0)) :
            IF field.ends = "throws" THEN java' = field.vm /\ Goes("opened")
            ELSE \E mono \in JniCall("GetStaticObjectField", class.value, Monospace, field.vm) :
                   java' = mono.vm /\ Goes("members")
      BY <3>1, <3>3
    <3>5. PICK x : field.vm = Vm({}, G, NoException, x, 0)
      BY InvokeLookup
    <3>6. CASE field.ends = "throws"
      <4>1. at' = "opened" /\ at' \in Opening /\ java' = Vm({}, G, NoException, x, 0)
        BY <3>4, <3>5, <3>6 DEF Goes, Opening
      <4> QED BY <1>0, <2>3, <2>4, <4>1, OpeningStep
    <3>7. CASE field.ends # "throws"
      <4>1. PICK mono \in JniCall("GetStaticObjectField", class.value, Monospace, Vm({}, G, NoException, x, 0)) :
              java' = mono.vm /\ Goes("members")
        BY <3>4, <3>5, <3>7
      <4>2. PICK n, y, v : n \subseteq Plus({}, Monospace) /\ mono = Gives(v, Vm(n, G, NoException, y, 0))
        BY GivesLocal
      <4>3. at' = "members" /\ at' \in Opening /\ java' = Vm(n, G, NoException, y, 0)
        BY <4>1, <4>2, GivesFields DEF Goes, Opening
      <4>4. n \subseteq LocalsOfOpening'
        <5>1. Monospace' = Monospace
          BY <1>0 DEF Monospace, app
        <5> QED BY <4>2, <4>3, <5>1 DEF LocalsOfOpening, Plus
      <4> QED BY <1>0, <2>3, <2>4, <4>3, <4>4, OpeningStep
    <3> QED BY <3>6, <3>7
  <2> QED BY <2>7, <2>8
<1> QED BY <1>2, <1>3

LEMMA OpenMembersStep == ASSUME HostHypotheses, HostInv, OpenMembers PROVE HostInv'
<1> DEFINE G == Given(canvas.surface)
<1>0. /\ at = "members" /\ at \in Opening /\ at \in {"session"} \union Opening
      /\ UNCHANGED <<ps, hardware, app, host, frame, canvas>> /\ Canvas'
  <2>1. at = "members" /\ UNCHANGED <<ps, hardware, app, host, frame, canvas>>
    BY DEF OpenMembers
  <2> QED BY <2>1, SameModule DEF Opening
<1>1. PICK l, s : l \subseteq {Monospace} /\ java = Vm(l, G, NoException, s, 0)
  BY <1>0, JavaOpening DEF LocalsOfOpening
<1>2. /\ at' \in {"paint", "opened"} => {Monospace} \subseteq LocalsOfOpening'
      /\ at' = "paint" => {Monospace, Paint} \subseteq LocalsOfOpening'
  BY <1>0 DEF LocalsOfOpening, Monospace, Paint, SetTypeface, app
<1>3. PICK method \in Invoke_JavaCall("GetMethodID", TypefaceClass, Null, Vm(l, G, NoException, s, 0)) :
        IF method.ends = "throws" THEN java' = method.vm /\ Goes("opened")
        ELSE \E paint \in Invoke_JavaCall("NewObjectA", TypefaceClass, Paint, method.vm) :
               java' = paint.vm /\ GoesUnless(paint.ends, "paint")
  BY <1>1 DEF OpenMembers
<1>4. PICK t : method.vm = Vm(l, G, NoException, t, 0)
  BY InvokeLookup
<1>5. CASE method.ends = "throws"
  <2>1. at' = "opened" /\ at' \in Opening /\ java' = Vm(l, G, NoException, t, 0)
    BY <1>3, <1>4, <1>5 DEF Goes, Opening
  <2> QED BY <1>0, <1>1, <1>2, <2>1, OpeningStep
<1>6. CASE method.ends # "throws"
  <2>1. PICK paint \in Invoke_JavaCall("NewObjectA", TypefaceClass, Paint, Vm(l, G, NoException, t, 0)) :
          java' = paint.vm /\ GoesUnless(paint.ends, "paint")
    BY <1>3, <1>4, <1>6
  <2>2. CASE paint.ends = "throws"
    <3>1. paint.vm = Vm(l, G, NoException, t, 0)
      BY <2>2, InvokeThrows
    <3>2. at' = "opened" /\ at' \in Opening /\ java' = Vm(l, G, NoException, t, 0)
      BY <2>1, <2>2, <3>1 DEF GoesUnless, Goes, Opening
    <3> QED BY <1>0, <1>1, <1>2, <3>2, OpeningStep
  <2>3. CASE paint.ends # "throws"
    <3>1. PICK m, u : m \subseteq Plus(l, Paint) /\ paint.vm = Vm(m, G, NoException, u, 0)
      BY InvokeGives
    <3>2. at' = "paint" /\ at' \in Opening /\ java' = Vm(m, G, NoException, u, 0)
      BY <2>1, <2>3, <3>1 DEF GoesUnless, Goes, Opening
    <3>3. m \subseteq LocalsOfOpening'
      BY <1>1, <1>2, <3>1, <3>2 DEF Plus
    <3> QED BY <1>0, <3>2, <3>3, OpeningStep
  <2> QED BY <2>2, <2>3
<1> QED BY <1>5, <1>6

LEMMA OpenPaintStep == ASSUME HostHypotheses, HostInv, OpenPaint PROVE HostInv'
<1> DEFINE G == Given(canvas.surface)
<1>0. /\ at = "paint" /\ at \in Opening /\ at \in {"session"} \union Opening
      /\ UNCHANGED <<ps, hardware, app, host, frame, canvas>> /\ Canvas'
  <2>1. at = "paint" /\ UNCHANGED <<ps, hardware, app, host, frame, canvas>>
    BY DEF OpenPaint
  <2> QED BY <2>1, SameModule DEF Opening
<1>1. PICK l, s : l \subseteq {Monospace, Paint} /\ java = Vm(l, G, NoException, s, 0)
  BY <1>0, JavaOpening DEF LocalsOfOpening
<1>2. at' \in {"handlers", "opened"} => {Monospace, SetTypeface} \subseteq LocalsOfOpening'
  BY <1>0 DEF LocalsOfOpening, Monospace, Paint, SetTypeface, app
<1>3. PICK paint \in Lasting(Paint, Vm(l, G, NoException, s, 0)) :
        \E mono \in Lasting(Monospace, Remove_JavaLocalRef(Paint, paint.vm)) :
        \E method \in Invoke_JavaCall("GetStaticMethodID", TypefaceClass, Null, mono.vm) :
          IF method.ends = "throws" THEN java' = method.vm /\ Goes("opened")
          ELSE \E set \in Invoke_JavaCall("CallObjectMethodA", paint.value, SetTypeface, method.vm) :
                 java' = set.vm /\ GoesUnless(set.ends, "handlers")
  BY <1>1 DEF OpenPaint
<1>4. PICK p, t : paint.vm = Vm(l, G, p, t, 0)
  BY LastingIs
<1> DEFINE n == Minus(l, Paint)
<1>5. Remove_JavaLocalRef(Paint, paint.vm) = Vm(n, G, p, t, 0) /\ n \subseteq {Monospace}
  <2>1. Paint # Null
    BY DEF Paint, Null
  <2>2. n \subseteq {Monospace}
    BY <1>1 DEF Minus
  <2> QED BY <1>4, <2>1, <2>2, RemoveIs
<1> HIDE DEF n
<1>6. PICK mono \in Lasting(Monospace, Vm(n, G, p, t, 0)) :
        \E method \in Invoke_JavaCall("GetStaticMethodID", TypefaceClass, Null, mono.vm) :
          IF method.ends = "throws" THEN java' = method.vm /\ Goes("opened")
          ELSE \E set \in Invoke_JavaCall("CallObjectMethodA", paint.value, SetTypeface, method.vm) :
                 java' = set.vm /\ GoesUnless(set.ends, "handlers")
  BY <1>3, <1>5
<1>7. PICK q, u : mono.vm = Vm(n, G, q, u, 0)
  BY LastingIs
<1>8. PICK method \in Invoke_JavaCall("GetStaticMethodID", TypefaceClass, Null, Vm(n, G, q, u, 0)) :
        IF method.ends = "throws" THEN java' = method.vm /\ Goes("opened")
        ELSE \E set \in Invoke_JavaCall("CallObjectMethodA", paint.value, SetTypeface, method.vm) :
               java' = set.vm /\ GoesUnless(set.ends, "handlers")
  BY <1>6, <1>7
<1>9. PICK x : method.vm = Vm(n, G, NoException, x, 0)
  BY InvokeLookup
<1>10. CASE method.ends = "throws"
  <2>1. at' = "opened" /\ at' \in Opening /\ java' = Vm(n, G, NoException, x, 0)
    BY <1>8, <1>9, <1>10 DEF Goes, Opening
  <2> QED BY <1>0, <1>2, <1>5, <2>1, OpeningStep
<1>11. CASE method.ends # "throws"
  <2>1. PICK set \in Invoke_JavaCall("CallObjectMethodA", paint.value, SetTypeface, Vm(n, G, NoException, x, 0)) :
          java' = set.vm /\ GoesUnless(set.ends, "handlers")
    BY <1>8, <1>9, <1>11
  <2>2. PICK m, y : m \subseteq Plus(n, SetTypeface) /\ set.vm = Vm(m, G, NoException, y, 0)
    BY InvokeGives
  <2>3. at' \in {"handlers", "opened"} /\ at' \in Opening /\ java' = Vm(m, G, NoException, y, 0)
    BY <2>1, <2>2 DEF GoesUnless, Goes, Opening
  <2>4. m \subseteq LocalsOfOpening'
    BY <1>2, <1>5, <2>2, <2>3 DEF Plus
  <2> QED BY <1>0, <2>3, <2>4, OpeningStep
<1> QED BY <1>10, <1>11

LEMMA Register_WindowDrawHandlerStep == ASSUME HostInv, Register_WindowDrawHandler PROVE HostInv'
<1>0. /\ at = "handlers" /\ at' = "opened" /\ at \in Opening /\ at' \in Opening
      /\ UNCHANGED <<ps, hardware, activity, made, window, host, java, frame>> /\ activity # 0
  BY DEF Register_WindowDrawHandler, Goes, Opening, HostInv, Windows
<1>1. PICK l, t : l \subseteq LocalsOfOpening /\ java = Vm(l, Given(canvas.surface), NoException, t, 0)
  BY <1>0, JavaOpening
<1>2. l \subseteq LocalsOfOpening'
  BY <1>0, <1>1 DEF LocalsOfOpening, Monospace, SetTypeface
<1>3. CASE UNCHANGED <<canvas, callbacks>>
  <2>1. UNCHANGED app
    BY <1>0, <1>3 DEF app
  <2>2. Canvas'
    BY <1>0, <1>3, <2>1, SameModule
  <2> QED BY <1>0, <1>1, <1>2, <1>3, <2>1, <2>2, OpeningStep
<1>4. CASE /\ canvas' = [canvas EXCEPT !.draws = TRUE]
           /\ callbacks' = [callbacks EXCEPT ![7] = "draw", ![8] = "draw", ![9] = "draw", ![10] = "release"]
  <2>2. callbacks' = Drawing
    BY <1>4, Redraws DEF HostInv, Windows
  <2>1. PICK registered : registered = TRUE
    OBVIOUS
  <2>3. canvas' = CanvasOf(canvas.activity, registered, canvas.window, canvas.surface, canvas.surfaceWindow)
    <3> DEFINE Set(c, x) == [c EXCEPT !.draws = x]
    <3>1. ASSUME NEW a, NEW d, NEW w, NEW u, NEW v, NEW x
          PROVE Set(CanvasOf(a, d, w, u, v), x) = CanvasOf(a, x, w, u, v)
      BY DEF CanvasOf
    <3>2. canvas = CanvasOf(canvas.activity, canvas.draws, canvas.window, canvas.surface, canvas.surfaceWindow)
      BY DEF HostInv, Canvas
    <3>3. canvas' = Set(canvas, registered)
      BY <1>4, <2>1
    <3> HIDE DEF Set
    <3> QED BY <3>1, <3>2, <3>3
  <2>4. /\ canvas'.activity = canvas.activity /\ canvas'.window = canvas.window
        /\ canvas'.surface = canvas.surface /\ canvas'.surfaceWindow = canvas.surfaceWindow
    BY <2>3, CanvasFields
  <2>5. Windows'
    BY <1>0, <2>2 DEF HostInv, Windows
  <2>6. canvas' = CanvasOf(canvas'.activity, canvas'.draws, canvas'.window, canvas'.surface, canvas'.surfaceWindow)
    BY <2>3, CanvasFields
  <2>7. Canvas'
    BY <1>0, <2>2, <2>4, <2>6 DEF HostInv, Canvas
  <2>8. at \notin Framing /\ at' \notin Framing /\ at' \in Places \ Starting /\ Ran
    BY <1>0, HasRun DEF Opening, Framing, Places, Starting
  <2>9. Frame'
    BY <1>0, <2>8, StaysOutside
  <2>10. References'
    BY <1>0, <1>1, <1>2, <2>4 DEF References
  <2>11. Memory'
    BY <1>0 DEF HostInv, Memory, host, Opening
  <2>12. Started' /\ ProbeAnswers'
    BY <1>0, <2>8, StillStarted, SameAnswer DEF host
  <2> QED BY <2>5, <2>7, <2>9, <2>10, <2>11, <2>12 DEF HostInv
<1> QED BY <1>3, <1>4 DEF Register_WindowDrawHandler

LEMMA ReturnStep == ASSUME HostInv, Return, java.state = Running PROVE HostInv'
<1>0. /\ at = "opened" /\ at \in Opening /\ at' = "looper" /\ activity # 0
      /\ UNCHANGED <<ps, hardware, app, host, canvas, frame>>
  BY DEF Return, Returned, Opening, HostInv, Windows
<1>1. at \notin Framing /\ at' \notin Framing /\ at' \in Places \ Starting /\ Ran
  BY <1>0, HasRun DEF Opening, Framing, Places, Starting
<1>2. java' = Runs({}, Given(canvas.surface), 0)
  <2>1. PICK l, t : java = Vm(l, Given(canvas.surface), NoException, t, 0)
    BY <1>0, JavaOpening
  <2>2. t = Running
    BY <2>1, VmFields
  <2>3. [Vm(l, Given(canvas.surface), NoException, Running, 0) EXCEPT !.locals = {}]
          = Vm({}, Given(canvas.surface), NoException, Running, 0)
    BY DEF Vm
  <2> QED BY <2>1, <2>2, <2>3 DEF Return, Runs
<1>3. Windows' /\ Canvas'
  BY <1>0, <1>1, InPlace
<1>4. Frame' /\ Locked' = 0
  BY <1>0, <1>1, StaysOutside
<1>5. References'
  <2>1. {} \in Locals'
    BY <1>0 DEF Locals
  <2> QED BY <1>0, <1>2, <1>4, <2>1, ReferencesAre
<1>6. Memory'
  BY <1>0 DEF HostInv, Memory, host
<1>7. Started' /\ ProbeAnswers'
  BY <1>0, <1>1, StillStarted, SameAnswer DEF host, app
<1> QED BY <1>3, <1>4, <1>5, <1>6, <1>7 DEF HostInv

LEMMA DestroyStep == ASSUME HostInv, Destroy PROVE HostInv'
<1>1. Idle /\ Idle' /\ at = "looper" /\ at' = "looper"
  BY DEF Destroy, Idle, Opening
<1>2. Windows'
  BY DEF Destroy, HostInv, Windows
<1>3. Canvas'
  BY DEF Destroy, HostInv, Canvas, Windows
<1>4. Frame' /\ References' /\ Memory'
  BY <1>1, Quiet DEF Destroy, host
<1>5. Started'
  <2>1. callbacks' # Drawing
    BY Tables DEF Destroy
  <2> QED BY <1>1, <2>1 DEF Destroy, HostInv, Started, Binding, host, Ran, Opening
<1>6. ProbeAnswers'
  BY SameAnswer DEF Destroy, host
<1> QED BY <1>2, <1>3, <1>4, <1>5, <1>6 DEF HostInv

LEMMA ProbeStep == ASSUME HostHypotheses, HostInv, Probe PROVE HostInv'
<1>1. Idle /\ Idle' /\ at = "looper" /\ at' = "looper"
  BY DEF Probe, Idle, Opening
<1>2. Windows' /\ Canvas'
  BY <1>1, InPlace DEF Probe, Places, Opening
<1>3. Frame' /\ References' /\ Memory'
  BY <1>1, Quiet DEF Probe
<1>4. Started'
  BY <1>1 DEF Probe, HostInv, Started, Binding, Framing, Opening, app, Ran
<1>5. ProbeAnswers'
  <2>1. PICK path \in Requests : answer' = <<path, pwsh_assembly_probe(path)>>
    BY DEF Probe
  <2>2. path # End
    BY DEF HostHypotheses
  <2>3. answer'[1] = path /\ answer'[2] = pwsh_assembly_probe(path)
    BY <2>1
  <2> DEFINE stored == {i \in 1..Len(StoreEntries) : StoreEntries[i].name = path}
             entry == StoreEntries[CHOOSE i \in stored : \A j \in stored : i <= j]
  <2>4. pwsh_assembly_probe(path)
          = IF stored = {} THEN [found |-> FALSE, start |-> Garbage, size |-> <<Garbage, Garbage>>]
            ELSE [found |-> TRUE, start |-> entry.offset, size |-> <<entry.size, 0>>]
    BY <2>2, ProbeFinds
  <2> QED BY <2>3, <2>4, Zenon DEF ProbeAnswers
<1> QED BY <1>2, <1>3, <1>4, <1>5 DEF HostInv


-----------------------------------------------------------------------------
(* The callbacks, and one frame *)

LEMMA FrameSet ==
  ASSUME NEW w, NEW s, NEW p, NEW x
  PROVE /\ [FrameOf(w, s, p) EXCEPT !.window = x] = FrameOf(x, s, p)
        /\ [FrameOf(w, s, p) EXCEPT !.surface = x] = FrameOf(w, x, p)
        /\ [FrameOf(w, s, p) EXCEPT !.canvas = x] = FrameOf(w, s, x)
        /\ FrameOf(w, s, p).window = w /\ FrameOf(w, s, p).surface = s /\ FrameOf(w, s, p).canvas = p
BY DEF FrameOf

LEMMA FrameFields ==
  ASSUME NEW w, NEW f, f = FrameOf(w, Null, Null)
  PROVE f.window = w /\ f.surface = Null /\ f.canvas = Null
BY FrameSet

LEMMA CanvasSet ==
  ASSUME NEW a, NEW d, NEW w, NEW s, NEW t, NEW x
  PROVE /\ [CanvasOf(a, d, w, s, t) EXCEPT !.window = x] = CanvasOf(a, d, x, s, t)
        /\ [CanvasOf(a, d, w, s, t) EXCEPT !.surface = x] = CanvasOf(a, d, w, x, t)
        /\ [CanvasOf(a, d, w, s, t) EXCEPT !.surfaceWindow = x] = CanvasOf(a, d, w, s, x)
BY DEF CanvasOf

LEMMA FrameIs == ASSUME HostInv PROVE frame = FrameOf(frame.window, frame.surface, frame.canvas)
BY DEF HostInv, Frame

LEMMA CanvasIs ==
  ASSUME HostInv
  PROVE canvas = CanvasOf(canvas.activity, canvas.draws, canvas.window, canvas.surface, canvas.surfaceWindow)
BY DEF HostInv, Canvas

\* The frame a callback starts.
LEMMA NewFrame ==
  ASSUME NEW w PROVE [NoFrame EXCEPT !.window = w] = FrameOf(w, Null, Null)
<1>1. NoFrame = FrameOf(NoFrame.window, Null, Null)
  BY NoFrameIs
<1> QED BY <1>1, FrameSet

\* At the looper the VM holds the module's surface and nothing else.
LEMMA JavaAtLooper == ASSUME HostInv, at = "looper" PROVE java = Runs({}, Given(canvas.surface), 0)
<1>1. at \notin Framing /\ Locals = {{}}
  BY DEF Framing, Locals
<1> QED BY <1>1, JavaOutside DEF Opening

LEMMA DrawingHandler ==
  ASSUME HostInv, NEW w, NEW callback \in {"onNativeWindowCreated", "onNativeWindowResized", "onNativeWindowRedrawNeeded"},
         Handle(callback, w)
  PROVE \/ /\ callbacks = Drawing
           /\ frame' = FrameOf(w, Null, Null) /\ canvas' = [canvas EXCEPT !.window = w] /\ at' = "open surface"
           /\ UNCHANGED <<log, java>>
        \/ callbacks = Nobody /\ UNCHANGED <<at, java, canvas, frame, log>>
<1>1. callbacks = Drawing \/ callbacks = Nobody
  BY DEF HostInv, Windows
<1>2. Slot(callback) \in {7, 8, 9}
  BY Slots
<1>3. CASE callbacks = Drawing
  <2>1. callbacks[Slot(callback)] = "draw"
    BY <1>2, <1>3, Tables
  <2> QED BY <1>3, <2>1, NewFrame DEF Handle, Goes
<1>4. CASE callbacks = Nobody
  <2>1. callbacks[Slot(callback)] = "none"
    BY <1>2, <1>4, Tables
  <2>2. callbacks[Slot(callback)] # "draw" /\ callbacks[Slot(callback)] # "release"
    BY <2>1
  <2> QED BY <1>4, <2>2 DEF Handle
<1> QED BY <1>1, <1>3, <1>4

\* The module's canvas takes another window.
LEMMA CanvasTakes ==
  ASSUME HostInv, NEW w, canvas' = [canvas EXCEPT !.window = w]
  PROVE /\ canvas' = CanvasOf(canvas'.activity, canvas'.draws, canvas'.window, canvas'.surface, canvas'.surfaceWindow)
        /\ canvas'.activity = canvas.activity /\ canvas'.window = w
        /\ canvas'.surface = canvas.surface /\ canvas'.surfaceWindow = canvas.surfaceWindow
<1>1. canvas' = CanvasOf(canvas.activity, canvas.draws, w, canvas.surface, canvas.surfaceWindow)
  BY CanvasIs, CanvasSet
<1> QED BY <1>1, CanvasFields

\* A frame starts on the window that is there.
LEMMA Starts ==
  ASSUME HostInv, at = "looper", at' = "open surface", window' # 0, window' \in Nat, activity # 0,
         frame' = FrameOf(window', Null, Null), callbacks = Drawing,
         canvas.surfaceWindow \in {0, window'}, canvas' = [canvas EXCEPT !.window = window'],
         made' = Made(made'.activities, made'.windows), made'.activities \in Nat, made'.windows \in Nat,
         UNCHANGED <<ps, hardware, activity, callbacks, host, java>>
  PROVE HostInv'
<1>1. Windows'
  BY DEF HostInv, Windows, Framing, Opening
<1>2. /\ canvas' = CanvasOf(canvas'.activity, canvas'.draws, canvas'.window, canvas'.surface, canvas'.surfaceWindow)
      /\ canvas'.activity = canvas.activity /\ canvas'.window = window'
      /\ canvas'.surface = canvas.surface /\ canvas'.surfaceWindow = canvas.surfaceWindow
  BY CanvasTakes, Zenon
<1>3. Canvas'
  BY <1>2 DEF HostInv, Canvas
<1>4. frame'.window = window' /\ frame'.surface = Null /\ frame'.canvas = Null
  BY FrameFields, Zenon
<1>5. Frame'
  BY <1>2, <1>4 DEF Frame, Framing, Opening
<1>6. References'
  <2>1. java = Runs({}, Given(canvas.surface), 0)
    BY JavaAtLooper
  <2>2. Locked' = 0 /\ {} \in Locals'
    BY <1>4 DEF Locked, Locals
  <2> QED BY <1>2, <2>1, <2>2, ReferencesAre
<1>7. Memory'
  BY DEF HostInv, Memory, host
<1>8. Started' /\ ProbeAnswers'
  BY HasRun, StillStarted, SameAnswer DEF host, Places, Framing, Opening, Starting
<1> QED BY <1>1, <1>3, <1>5, <1>6, <1>7, <1>8 DEF HostInv

LEMMA WindowCreatedStep == ASSUME HostInv, WindowCreated PROVE HostInv'
<1>0. /\ at = "looper" /\ activity # 0 /\ window = 0
      /\ window' = made.windows + 1 /\ made' = [made EXCEPT !.windows = @ + 1]
      /\ Handle("onNativeWindowCreated", window')
      /\ UNCHANGED <<ps, hardware, activity, callbacks, host>>
  BY DEF WindowCreated
<1>1. /\ made' = Made(made'.activities, made'.windows) /\ made'.activities \in Nat /\ made'.windows \in Nat
      /\ window' \in Nat /\ window' # 0
  <2>1. made' = Made(made.activities, made.windows + 1)
    BY <1>0 DEF HostInv, Windows, Made
  <2>2. made'.activities = made.activities /\ made'.windows = made.windows + 1
    BY <2>1 DEF Made
  <2> QED BY <1>0, <2>1, <2>2 DEF HostInv, Windows
<1>2. canvas.window = 0 /\ canvas.surfaceWindow = 0
  BY <1>0 DEF HostInv, Canvas
<1>3. CASE callbacks = Drawing /\ frame' = FrameOf(window', Null, Null) /\ canvas' = [canvas EXCEPT !.window = window']
           /\ at' = "open surface" /\ UNCHANGED <<log, java>>
  BY <1>0, <1>1, <1>2, <1>3, Starts
<1>4. CASE callbacks = Nobody /\ UNCHANGED <<at, java, canvas, frame, log>>
  <2>1. Windows'
    BY <1>0, <1>1, <1>4 DEF HostInv, Windows
  <2>2. Canvas'
    BY <1>0, <1>2, <1>4, Tables DEF HostInv, Canvas
  <2>3. Idle /\ Idle'
    BY <1>0, <1>4 DEF Idle, Opening
  <2>4. Frame' /\ References' /\ Memory'
    BY <1>0, <1>4, <2>3, Quiet DEF host
  <2>5. Started' /\ ProbeAnswers'
    BY <1>0, <1>4, SameAnswer DEF host, HostInv, Started, Ran
  <2> QED BY <2>1, <2>2, <2>4, <2>5 DEF HostInv
<1> QED BY <1>0, <1>3, <1>4, DrawingHandler

LEMMA WindowAgainStep == ASSUME HostInv, WindowAgain PROVE HostInv'
<1>0. at = "looper" /\ window # 0 /\ UNCHANGED <<ps, hardware, app, host>>
  BY DEF WindowAgain
<1>1. activity # 0 /\ window' = window /\ window' \in Nat /\ canvas.surfaceWindow \in {0, window'}
      /\ made' = Made(made'.activities, made'.windows) /\ made'.activities \in Nat /\ made'.windows \in Nat
  BY <1>0 DEF HostInv, Windows, Canvas, app
<1>2. PICK callback \in {"onNativeWindowResized", "onNativeWindowRedrawNeeded"} : Handle(callback, window)
  BY DEF WindowAgain
<1>3. CASE callbacks = Drawing /\ frame' = FrameOf(window, Null, Null) /\ canvas' = [canvas EXCEPT !.window = window]
           /\ at' = "open surface" /\ UNCHANGED <<log, java>>
  BY <1>0, <1>1, <1>3, Starts DEF app
<1>4. CASE callbacks = Nobody /\ UNCHANGED <<at, java, canvas, frame, log>>
  <2>1. UNCHANGED vars
    BY <1>0, <1>4 DEF vars
  <2>2. Windows' /\ Canvas'
    BY <1>0, <1>4, InPlace DEF Places, Opening
  <2>3. Idle /\ Idle'
    BY <1>0, <1>4 DEF Idle, Opening
  <2>4. Frame' /\ References' /\ Memory'
    BY <1>0, <1>4, <2>3, Quiet DEF host
  <2>5. Started' /\ ProbeAnswers'
    BY <1>0, <1>4, SameAnswer DEF host, app, HostInv, Started, Ran
  <2> QED BY <2>2, <2>4, <2>5 DEF HostInv
<1> QED BY <1>2, <1>3, <1>4, DrawingHandler

LEMMA Request_WindowDrawStep == ASSUME HostInv, Request_WindowDraw PROVE HostInv'
<1>0. /\ at = "looper" /\ canvas.window # 0 /\ at' = "open surface"
      /\ UNCHANGED <<ps, hardware, app, host, java, canvas, log>>
      /\ frame' = FrameOf(canvas.window, Null, Null)
  BY NewFrame DEF Request_WindowDraw, Draw, Goes
<1>1. /\ canvas.window = window /\ window' = window /\ window' # 0 /\ window' \in Nat /\ callbacks = Drawing
      /\ activity # 0 /\ canvas.surfaceWindow \in {0, window'}
      /\ made' = Made(made'.activities, made'.windows) /\ made'.activities \in Nat /\ made'.windows \in Nat
  BY <1>0 DEF HostInv, Windows, Canvas, app
<1>2. canvas' = [canvas EXCEPT !.window = window']
  <2>1. [canvas EXCEPT !.window = window']
          = CanvasOf(canvas.activity, canvas.draws, window', canvas.surface, canvas.surfaceWindow)
    BY CanvasIs, CanvasSet
  <2> QED BY <1>0, <1>1, <2>1, CanvasIs
<1> QED BY <1>0, <1>1, <1>2, Starts DEF app

LEMMA CanvasFieldsAre ==
  ASSUME NEW c, NEW a, NEW d, NEW w, NEW s, NEW t, c = CanvasOf(a, d, w, s, t)
  PROVE /\ c = CanvasOf(c.activity, c.draws, c.window, c.surface, c.surfaceWindow)
        /\ c.activity = a /\ c.draws = d /\ c.window = w /\ c.surface = s /\ c.surfaceWindow = t
BY CanvasFields

Surfaced(c, surface, w) == [c EXCEPT !.surface = surface, !.surfaceWindow = w]
Windowed(c, w) == [c EXCEPT !.window = w]

LEMMA SurfacedIs ==
  ASSUME NEW a, NEW d, NEW w, NEW s, NEW t, NEW x, NEW y
  PROVE Surfaced(CanvasOf(a, d, w, s, t), x, y) = CanvasOf(a, d, w, x, y)
<1> DEFINE c == CanvasOf(a, d, w, s, t)
           first == [c EXCEPT !.surface = x]
<1>1. first = CanvasOf(a, d, w, x, t)
  BY DEF CanvasOf
<1>2. [CanvasOf(a, d, w, x, t) EXCEPT !.surfaceWindow = y] = CanvasOf(a, d, w, x, y)
  BY DEF CanvasOf
<1>3. [c EXCEPT !.surface = x, !.surfaceWindow = y] = [first EXCEPT !.surfaceWindow = y]
  OBVIOUS
<1> QED BY <1>1, <1>2, <1>3 DEF Surfaced

LEMMA WindowedIs ==
  ASSUME NEW a, NEW d, NEW w, NEW s, NEW t, NEW z
  PROVE Windowed(CanvasOf(a, d, w, s, t), z) = CanvasOf(a, d, z, s, t)
BY DEF CanvasOf, Windowed

\* Closing the module's surface leaves no reference to it, whatever the call says.
LEMMA ClosedIs ==
  ASSUME HostHypotheses, HostInv, at = "looper", NEW closed \in Closed(canvas, java)
  PROVE closed.vm = Runs({}, {}, 0)
<1> DEFINE s == canvas.surface
<1>1. java = Runs({}, Given(s), 0)
  BY JavaAtLooper
<1>2. CASE s = Null
  <2>1. Given(s) = {}
    BY <1>2 DEF Given
  <2>2. Closed(canvas, java) = {[ends |-> "returns", vm |-> java]}
    BY <1>2 DEF Closed
  <2> QED BY <1>1, <2>1, <2>2
<1>3. CASE s # Null
  <2>1. Invoke_JavaCall("CallVoidMethodA", s, Null, Runs({}, Given(s), 0))
          = {Done(Null, Runs({}, Given(s), 0)), Thrown(Runs({}, Given(s), 0))}
    BY <1>3, InvokeVoid
  <2>2. PICK result \in Invoke_JavaCall("CallVoidMethodA", s, Null, java) :
          closed.vm = VmAfter(Function("DeleteGlobalRef"), s, result.vm)
    BY <1>3 DEF Closed
  <2>3. result.vm = java
    BY <1>1, <2>1, <2>2 DEF Done, Thrown
  <2>4. VmAfter("DeleteGlobalRef", s, Runs({}, Given(s), 0)) = Runs({}, Minus(Given(s), s), 0)
    <3>1. ASSUME NEW l, NEW g, NEW p, NEW t, NEW k
          PROVE VmAfter("DeleteGlobalRef", s, Vm(l, g, p, t, k)) = Vm(l, Minus(g, s), p, t, k)
      BY Certain
    <3> QED BY <3>1 DEF Runs
  <2>5. Minus(Given(s), s) = {}
    BY DEF Minus, Given
  <2>6. Function("DeleteGlobalRef") = "DeleteGlobalRef"
    BY Named
  <2>7. closed.vm = VmAfter("DeleteGlobalRef", s, java)
    BY <2>2, <2>3, <2>6
  <2> HIDE DEF s
  <2> QED BY <1>1, <2>4, <2>5, <2>7
<1> QED BY <1>2, <1>3

LEMMA WindowDestroyedStep == ASSUME HostHypotheses, HostInv, WindowDestroyed PROVE HostInv'
<1>0. /\ at = "looper" /\ window # 0 /\ window' = 0 /\ Handle("onNativeWindowDestroyed", window)
      /\ UNCHANGED <<ps, hardware, activity, made, callbacks, host>>
  BY DEF WindowDestroyed
<1>1. Nobody[10] # "draw" /\ Nobody[10] # "release" /\ Drawing[10] # "draw" /\ Drawing[10] = "release"
  BY Tables
<1>2. CASE callbacks = Drawing
  <2>1. callbacks[Slot("onNativeWindowDestroyed")] = "release"
    BY <1>1, <1>2, Slots
  <2>2. PICK closed \in Closed(canvas, java) : java' = closed.vm
    BY <1>0, <2>1 DEF Handle
  <2>3. canvas' = [NoSurface(canvas) EXCEPT !.window = 0] /\ UNCHANGED <<at, frame>>
    BY <1>0, <2>1 DEF Handle
  <2>4. /\ canvas' = CanvasOf(canvas'.activity, canvas'.draws, canvas'.window, canvas'.surface, canvas'.surfaceWindow)
        /\ canvas'.activity = canvas.activity /\ canvas'.window = 0 /\ canvas'.surface = Null /\ canvas'.surfaceWindow = 0
    <3>1. PICK a, d, w, s, t : canvas = CanvasOf(a, d, w, s, t)
      BY CanvasIs
    <3> DEFINE zero == 0
    <3>2. canvas' = Windowed(Surfaced(canvas, Null, zero), zero)
      BY <2>3 DEF NoSurface, Windowed, Surfaced
    <3> HIDE DEF zero
    <3>3. canvas' = CanvasOf(a, d, zero, Null, zero)
      BY <3>1, <3>2, SurfacedIs, WindowedIs
    <3>4. canvas.activity = a
      BY <3>1, CanvasFieldsAre
    <3>5. /\ canvas' = CanvasOf(canvas'.activity, canvas'.draws, canvas'.window, canvas'.surface, canvas'.surfaceWindow)
          /\ canvas'.activity = a /\ canvas'.window = zero /\ canvas'.surface = Null /\ canvas'.surfaceWindow = zero
      BY <3>3, CanvasFieldsAre
    <3> QED BY <3>4, <3>5, Zenon DEF zero
  <2>5. Windows'
    BY <1>0, <2>3 DEF HostInv, Windows
  <2>6. Canvas'
    BY <1>0, <2>4 DEF HostInv, Canvas
  <2>7. at \notin Framing /\ at' \notin Framing
    BY <1>0, <2>3 DEF Framing, Opening
  <2>8. Frame' /\ Locked' = 0
    BY <2>3, <2>7, StaysOutside
  <2>9. References'
    <3>1. {} \in Locals'
      BY <1>0, <2>3 DEF Locals
    <3>2. java' = Runs({}, {}, 0)
      BY <1>0, <2>2, ClosedIs
    <3>3. Given(canvas'.surface) = {}
      BY <2>4 DEF Given
    <3> QED BY <2>8, <3>1, <3>2, <3>3, ReferencesAre
  <2>10. Memory'
    BY <1>0, <2>3 DEF HostInv, Memory, host
  <2>11. Started' /\ ProbeAnswers'
    BY <1>0, <1>2, <2>3, HasRun, StillStarted, SameAnswer DEF host, Places, Starting, Opening
  <2> QED BY <2>5, <2>6, <2>8, <2>9, <2>10, <2>11 DEF HostInv
<1>3. CASE callbacks = Nobody
  <2>1. callbacks[Slot("onNativeWindowDestroyed")] # "release" /\ callbacks[Slot("onNativeWindowDestroyed")] # "draw"
    BY <1>1, <1>3, Slots
  <2>2. UNCHANGED <<at, java, canvas, frame, log>>
    BY <1>0, <2>1 DEF Handle
  <2>3. canvas.window = 0
    BY <1>3, Tables DEF HostInv, Canvas
  <2>4. Windows'
    BY <1>0, <2>2 DEF HostInv, Windows
  <2>5. Canvas'
    BY <1>0, <2>2, <2>3 DEF HostInv, Canvas
  <2>6. Idle /\ Idle'
    BY <1>0, <2>2 DEF Idle, Opening
  <2>7. Frame' /\ References' /\ Memory'
    BY <1>0, <2>2, <2>6, Quiet DEF host
  <2>8. Started' /\ ProbeAnswers'
    BY <1>0, <2>2, SameAnswer DEF host, HostInv, Started, Ran
  <2> QED BY <2>4, <2>5, <2>7, <2>8 DEF HostInv
<1>4. callbacks = Drawing \/ callbacks = Nobody
  BY DEF HostInv, Windows
<1> QED BY <1>2, <1>3, <1>4

\* What every step of a frame keeps.
LEMMA InFrame ==
  ASSUME HostInv, at \in Framing
  PROVE /\ activity # 0 /\ window # 0 /\ canvas.window = window /\ frame.window = window
        /\ callbacks = Drawing /\ Ran /\ canvas.surfaceWindow \in {0, window}
BY HasRun DEF HostInv, Windows, Canvas, Frame, Framing, Opening

LEMMA FrameStep ==
  ASSUME HostInv, at \in Framing, at' \in Framing \union {"looper"}, UNCHANGED <<ps, hardware, app, host>>
  PROVE Windows' /\ Memory' /\ Started' /\ ProbeAnswers'
<1>1. Windows'
  BY InFrame DEF HostInv, Windows, app
<1>2. Memory'
  BY DEF HostInv, Memory, host, Framing, Opening
<1>3. Started' /\ ProbeAnswers'
  BY InFrame, StillStarted, SameAnswer DEF host, app, Places, Framing, Opening, Starting
<1> QED BY <1>1, <1>2, <1>3

LEMMA SameCanvas ==
  ASSUME HostInv, UNCHANGED <<hardware, app, canvas>> PROVE Canvas'
BY DEF HostInv, Canvas, app

\* The references in a frame, before the canvas is locked ...
LEMMA JavaIs ==
  ASSUME HostInv, at \in Framing, at # "lock", java.state = Running
  PROVE \E locals \in Locals : java = Runs(locals, Given(canvas.surface), Locked)
BY Distinct DEF HostInv, References, Framing, Opening

LEMMA JavaWithout ==
  ASSUME HostInv, at \in {"open surface", "set geometry", "to surface"}, java.state = Running
  PROVE java = Runs({}, Given(canvas.surface), 0) /\ frame.surface = Null /\ frame.canvas = Null
<1>1. at \in Framing /\ at # "lock"
  BY DEF Framing, Opening
<1>2. frame.surface = Null /\ frame.canvas = Null
  BY DEF HostInv, Frame
<1>3. Locals = {{}} /\ Locked = 0
  BY <1>2 DEF Locals, Locked
<1> QED BY <1>1, <1>2, <1>3, JavaIs

\* The end of a step that leaves the canvas and what is locked in its place.
LEMMA FrameEnds ==
  ASSUME HostInv, at \in Framing, at' \in Framing \union {"looper"}, UNCHANGED <<ps, hardware, app, host, canvas>>,
         Frame', References'
  PROVE HostInv'
BY FrameStep, SameCanvas DEF HostInv

\* A step on the way to the lock that holds nothing and changes nothing.
LEMMA EmptyHanded ==
  ASSUME HostInv, frame.surface = Null, frame.canvas = Null, frame.window = window, canvas.window = window, window # 0,
         UNCHANGED <<hardware, app, frame>>, at' \in {"set geometry", "to surface", "unlock"},
         canvas'.window = canvas.window, hardware => canvas'.surfaceWindow = 0,
         java' = Runs({}, Given(canvas'.surface), 0)
  PROVE Frame' /\ References'
<1>1. Frame'
  BY FrameIs DEF Frame, Framing, Opening, app
<1>2. Locked' = 0
  BY DEF Locked
<1>3. {} \in Locals'
  BY DEF Locals, Given
<1> QED BY <1>1, <1>2, <1>3, ReferencesAre

LEMMA OpenSurfaceStep == ASSUME HostHypotheses, HostInv, OpenSurface, java.state = Running PROVE HostInv'
<1>0. /\ at = "open surface" /\ at \in Framing /\ UNCHANGED <<ps, hardware, app, host>>
      /\ frame.surface = Null /\ frame.canvas = Null /\ java = Runs({}, Given(canvas.surface), 0)
  BY JavaWithout DEF OpenSurface, Framing, Opening
<1>1. /\ activity # 0 /\ window # 0 /\ canvas.window = window /\ frame.window = window
      /\ canvas.surfaceWindow \in {0, window}
      /\ canvas.surface = IF canvas.surfaceWindow = 0 THEN Null ELSE Surface(canvas.surfaceWindow)
  BY <1>0, InFrame DEF HostInv, Canvas
<1>2. CASE ~hardware
  <2>1. at' = "set geometry" /\ UNCHANGED <<java, canvas, frame>>
    BY <1>2 DEF OpenSurface, Goes
  <2>2. Frame' /\ References'
    BY <1>0, <1>1, <1>2, <2>1, EmptyHanded
  <2> QED BY <1>0, <2>1, <2>2, FrameEnds DEF Framing, Opening
<1>3. CASE hardware /\ canvas.surfaceWindow = 0
  <2>1. canvas.surface = Null
    BY <1>1, <1>3
  <2>2. Closed(canvas, java) = {[ends |-> "returns", vm |-> java]}
    BY <2>1 DEF Closed
  <2>3. PICK closed \in Closed(canvas, java) :
          java' = closed.vm /\ canvas' = NoSurface(canvas) /\ Then(closed, "set geometry") /\ UNCHANGED frame
    BY <1>1, <1>3 DEF OpenSurface
  <2>4. java' = java /\ at' = "set geometry" /\ UNCHANGED frame
    <3>1. closed.vm = java /\ closed.ends = "returns"
      BY <2>2
    <3>2. closed.ends # "throws"
      BY <3>1
    <3> QED BY <2>3, <3>1, <3>2 DEF Then, Goes
  <2>5. UNCHANGED canvas
    <3> DEFINE zero == 0
    <3>1. canvas.surfaceWindow = zero /\ canvas' = Surfaced(canvas, Null, zero)
      BY <1>3, <2>3 DEF NoSurface, Surfaced
    <3> HIDE DEF zero
    <3>2. canvas = CanvasOf(canvas.activity, canvas.draws, canvas.window, Null, zero)
      BY <2>1, <3>1, CanvasIs
    <3>3. Surfaced(canvas, Null, zero) = CanvasOf(canvas.activity, canvas.draws, canvas.window, Null, zero)
      BY <3>2, SurfacedIs
    <3> QED BY <3>1, <3>2, <3>3
  <2>6. Frame' /\ References'
    BY <1>0, <1>1, <1>3, <2>4, <2>5, EmptyHanded
  <2> QED BY <1>0, <2>4, <2>5, <2>6, FrameEnds DEF Framing, Opening
<1>4. CASE hardware /\ canvas.surfaceWindow = window
  <2>1. at' = "lock" /\ frame' = [frame EXCEPT !.surface = canvas.surface] /\ UNCHANGED <<java, canvas>>
    BY <1>1, <1>4 DEF OpenSurface, Goes
  <2>2. frame' = FrameOf(window, Surface(window), Null)
    <3>1. frame = FrameOf(window, Null, Null)
      BY <1>0, <1>1, FrameIs
    <3>2. canvas.surface = Surface(window)
      BY <1>1, <1>4
    <3> QED BY <2>1, <3>1, <3>2, FrameSet
  <2>3. frame'.window = window /\ frame'.surface = Surface(window) /\ frame'.canvas = Null
    BY <2>2, FrameSet
  <2>4. Surface(window) # Null
    BY SurfaceNotNull DEF Surface
  <2>5. Frame'
    BY <1>0, <1>1, <1>4, <2>1, <2>2, <2>3, <2>4 DEF Frame, Framing, Opening, app, Surface
  <2>6. References'
    <3>1. Locked' = 0
      BY <2>3 DEF Locked
    <3>2. {} \in Locals'
      BY <1>0, <1>4, <2>1, <2>3 DEF Locals, Given
    <3> QED BY <1>0, <2>1, <3>1, <3>2, ReferencesAre
  <2> QED BY <1>0, <2>1, <2>5, <2>6, FrameEnds DEF Framing, Opening
<1>5. hardware \in BOOLEAN
  BY DEF HostInv, Windows
<1> QED BY <1>1, <1>2, <1>3, <1>4, <1>5

LEMMA SetGeometryStep == ASSUME HostInv, SetGeometry, java.state = Running PROVE HostInv'
<1>0. /\ at = "set geometry" /\ at \in Framing /\ UNCHANGED <<ps, hardware, app, host, java, canvas, frame>>
      /\ at' \in {"to surface", "unlock"}
  BY DEF SetGeometry, Goes, Framing, Opening
<1>1. frame.surface = Null /\ frame.canvas = Null /\ java = Runs({}, Given(canvas.surface), 0)
  BY <1>0, JavaWithout
<1>2. /\ window # 0 /\ canvas.window = window /\ frame.window = window
      /\ hardware => canvas.surfaceWindow = 0
  BY <1>0, InFrame DEF HostInv, Frame
<1>3. Frame' /\ References'
  BY <1>0, <1>1, <1>2, EmptyHanded
<1> QED BY <1>0, <1>3, FrameEnds DEF Framing, Opening

LEMMA Surfaces ==
  /\ Plus({}, Surface(window)) = {Surface(window)} /\ Minus({Surface(window)}, Surface(window)) = {}
  /\ Surface(window) # Null /\ Given(Surface(window)) = {Surface(window)} /\ Given(Null) = {}
BY SurfaceNotNull DEF Plus, Minus, Surface, Given

LEMMA ToSurfaceStep == ASSUME HostHypotheses, HostInv, ToSurface, java.state = Running PROVE HostInv'
<1> DEFINE G == Given(canvas.surface)
           ref == Surface(window)
<1>0. /\ at = "to surface" /\ at \in Framing /\ UNCHANGED <<ps, hardware, app, host, canvas>>
      /\ frame.surface = Null /\ frame.canvas = Null /\ java = Runs({}, G, 0)
  BY JavaWithout DEF ToSurface, Framing, Opening
<1>1. /\ window # 0 /\ canvas.window = window /\ frame.window = window
      /\ window' = window /\ frame = FrameOf(window, Null, Null)
      /\ hardware => canvas.surfaceWindow = 0
  BY <1>0, InFrame, FrameIs DEF HostInv, Frame, app
<1>2. /\ [java EXCEPT !.locals = @ \union {ref}] = Runs({ref}, G, 0)
      /\ Raises(java) = Gives(Null, Raised({}, G, 0))
  <2> DEFINE none == {}
             zero == 0
  <2>1. java = Runs(none, G, zero)
    BY <1>0
  <2> HIDE DEF none, zero
  <2>2. [java EXCEPT !.locals = java.locals \union {ref}] = Runs(Plus(none, ref), G, zero)
    <3>1. java.locals = none
      BY <2>1, VmFields DEF Runs
    <3> DEFINE With(vm, locals) == [vm EXCEPT !.locals = locals]
    <3>2. ASSUME NEW locals PROVE With(Runs(none, G, zero), locals) = Runs(locals, G, zero)
      BY VmExcept DEF Runs
    <3> HIDE DEF With
    <3>3. With(java, Plus(java.locals, ref)) = Runs(Plus(none, ref), G, zero)
      BY <2>1, <3>1, <3>2
    <3> QED BY <3>3 DEF With, Plus
  <2>3. Raises(java) = Gives(Null, Raised({}, G, 0))
    BY <1>0, RaisesIs
  <2>4. Plus(none, ref) = {ref}
    BY Surfaces DEF none
  <2>5. Runs(Plus(none, ref), G, zero) = Runs({ref}, G, 0)
    BY <2>4 DEF zero
  <2> QED BY <2>2, <2>3, <2>5, Zenon
<1>3. PICK result \in {Gives(ref, Runs({ref}, G, 0)), Gives(Null, java), Gives(Null, Raised({}, G, 0))} :
        IF hardware
        THEN LET got == Asserted(result)
             IN  /\ java' = got.vm /\ UNCHANGED frame
                 /\ IF got.ends = "throws" \/ got.value = Null THEN Goes("unlock") ELSE Goes("retain")
        ELSE java' = result.vm /\ frame' = [frame EXCEPT !.surface = result.value] /\ Goes("lock")
  BY <1>1, <1>2 DEF ToSurface, Surface
<1> DEFINE kept == Runs({ref}, G, 0)
           without == Runs({}, G, 0)
           raised == Raised({}, G, 0)
<1>4. CASE hardware
  <2>1. /\ Asserted(Gives(ref, kept)) = Done(ref, kept) /\ Asserted(Gives(Null, without)) = Done(Null, without)
        /\ Asserted(Gives(Null, raised)) = Thrown(without)
    BY AssertedIs
  <2> HIDE DEF kept, without, raised
  <2>2. Asserted(result) \in {Done(ref, kept), Done(Null, without), Thrown(without)}
    BY <1>0, <1>3, <2>1 DEF kept, without, raised
  <2>3. \/ java' = kept /\ at' = "retain" /\ UNCHANGED frame
        \/ java' = without /\ at' = "unlock" /\ UNCHANGED frame
    BY <1>3, <1>4, <2>2, Surfaces DEF Done, Thrown, Goes
  <2>4. CASE java' = kept /\ at' = "retain" /\ UNCHANGED frame
    <3>1. Frame'
      BY <1>0, <1>1, <1>4, <2>4, FrameIs DEF Frame, Framing, Opening, app
    <3>2. Locked' = 0
      BY <1>0, <2>4 DEF Locked
    <3>3. {ref} \in Locals'
      BY <1>1, <2>4 DEF Locals, Surface
    <3>4. References'
      BY <1>0, <2>4, <3>2, <3>3, ReferencesAre DEF kept
    <3> QED BY <1>0, <2>4, <3>1, <3>4, FrameEnds DEF Framing, Opening
  <2>5. CASE java' = without /\ at' = "unlock" /\ UNCHANGED frame
    <3>1. Frame' /\ References'
      BY <1>0, <1>1, <1>4, <2>5, EmptyHanded DEF without
    <3> QED BY <1>0, <2>5, <3>1, FrameEnds DEF Framing, Opening
  <2> QED BY <2>3, <2>4, <2>5
<1>5. CASE ~hardware
  <2>1. java' = result.vm /\ frame' = [frame EXCEPT !.surface = result.value] /\ at' = "lock"
    BY <1>3, <1>5 DEF Goes
  <2>2. canvas.surface = Null /\ G = {}
    BY <1>5, Surfaces DEF HostInv, Canvas
  <2>3. frame' = FrameOf(window, result.value, Null)
    BY <1>1, <2>1, FrameSet
  <2>4. frame'.window = window /\ frame'.surface = result.value /\ frame'.canvas = Null
    BY <2>3, FrameSet
  <2>5. result.value \in {Null, ref}
    BY <1>3, GivesFields
  <2>6. Frame'
    BY <1>0, <1>1, <1>5, <2>1, <2>3, <2>4, <2>5 DEF Frame, Framing, Opening, app, Surface
  <2>7. Locked' = 0
    BY <2>4 DEF Locked
  <2>8. Locals' = {Given(result.value)}
    <3>1. Locals' = {Given(Null) \union Given(result.value)}
      BY <1>0, <1>5, <2>1, <2>4 DEF Locals, Given
    <3> QED BY <3>1, Surfaces
  <2>9. \/ result.value = ref /\ result.vm = kept
        \/ result.value = Null /\ result.vm = without
        \/ result.value = Null /\ result.vm = raised
    <3> HIDE DEF kept, without, raised
    <3>1. result = Gives(ref, kept) \/ result = Gives(Null, without) \/ result = Gives(Null, raised)
      BY <1>0, <1>3 DEF kept, without, raised
    <3> QED BY <3>1, GivesFields
  <2>10. References'
    <3>1. CASE result.value = ref /\ result.vm = kept
      BY <1>0, <2>1, <2>7, <2>8, <3>1, Surfaces, ReferencesAre
    <3>2. CASE result.value = Null /\ result.vm = without
      BY <1>0, <2>1, <2>7, <2>8, <3>2, Surfaces, ReferencesAre
    <3>3. CASE result.value = Null /\ result.vm = raised
      BY <1>0, <1>5, <2>1, <2>2, <2>4, <3>3 DEF References
    <3> QED BY <2>9, <3>1, <3>2, <3>3
  <2> QED BY <1>0, <2>1, <2>6, <2>10, FrameEnds DEF Framing, Opening
<1>6. hardware \in BOOLEAN
  BY DEF HostInv, Windows
<1> QED BY <1>4, <1>5, <1>6

LEMMA RetainStep == ASSUME HostHypotheses, HostInv, Retain, java.state = Running PROVE HostInv'
<1> DEFINE ref == Surface(window)
           none == {}
           zero == 0
           mine == {ref}
           without == Runs(none, none, zero)
           kept == Runs(none, mine, zero)
<1>0. /\ at = "retain" /\ at \in Framing /\ hardware /\ UNCHANGED <<ps, hardware, app, host>>
      /\ frame.surface = Null /\ frame.canvas = Null /\ canvas.surfaceWindow = 0 /\ canvas.surface = Null
      /\ frame.window = window /\ canvas.window = window /\ window # 0 /\ window' = window
  BY InFrame DEF Retain, Framing, Opening, HostInv, Frame, Canvas, app
<1>1. java = Runs(mine, none, zero)
  <2>1. Locals = {{ref}} /\ Locked = 0 /\ Given(canvas.surface) = {}
    BY <1>0, Surfaces DEF Locals, Locked
  <2> QED BY <1>0, <2>1, JavaIs
<1>2. PICK result \in JniCall(Function("NewGlobalRef"), ref, ref, java) :
        LET got == Asserted([result EXCEPT !.vm = Remove_JavaLocalRef(ref, result.vm)])
        IN  /\ java' = got.vm
            /\ IF got.ends = "throws" \/ result.value = Null
               THEN Goes("unlock") /\ canvas' = [canvas EXCEPT !.surface = result.value] /\ UNCHANGED frame
               ELSE /\ canvas' = Surfaced(canvas, result.value, frame.window)
                    /\ frame' = [frame EXCEPT !.surface = result.value] /\ Goes("lock")
  BY <1>0 DEF Retain, Surface, Surfaced
<1>3. /\ ref # Null /\ Plus(none, ref) = mine /\ Minus(mine, ref) = none /\ Given(ref) = mine /\ Given(Null) = none
  BY Surfaces
<1> HIDE DEF none, zero, mine, without, kept
<1>4. result
        \in {Gives(ref, Runs(mine, mine, zero)), Gives(Null, Runs(mine, none, zero)), Gives(Null, Raised(mine, none, zero))}
  <2>1. Function("NewGlobalRef") = "NewGlobalRef"
    BY Named
  <2> QED BY <1>1, <1>2, <1>3, <2>1, NewGlobal
<1> DEFINE got == Asserted([result EXCEPT !.vm = Remove_JavaLocalRef(ref, result.vm)])
<1>5. \/ result.value = ref /\ got = Done(ref, kept)
      \/ result.value = Null /\ got = Done(Null, without)
      \/ result.value = Null /\ got = Thrown(without)
  <2>1. ASSUME NEW value, NEW vm, NEW other
        PROVE [Gives(value, vm) EXCEPT !.vm = other] = Gives(value, other)
    BY DEF Gives
  <2>2. /\ Remove_JavaLocalRef(ref, Runs(mine, mine, zero)) = kept
        /\ Remove_JavaLocalRef(ref, Runs(mine, none, zero)) = without
        /\ Remove_JavaLocalRef(ref, Raised(mine, none, zero)) = Raised(none, none, zero)
    BY <1>3, RemoveIs DEF Runs, Raised, kept, without
  <2>3. /\ Asserted(Gives(ref, kept)) = Done(ref, kept) /\ Asserted(Gives(Null, without)) = Done(Null, without)
        /\ Asserted(Gives(Null, Raised(none, none, zero))) = Thrown(without)
    BY AssertedIs DEF kept, without
  <2>4. CASE result = Gives(ref, Runs(mine, mine, zero))
    <3>1. result.value = ref /\ result.vm = Runs(mine, mine, zero)
      BY <2>4, GivesFields
    <3>2. [result EXCEPT !.vm = Remove_JavaLocalRef(ref, result.vm)] = Gives(ref, Remove_JavaLocalRef(ref, result.vm))
      BY <2>1, <2>4
    <3>3. got = Asserted(Gives(ref, kept))
      BY <2>2, <3>1, <3>2
    <3> QED BY <2>3, <3>1, <3>3
  <2>5. CASE result = Gives(Null, Runs(mine, none, zero))
    <3>1. result.value = Null /\ result.vm = Runs(mine, none, zero)
      BY <2>5, GivesFields
    <3>2. [result EXCEPT !.vm = Remove_JavaLocalRef(ref, result.vm)] = Gives(Null, Remove_JavaLocalRef(ref, result.vm))
      BY <2>1, <2>5
    <3>3. got = Asserted(Gives(Null, without))
      BY <2>2, <3>1, <3>2
    <3> QED BY <2>3, <3>1, <3>3
  <2>6. CASE result = Gives(Null, Raised(mine, none, zero))
    <3>1. result.value = Null /\ result.vm = Raised(mine, none, zero)
      BY <2>6, GivesFields
    <3>2. [result EXCEPT !.vm = Remove_JavaLocalRef(ref, result.vm)] = Gives(Null, Remove_JavaLocalRef(ref, result.vm))
      BY <2>1, <2>6
    <3>3. got = Asserted(Gives(Null, Raised(none, none, zero)))
      BY <2>2, <3>1, <3>2
    <3> QED BY <2>3, <3>1, <3>3
  <2> QED BY <1>4, <2>4, <2>5, <2>6
<1> HIDE DEF got
<1>6. PICK a, d, w, t
        : canvas = CanvasOf(a, d, w, Null, t) /\ canvas.activity = a /\ canvas.window = w /\ canvas.surfaceWindow = t
  BY <1>0, CanvasIs
<1>7. CASE result.value = Null /\ java' = without
  <2>1. at' = "unlock" /\ canvas' = [canvas EXCEPT !.surface = Null] /\ UNCHANGED frame
    BY <1>2, <1>7 DEF Goes
  <2>2. UNCHANGED canvas
    <3> DEFINE Set(c, surface) == [c EXCEPT !.surface = surface]
    <3>1. canvas' = Set(canvas, Null)
      BY <2>1
    <3>2. ASSUME NEW surface PROVE Set(CanvasOf(a, d, w, surface, t), surface) = CanvasOf(a, d, w, surface, t)
      BY DEF CanvasOf
    <3> HIDE DEF Set
    <3> QED BY <1>6, <3>1, <3>2
  <2>3. java' = Runs({}, Given(canvas'.surface), 0)
    BY <1>0, <1>3, <1>7, <2>2 DEF without, none, zero
  <2>4. Frame' /\ References'
    BY <1>0, <2>1, <2>2, <2>3, EmptyHanded
  <2> QED BY <1>0, <2>1, <2>2, <2>4, FrameEnds DEF Framing, Opening
<1>8. CASE result.value = ref /\ got = Done(ref, kept)
  <2>1. got.ends # "throws" /\ got.vm = kept
    BY <1>8 DEF Done
  <2>2. /\ java' = kept /\ at' = "lock" /\ canvas' = Surfaced(canvas, ref, window)
        /\ frame' = [frame EXCEPT !.surface = ref]
    BY <1>0, <1>2, <1>3, <1>8, <2>1 DEF Goes, got
  <2>3. frame' = FrameOf(window, ref, Null) /\ frame'.window = window /\ frame'.surface = ref /\ frame'.canvas = Null
    <3>1. frame = FrameOf(window, Null, Null)
      BY <1>0, FrameIs
    <3>2. frame' = FrameOf(window, ref, Null)
      BY <2>2, <3>1, FrameSet
    <3> QED BY <3>2, FrameSet
  <2>4. canvas' = CanvasOf(a, d, w, ref, window)
    BY <1>6, <2>2, SurfacedIs
  <2>5. /\ canvas' = CanvasOf(canvas'.activity, canvas'.draws, canvas'.window, canvas'.surface, canvas'.surfaceWindow)
        /\ canvas'.activity = canvas.activity /\ canvas'.window = canvas.window /\ canvas'.surface = ref
        /\ canvas'.surfaceWindow = window
    BY <1>6, <2>4, CanvasFieldsAre
  <2>6. Canvas'
    BY <1>0, <2>5 DEF HostInv, Canvas, app, Surface
  <2>7. Frame'
    BY <1>0, <1>3, <2>2, <2>3, <2>5 DEF Frame, Framing, Opening, Surface
  <2>8. References'
    <3>1. Locked' = 0
      BY <2>3 DEF Locked
    <3>2. {} \in Locals'
      BY <1>0, <2>2, <2>3 DEF Locals, Given
    <3>3. java' = Runs({}, Given(canvas'.surface), 0)
      BY <1>3, <2>2, <2>5 DEF kept, none, zero
    <3> QED BY <3>1, <3>2, <3>3, ReferencesAre
  <2>9. Windows' /\ Memory' /\ Started' /\ ProbeAnswers'
    BY <1>0, <2>2, FrameStep DEF Framing, Opening
  <2> QED BY <2>6, <2>7, <2>8, <2>9 DEF HostInv
<1>9. java' = got.vm
  BY <1>2 DEF got
<1>10. got = Done(Null, without) \/ got = Thrown(without) => got.vm = without
  BY DEF Done, Thrown
<1> QED BY <1>5, <1>7, <1>8, <1>9, <1>10

\* A canvas was locked, on a surface.
LEMMA JavaWithCanvas ==
  ASSUME HostInv, at \in {"test", "draw", "unlock"}, frame.canvas # Null, java.state = Running
  PROVE /\ java = Runs({frame.canvas} \union (IF hardware THEN {} ELSE {frame.surface}), Given(canvas.surface), 1)
        /\ frame.surface # Null
<1>1. at \in Framing /\ at # "lock" /\ Locked = 1 /\ frame.surface # Null
  BY DEF Framing, Opening, Locked, HostInv, Frame
<1>2. Locals = {{frame.canvas} \union (IF hardware THEN {} ELSE {frame.surface})}
  BY <1>1 DEF Locals, Given
<1> QED BY <1>1, <1>2, JavaIs

LEMMA DrawFrameStep == ASSUME HostInv, DrawFrame, java.state = Running PROVE HostInv'
<1>0. /\ at = "draw" /\ at' = "unlock" /\ at \in Framing /\ UNCHANGED <<ps, hardware, app, host, java, canvas, frame>>
  BY DEF DrawFrame, Goes, Framing, Opening
<1>1. Frame'
  BY <1>0 DEF HostInv, Frame, Framing, Opening, app
<1>2. References'
  <2>1. Locals' = Locals /\ Locked' = Locked
    BY <1>0 DEF Locals, Locked
  <2>2. \E locals \in Locals : java = Runs(locals, Given(canvas.surface), Locked)
    BY <1>0, JavaIs
  <2> QED BY <1>0, <2>1, <2>2 DEF References
<1> QED BY <1>0, <1>1, <1>2, FrameEnds DEF Framing, Opening

LEMMA TestHardwareStep == ASSUME HostHypotheses, HostInv, TestHardware, java.state = Running PROVE HostInv'
<1>0. /\ at = "test" /\ at \in Framing /\ frame.canvas # Null /\ UNCHANGED <<ps, hardware, app, host, canvas, frame>>
  BY DEF TestHardware, Framing, Opening, HostInv, Frame
<1>1. PICK locals \in Locals : java = Runs(locals, Given(canvas.surface), Locked)
  BY <1>0, JavaIs
<1>2. at' \in {"draw", "unlock"} /\ UNCHANGED java
  <2>1. CASE hardware
    <3>1. PICK result \in Invoke_JavaCall("CallBooleanMethodA", frame.canvas, <<"true">>, java) :
            java' = result.vm /\ (IF result.value = Null THEN Goes("unlock") ELSE Goes("draw"))
      BY <2>1 DEF TestHardware
    <3>2. result \in {Done(<<"true">>, java), Done(Null, java), Thrown(java)}
      BY <1>0, <1>1, <3>1, InvokeBoolean
    <3>3. result.vm = java
      BY <3>2 DEF Done, Thrown
    <3> QED BY <3>1, <3>3 DEF Goes
  <2>2. CASE ~hardware
    BY <2>2 DEF TestHardware, Goes
  <2> QED BY <2>1, <2>2
<1>3. Frame'
  BY <1>0, <1>2 DEF HostInv, Frame, Framing, Opening, app
<1>4. References'
  <2>1. Locals' = Locals /\ Locked' = Locked
    BY <1>0, <1>2 DEF Locals, Locked
  <2> QED BY <1>0, <1>1, <1>2, <2>1 DEF References
<1> QED BY <1>0, <1>2, <1>3, <1>4, FrameEnds DEF Framing, Opening

\* The canvas counts as locked when there is one.
Locks(vm, value) == [vm EXCEPT !.locked = IF value = Null THEN @ ELSE @ + 1]
Posts(vm) == [vm EXCEPT !.locked = @ - 1]

LEMMA LocksIs ==
  ASSUME NEW l, NEW g, NEW p, NEW s
  PROVE /\ Locks(Vm(l, g, p, s, 0), Null) = Vm(l, g, p, s, 0)
        /\ \A value : value # Null => Locks(Vm(l, g, p, s, 0), value) = Vm(l, g, p, s, 1)
        /\ Posts(Vm(l, g, p, s, 1)) = Vm(l, g, p, s, 0)
<1>1. Locks(Vm(l, g, p, s, 0), Null) = Vm(l, g, p, s, 0)
  BY DEF Locks, Vm
<1>2. ASSUME NEW value, value # Null PROVE Locks(Vm(l, g, p, s, 0), value) = Vm(l, g, p, s, 1)
  BY <1>2 DEF Locks, Vm
<1>3. Posts(Vm(l, g, p, s, 1)) = Vm(l, g, p, s, 0)
  BY DEF Posts, Vm
<1> QED BY <1>1, <1>2, <1>3

\* The VM aborts at the call; clearing what it threw does not undo that.
LEMMA InvokeAborts ==
  ASSUME HostHypotheses, NEW l, NEW g, NEW p, NEW k, NEW arg, p # NoException \/ arg = Null, NEW ref,
         NEW result \in Invoke_JavaCall("CallObjectMethodA", arg, ref, Vm(l, g, p, Running, k))
  PROVE result.value = Null /\ \E q : result.vm = Vm(l, g, q, Aborted, k)
<1> DEFINE vm == Vm(l, g, p, Aborted, k)
           gives == Gives(Null, vm)
<1>1. Function("CallObjectMethodA") = "CallObjectMethodA" /\ Function("ExceptionCheck") = "ExceptionCheck"
      /\ Function("ExceptionDescribe") = "ExceptionDescribe" /\ Function("ExceptionClear") = "ExceptionClear"
  BY Named
<1>2. JniCall("CallObjectMethodA", arg, ref, Vm(l, g, p, Running, k)) = {gives}
  BY Aborts
<1>3. result = Asserted(gives)
  BY <1>1, <1>2 DEF Invoke_JavaCall
<1>4. gives.value = Null /\ gives.vm = vm /\ vm.pending = p
  BY GivesFields, VmFields
<1>5. VmAfter("ExceptionClear", Null, VmAfter("ExceptionDescribe", Null, vm)) = Vm(l, g, NoException, Aborted, k)
  BY Certain
<1> HIDE DEF vm, gives
<1>6. CASE p # NoException
  <2>1. result = Thrown(Vm(l, g, NoException, Aborted, k))
    BY <1>1, <1>3, <1>4, <1>5, <1>6 DEF Asserted, Thrown
  <2> QED BY <2>1 DEF Thrown
<1>7. CASE p = NoException
  <2>1. result = Done(Null, vm)
    BY <1>3, <1>4, <1>7 DEF Asserted, Done
  <2>2. result.value = Null /\ result.vm = vm
    BY <2>1 DEF Done
  <2> QED BY <2>2 DEF vm
<1> QED BY <1>6, <1>7

LEMMA LockStep == ASSUME HostHypotheses, HostInv, Lock, java.state = Running PROVE HostInv'
<1> DEFINE picture == <<"canvas", window>>
           surface == frame.surface
           G == Given(canvas.surface)
           L == IF hardware THEN {} ELSE Given(surface)
<1>0. /\ at = "lock" /\ at \in Framing /\ UNCHANGED <<ps, hardware, app, host, canvas>> /\ hardware \in BOOLEAN
      /\ frame = FrameOf(window, surface, Null) /\ frame.window = window /\ frame.canvas = Null
      /\ canvas.window = window /\ window # 0 /\ window' = window
      /\ surface \in {Null, Surface(window)} /\ (hardware => surface # Null /\ canvas.surfaceWindow = window)
  <2>1. at = "lock" /\ at \in Framing /\ UNCHANGED <<ps, hardware, app, host, canvas>>
    BY DEF Lock, Framing, Opening
  <2> QED BY <2>1, InFrame DEF HostInv, Windows, Frame, app
<1>1. PICK result \in Invoke_JavaCall("CallObjectMethodA", surface, picture, java) :
        /\ frame' = [frame EXCEPT !.canvas = result.value]
        /\ java' = Locks(result.vm, result.value)
        /\ IF result.value = Null THEN Goes("unlock") ELSE Goes("test")
  BY <1>0 DEF Lock, Locks
<1>2. picture # Null
  BY SurfaceNotNull
<1>3. frame' = FrameOf(window, surface, result.value) /\ frame'.window = window
      /\ frame'.surface = surface /\ frame'.canvas = result.value
  <2> DEFINE Set(f, p) == [f EXCEPT !.canvas = p]
  <2>1. frame' = Set(frame, result.value)
    BY <1>1
  <2>2. ASSUME NEW w, NEW s, NEW c, NEW p PROVE Set(FrameOf(w, s, c), p) = FrameOf(w, s, p)
    BY FrameSet
  <2> HIDE DEF Set
  <2>3. frame' = FrameOf(window, surface, result.value)
    BY <1>0, <2>1, <2>2
  <2> QED BY <2>3, FrameSet
<1>4. at' = IF result.value = Null THEN "unlock" ELSE "test"
  BY <1>1 DEF Goes
<1>5. Locked = 0 /\ Locals = {L}
  BY <1>0 DEF Locked, Locals, Given
<1>6. CASE surface # Null
  <2>1. java = Runs(L, G, 0)
    BY <1>0, <1>5, <1>6 DEF HostInv, References, Opening
  <2>2. result \in {Done(picture, Runs(Plus(L, picture), G, 0)), Thrown(Runs(L, G, 0))}
    BY <1>1, <1>6, <2>1, InvokeObject
  <2>3. CASE result = Done(picture, Runs(Plus(L, picture), G, 0))
    <3>1. result.value = picture /\ result.vm = Runs(Plus(L, picture), G, 0)
      BY <2>3 DEF Done
    <3>2. java' = Runs(Plus(L, picture), G, 1)
      BY <1>1, <1>2, <3>1, LocksIs DEF Runs
    <3>3. at' = "test" /\ frame'.canvas = picture /\ Locked' = 1
      BY <1>2, <1>3, <1>4, <3>1 DEF Locked
    <3>4. Frame'
      BY <1>0, <1>2, <1>3, <1>6, <3>3 DEF Frame, Framing, Opening
    <3>5. Plus(L, picture) \in Locals'
      BY <1>0, <1>2, <1>3, <3>3 DEF Locals, Given, Plus
    <3>6. References'
      BY <1>0, <3>2, <3>3, <3>5 DEF References
    <3> QED BY <1>0, <3>3, <3>4, <3>6, FrameEnds DEF Framing, Opening
  <2>4. CASE result = Thrown(Runs(L, G, 0))
    <3>1. result.value = Null /\ result.vm = Runs(L, G, 0)
      BY <2>4 DEF Thrown
    <3>2. java' = Runs(L, G, 0)
      BY <1>1, <3>1, LocksIs DEF Runs
    <3>3. at' = "unlock" /\ frame'.canvas = Null /\ Locked' = 0
      BY <1>3, <1>4, <3>1 DEF Locked
    <3>4. Frame'
      BY <1>0, <1>3, <3>3 DEF Frame, Framing, Opening
    <3>5. L \in Locals'
      BY <1>0, <1>3, <3>3 DEF Locals, Given
    <3>6. References'
      BY <1>0, <3>2, <3>3, <3>5, ReferencesAre
    <3> QED BY <1>0, <3>3, <3>4, <3>6, FrameEnds DEF Framing, Opening
  <2> QED BY <2>2, <2>3, <2>4
<1>7. CASE surface = Null
  <2>1. ~hardware /\ canvas.surface = Null
    BY <1>0, <1>7 DEF HostInv, Canvas
  <2>2. PICK l, g, p : java = Vm(l, g, p, Running, 0)
    <3>1. java = Runs(L, G, 0) \/ java = Raised({}, {}, 0)
      BY <1>0, <1>5 DEF HostInv, References, Opening
    <3>2. CASE java = Runs(L, G, 0)
      BY <3>2 DEF Runs
    <3>3. CASE java = Raised({}, {}, 0)
      BY <3>3 DEF Raised
    <3> QED BY <3>1, <3>2, <3>3
  <2>3. PICK q : result.value = Null /\ result.vm = Vm(l, g, q, Aborted, 0)
    BY <1>1, <1>7, <2>2, InvokeAborts
  <2>4. java' = Vm(l, g, q, Aborted, 0)
    BY <1>1, <2>3, LocksIs
  <2>5. java'.state = Aborted /\ java'.locked = 0
    BY <2>4, VmFields
  <2>6. at' = "unlock" /\ frame'.canvas = Null
    BY <1>3, <1>4, <2>3
  <2>7. Frame'
    BY <1>0, <1>3, <2>6 DEF Frame, Framing, Opening
  <2>8. References'
    BY <1>0, <2>1, <2>5, <2>6 DEF References
  <2> QED BY <1>0, <2>6, <2>7, <2>8, FrameEnds DEF Framing, Opening
<1> QED BY <1>6, <1>7

LEMMA UnlockStep == ASSUME HostHypotheses, HostInv, Unlock, java.state = Running PROVE HostInv'
<1> DEFINE G == Given(canvas.surface)
           surface == frame.surface
           picture == frame.canvas
           L == IF hardware THEN {} ELSE Given(surface)
<1>0. /\ at = "unlock" /\ at \in Framing /\ at' = "looper" /\ frame' = NoFrame
      /\ UNCHANGED <<ps, hardware, app, host, canvas>>
      /\ picture \in {Null, <<"canvas", window>>} /\ surface \in {Null, Surface(window)}
      /\ picture # Null => surface # Null
  <2>1. at = "unlock" /\ at \in Framing /\ at' = "looper" /\ frame' = NoFrame
        /\ UNCHANGED <<ps, hardware, app, host, canvas>>
    BY DEF Unlock, Framing, Opening, Goes
  <2> QED BY <2>1 DEF HostInv, Frame
<1>1. PICK posted \in (IF picture = Null THEN {java}
                       ELSE {Posts(result.vm) : result \in Invoke_JavaCall("CallVoidMethodA", surface, Null, java)}) :
        java' = LET left == Remove_JavaLocalRef(picture, posted)
                IN  IF hardware THEN left ELSE Remove_JavaLocalRef(surface, left)
  BY DEF Unlock, Posts
<1>2. Remove_JavaLocalRef(picture, posted) = Runs(L, G, 0)
  <2>1. CASE picture = Null
    <3>1. Locals = {L} /\ Locked = 0
      BY <1>0, <2>1 DEF Locals, Locked, Given
    <3>2. java = Runs(L, G, 0)
      BY <1>0, <3>1, JavaIs
    <3>3. posted = Runs(L, G, 0)
      BY <1>1, <2>1, <3>2
    <3> QED BY <2>1, <3>3 DEF Remove_JavaLocalRef
  <2>2. CASE picture # Null
    <3> DEFINE M == {picture} \union L
    <3>1. java = Runs(M, G, 1) /\ surface # Null
      <4>1. L = IF hardware THEN {} ELSE {surface}
        BY <1>0, <2>2 DEF Given
      <4> QED BY <1>0, <2>2, <4>1, JavaWithCanvas
    <3>2. Invoke_JavaCall("CallVoidMethodA", surface, Null, Runs(M, G, 1))
            = {Done(Null, Runs(M, G, 1)), Thrown(Runs(M, G, 1))}
      BY <3>1, InvokeVoid
    <3>3. posted = Posts(Runs(M, G, 1))
      <4>1. PICK result \in Invoke_JavaCall("CallVoidMethodA", surface, Null, java) : posted = Posts(result.vm)
        BY <1>1, <2>2
      <4>2. result.vm = Runs(M, G, 1)
        <5> HIDE DEF M, G, L
        <5>1. result = Done(Null, Runs(M, G, 1)) \/ result = Thrown(Runs(M, G, 1))
          BY <3>1, <3>2, <4>1
        <5> QED BY <5>1 DEF Done, Thrown
      <4> QED BY <4>1, <4>2
    <3>4. Posts(Runs(M, G, 1)) = Runs(M, G, 0)
      BY LocksIs DEF Runs
    <3>5. Remove_JavaLocalRef(picture, Runs(M, G, 0)) = Runs(Minus(M, picture), G, 0)
      BY <2>2, RemoveIs DEF Runs
    <3>6. Minus(M, picture) = L
      <4>1. picture = <<"canvas", window>> /\ surface = <<"surface", window>>
        BY <1>0, <2>2 DEF Surface
      <4>2. picture # surface
        BY <4>1
      <4> QED BY <4>2 DEF Minus, Given
    <3> QED BY <2>2, <3>3, <3>4, <3>5, <3>6
  <2> QED BY <2>1, <2>2
<1>3. java' = Runs({}, G, 0)
  <2>1. CASE hardware
    BY <1>1, <1>2, <2>1
  <2>2. CASE ~hardware
    <3>1. java' = Remove_JavaLocalRef(surface, Runs(Given(surface), G, 0))
      BY <1>1, <1>2, <2>2
    <3>2. CASE surface = Null
      <4>1. Given(surface) = {}
        BY <3>2 DEF Given
      <4> QED BY <3>1, <3>2, <4>1 DEF Remove_JavaLocalRef
    <3>3. CASE surface # Null
      <4>1. Minus(Given(surface), surface) = {}
        BY DEF Given, Minus
      <4>2. Remove_JavaLocalRef(surface, Runs(Given(surface), G, 0)) = Runs(Minus(Given(surface), surface), G, 0)
        BY <3>3, RemoveIs DEF Runs
      <4> QED BY <3>1, <4>1, <4>2
    <3> QED BY <3>2, <3>3
  <2> QED BY <2>1, <2>2
<1>4. Frame' /\ Locked' = 0
  <2>1. frame'.canvas = Null /\ frame'.surface = Null
    BY <1>0, NoFrameIs
  <2> QED BY <1>0, <2>1, NoFrameIs DEF Frame, Framing, Opening, Locked
<1>5. {} \in Locals'
  BY <1>0 DEF Locals
<1>6. References'
  BY <1>0, <1>3, <1>4, <1>5, ReferencesAre
<1> QED BY <1>0, <1>4, <1>6, FrameEnds

-----------------------------------------------------------------------------
(* Every step *)

LEMMA HostUnchanged == ASSUME HostInv, UNCHANGED vars PROVE HostInv'
<1>1. Windows' /\ Canvas'
  BY InPlace DEF vars, HostInv, Windows, Places, Opening
<1>2. Frame'
  BY DEF vars, app, HostInv, Frame
<1>3. References'
  <2>1. Locals' = Locals /\ Locked' = Locked /\ LocalsOfOpening' = LocalsOfOpening
    BY DEF vars, app, Locals, Locked, Class, LocalsOfOpening, Monospace, Paint, SetTypeface
  <2>2. References
    BY DEF HostInv
  <2> QED BY <2>1, <2>2 DEF vars, References
<1>4. Memory'
  BY DEF vars, host, HostInv, Memory
<1>5. Started' /\ ProbeAnswers'
  BY SameAnswer DEF vars, host, app, HostInv, Started, Ran
<1> QED BY <1>1, <1>2, <1>3, <1>4, <1>5 DEF HostInv

LEMMA HostStep == ASSUME HostHypotheses, HostInv, [Next]_vars PROVE HostInv'
<1>1. CASE UNCHANGED vars
  BY <1>1, HostUnchanged
<1>2. CASE Next
  <2>1. java.state = Running
    BY <1>2 DEF Next
  <2>2. CASE Create \/ FormatDirectory \/ FormatContract \/ coreclr_initialize \/ Admit \/ RunPowerShell
    BY <2>2, CreateStep, FormatDirectoryStep, FormatContractStep, InitializeStep, AdmitStep, RunStep
  <2>3. CASE CreateAdmit
    BY <2>3, CreateDelegateStep DEF CreateAdmit
  <2>4. CASE CreateRun
    BY <2>4, CreateDelegateStep DEF CreateRun
  <2>5. CASE GetObjectClass \/ FillMethods \/ RegisterNatives \/ LeaveBind
    BY <2>5, GetObjectClassStep, FillMethodsStep, RegisterNativesStep, LeaveBindStep
  <2>9. CASE Initialize_AndroidCanvas \/ OpenMembers \/ OpenPaint \/ Register_WindowDrawHandler \/ Return
    BY <2>1, <2>9, Initialize_AndroidCanvasStep, OpenMembersStep, OpenPaintStep, Register_WindowDrawHandlerStep, ReturnStep
  <2>6. CASE WindowCreated \/ WindowAgain \/ WindowDestroyed \/ Destroy \/ Request_WindowDraw \/ Probe
    BY <2>6, WindowCreatedStep, WindowAgainStep, WindowDestroyedStep, DestroyStep, Request_WindowDrawStep, ProbeStep
  <2>7. CASE OpenSurface \/ SetGeometry \/ ToSurface \/ Retain
    BY <2>1, <2>7, OpenSurfaceStep, SetGeometryStep, ToSurfaceStep, RetainStep
  <2>8. CASE Lock \/ TestHardware \/ DrawFrame \/ Unlock
    BY <2>1, <2>8, LockStep, TestHardwareStep, DrawFrameStep, UnlockStep
  <2> QED BY <1>2, <2>2, <2>3, <2>4, <2>5, <2>6, <2>7, <2>8, <2>9 DEF Next
<1> QED BY <1>1, <1>2

LEMMA HostAlways == ASSUME HostHypotheses PROVE Spec => []HostInv
<1>1. Init => HostInv
  BY HostInit
<1>2. HostInv /\ [Next]_vars => HostInv'
  BY HostStep
<1> QED BY <1>1, <1>2, PTL DEF Spec

-----------------------------------------------------------------------------
(* What they mean *)

\* Whatever the VM, the runtime or Android fails, a callback returns with every
\* canvas posted and no reference, exception or memory held, but for two
\* typefaces that onCreate leaves to the VM, and the hardware path makes no call
\* the VM aborts on: Invoke-CanvasFrame, Initialize-AndroidCanvas, JavaPeers.Bind.
THEOREM LeavesNothing == ASSUME HostHypotheses PROVE Spec => []CallbacksLeaveNothing
<1>1. HostInv => CallbacksLeaveNothing
  <2> SUFFICES ASSUME HostInv PROVE CallbacksLeaveNothing
    OBVIOUS
  <2>1. java.locked \in 0..1 /\ (hardware /\ at \notin Opening => java.state = Running)
    <3>1. CASE java.state = Aborted /\ java.locked = 0 /\ ~hardware
      BY <3>1
    <3>2. CASE \E locals \in Locals : java = Runs(locals, Given(canvas.surface), Locked)
      <4>1. java.locked = Locked /\ java.state = Running
        BY <3>2, VmFields DEF Runs
      <4> QED BY <4>1 DEF Locked
    <3>3. CASE java = Raised({}, {}, 0)
      BY <3>3 DEF Raised, Vm
    <3>4. CASE at \in Opening /\ \E locals, state : java = Vm(locals, Given(canvas.surface), NoException, state, 0)
      BY <3>4, VmFields
    <3> QED BY <3>1, <3>2, <3>3, <3>4 DEF HostInv, References
  <2>2. ASSUME at = "looper" PROVE java.locked = 0 /\ java.locals = {} /\ java.pending = NoException
    <3>1. java = Runs({}, Given(canvas.surface), 0)
      BY <2>2, JavaAtLooper
    <3> QED BY <3>1 DEF Runs, Vm
  <2>3. ASSUME at \in {"opened", "looper"} PROVE memory = {} /\ frame = NoFrame
    BY <2>3 DEF HostInv, Memory, Frame, Framing
  <2>4. ASSUME at = "opened"
        PROVE java.locked = 0 /\ java.locals \subseteq {Monospace, SetTypeface} /\ java.pending = NoException
    <3>1. at \in Opening /\ LocalsOfOpening = {Monospace, SetTypeface}
      BY <2>4 DEF Opening, LocalsOfOpening
    <3>2. PICK l, t : l \subseteq LocalsOfOpening /\ java = Vm(l, Given(canvas.surface), NoException, t, 0)
      BY <3>1, JavaOpening
    <3> QED BY <3>1, <3>2, VmFields
  <2> QED BY <2>1, <2>2, <2>3, <2>4 DEF CallbacksLeaveNothing
<1> QED BY <1>1, HostAlways, PTL

\* Frames are drawn on the window that is there, and its surface goes with it:
\* the handlers of AndroidCanvas.psm1.
THEOREM WindowsGoClean == ASSUME HostHypotheses PROVE Spec => []WindowGoesClean
<1>1. HostInv => WindowGoesClean
  <2> SUFFICES ASSUME HostInv PROVE WindowGoesClean
    OBVIOUS
  <2>1. frame.window \in {0, window}
    BY InFrame, NoFrameIs DEF HostInv, Frame
  <2>2. ASSUME at = "looper" PROVE java.globals \subseteq {<<"surface", window>>} /\ canvas.window \in {0, window}
    <3>1. java.globals = Given(canvas.surface)
      <4>1. java = Runs({}, Given(canvas.surface), 0)
        BY <2>2, JavaAtLooper
      <4> QED BY <4>1, VmFields DEF Runs
    <3>2. canvas.surface \in {Null, <<"surface", window>>} /\ canvas.window \in {0, window}
      BY DEF HostInv, Canvas, Surface
    <3> QED BY <3>1, <3>2 DEF Given
  <2> QED BY <2>1, <2>2 DEF WindowGoesClean
<1> QED BY <1>1, HostAlways, PTL

\* PowerShell is started at most once, as admitted, with the fields the headers
\* lay out; a start that failed is in the log; and the probe answers for the first
\* assembly of the name: ANativeActivity_onCreate, pwsh_assembly_probe.
THEOREM HandsOver == ASSUME HostHypotheses PROVE Spec => []HostHandsOver
<1>1. HostInv => HostHandsOver
  <2> SUFFICES ASSUME HostInv PROVE HostHandsOver
    OBVIOUS
  <2>1. ran # <<>> => Len(ran) = 1 /\ ran[1][1] = "env" /\ ran[1][2] = "clazz" /\ delegates = {"Admit", "RunPowerShell"}
    <3> SUFFICES ASSUME ran # <<>> PROVE Len(ran) = 1 /\ ran[1][1] = "env" /\ ran[1][2] = "clazz" /\ delegates = Both
      BY DEF Both
    <3>1. PICK a : ran = <<<<"env", "clazz", a>>>>
      BY DEF HostInv, Started
    <3>2. Len(ran) = 1 /\ ran[1] = <<"env", "clazz", a>>
      BY <3>1
    <3>3. ran[1][1] = "env" /\ ran[1][2] = "clazz"
      BY <3>2
    <3> QED BY <3>2, <3>3 DEF HostInv, Started
  <2>2. runtime.up => runtime.directory = "internalDataPath" /\ runtime.probe = <<"pwsh_assembly_probe", 0>>
    BY DEF HostInv, Started
  <2>3. at = "looper" /\ activity # 0 /\ (ran = <<>> \/ ran[1][3] # activity) => log[1] = 6
    BY DEF HostInv, Started, Ran
  <2>4. RunsOnce /\ ProbeAnswers
    BY <2>1, <2>2, <2>3 DEF RunsOnce, HostInv
  <2> QED BY <2>4 DEF HostHandsOver
<1> QED BY <1>1, HostAlways, PTL
=============================================================================
