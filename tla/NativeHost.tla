----------------------------- MODULE NativeHost -----------------------------
(***************************************************************************)
(* The native host of the app on Android's main thread: the code setup.ps1 *)
(* emits for ANativeActivity_onCreate (it starts CoreCLR and calls the     *)
(* managed entries), the peers' registration with the VM, and the window   *)
(* callbacks and frames of AndroidCanvas.psm1.  What crosses a boundary by *)
(* position does so here too: a struct is read at an offset, a JNI         *)
(* function is fetched from its slot, a callback is called from the table  *)
(* of lib/native_activity.h.  Android, the VM and the runtime choose when  *)
(* to call and what fails.                                                 *)
(***************************************************************************)
EXTENDS Integers, Sequences, FiniteSets, SequencesExt, JniTable

CONSTANTS
  PointerSizes,   \* bytes in a pointer, one per target: 4 and 8
  StoreEntries,   \* the assemblies of the store: name, offset, size
  Requests,       \* the names the runtime probes for
  MaxActivities,  \* bound: activities Android makes in one process
  MaxWindows      \* bound: windows it makes

-----------------------------------------------------------------------------
(* What the headers declare.                                                 *)

Member(name, type) == [name |-> name, type |-> type]
ANativeActivity ==
  <<Member("callbacks", "pointer"), Member("vm", "pointer"), Member("env", "pointer"), Member("clazz", "pointer"),
    Member("internalDataPath", "pointer"), Member("externalDataPath", "pointer"), Member("sdkVersion", "int32_t"),
    Member("instance", "pointer"), Member("assetManager", "pointer"), Member("obbPath", "pointer")>>
ANativeActivityCallbacks ==
  <<"onStart", "onResume", "onSaveInstanceState", "onPause", "onStop", "onDestroy", "onWindowFocusChanged",
    "onNativeWindowCreated", "onNativeWindowResized", "onNativeWindowRedrawNeeded", "onNativeWindowDestroyed",
    "onInputQueueCreated", "onInputQueueDestroyed", "onContentRectChanged", "onConfigurationChanged", "onLowMemory">>
host_runtime_contract ==
  <<"size", "context", "get_runtime_property", "bundle_probe", "pinvoke_override", "external_assembly_probe",
    "get_native_code_data">>
android_LogPriority == <<"UNKNOWN", "DEFAULT", "VERBOSE", "DEBUG", "INFO", "WARN", "ERROR", "FATAL", "SILENT">>

Place(name, names) == CHOOSE i \in 1..Len(names) : names[i] = name
Get_AndroidLogPriority(name) == Place(name, android_LogPriority) - 1
Get_HostRuntimeContractLayout(ps) ==
  [member \in ToSet(host_runtime_contract) |-> (Place(member, host_runtime_contract) - 1) * ps]

\* Natural alignment: a member starts at a multiple of its size.
SizeOf(type, ps) == IF type = "pointer" THEN ps ELSE 4
FieldOffsets(ps) ==
  LET size(i) == SizeOf(ANativeActivity[i].type, ps)
      at[i \in 1..Len(ANativeActivity)] ==
        IF i = 1 THEN 0 ELSE ((at[i - 1] + size(i - 1) + size(i) - 1) \div size(i)) * size(i)
  IN  at
Get_NativeActivityFieldOffset(field, ps) ==
  FieldOffsets(ps)[CHOOSE i \in 1..Len(ANativeActivity) : ANativeActivity[i].name = field]

\* Mutation: the offset of a 64-bit target everywhere.
InternalDataPath_Wide(ps) == 32

\* The emitted code reads the path at the header's offset on arm32 and at 32 elsewhere.
InternalDataPath(ps) == IF ps = 4 THEN Get_NativeActivityFieldOffset("internalDataPath", ps) ELSE 32

\* The contract as emitted: zero except its size and the probe.
Contract(ps) ==
  [offset \in {(i - 1) * ps : i \in 1..Len(host_runtime_contract)} |->
     CASE offset = Get_HostRuntimeContractLayout(ps)["size"] -> <<"size", Len(host_runtime_contract) * ps>>
       [] offset = Get_HostRuntimeContractLayout(ps)["external_assembly_probe"] -> <<"pwsh_assembly_probe", 0>>
       [] OTHER -> <<"zero", 0>>]

\* Name, data offset and size of each image, three words each; a zero name ends it.
End == "zero"
ProbeTable ==
  [word \in 1..(3 * Len(StoreEntries) + 1) |->
     IF word > 3 * Len(StoreEntries) THEN End
     ELSE LET entry == StoreEntries[((word - 1) \div 3) + 1]
          IN  <<entry.name, entry.offset, entry.size>>[((word - 1) % 3) + 1]]

\* The walk of the table stops at the name looked for, or at its end; out
\* parameters that are not written keep what they held.
Garbage == -1
pwsh_assembly_probe(path) ==
  LET stops == {3 * k + 1 : k \in {k \in 0..Len(StoreEntries) : ProbeTable[3 * k + 1] \in {path, End}}}
      cursor == CHOOSE c \in stops : \A d \in stops : c <= d
  IN  IF ProbeTable[cursor] = End THEN [found |-> FALSE, start |-> Garbage, size |-> <<Garbage, Garbage>>]
      ELSE [found |-> TRUE, start |-> ProbeTable[cursor + 1], size |-> <<ProbeTable[cursor + 2], 0>>]

-----------------------------------------------------------------------------
VARIABLES
  ps, hardware,   \* of this build: bytes in a pointer, and -Hardware
  at,             \* where the main thread is; "looper" when Android has it
  activity,       \* the activity, 0 when there is none
  made,           \* activities and windows Android has made
  window,         \* the activity's window, 0 when there is none
  callbacks,      \* the activity's table: slot to handler
  runtime,        \* what CoreCLR was started with
  delegates,      \* managed entries it has handed out
  ran,            \* the calls of RunPowerShell: <<field, field, activity>> each
  java,           \* the VM: references held, a pending exception, canvases locked
  peers,          \* handlers the VM has for the activity's class
  memory,         \* unmanaged blocks of Bind
  canvas,         \* $script: variables of AndroidCanvas.psm1
  frame,          \* locals of Invoke-CanvasFrame
  log,            \* the last line in the log
  answer          \* what the probe last answered, and to whom

host == <<runtime, delegates, ran, peers, memory, answer>>
app == <<activity, made, window, callbacks>>
vars == <<ps, hardware, at, app, host, java, canvas, frame, log>>

\* A word of the activity's structure, whatever field it is.
Read(offset) ==
  LET fields == {f \in ToSet(ANativeActivity) : Get_NativeActivityFieldOffset(f.name, ps) = offset}
  IN  IF fields = {} THEN "garbage" ELSE (CHOOSE f \in fields : TRUE).name
Slot(callback) == Place(callback, ANativeActivityCallbacks) - 1
Nobody == [slot \in 0..(Len(ANativeActivityCallbacks) - 1) |-> "none"]

-----------------------------------------------------------------------------
(* The VM.  A reference is <<what, of which window or activity>>.            *)

Null == <<>>
NoException == "none"
AnException == "pending"
Running == "running"
Aborted == "aborted"
Always == {"ExceptionCheck", "ExceptionDescribe", "ExceptionClear", "DeleteLocalRef", "DeleteGlobalRef"}
Gives(value, vm) == [value |-> value, vm |-> vm]
Raises(vm) == Gives(Null, [vm EXCEPT !.pending = AnException])

\* What a function may do with its argument; an object it returns is ref.  The
\* VM aborts on a null object and on a call with an exception pending.
JniCall(function, arg, ref, vm) ==
  LET local == [vm EXCEPT !.locals = @ \union {ref}]
  IN  IF function \notin Always /\ (vm.pending # NoException \/ arg = Null)
      THEN {Gives(Null, [vm EXCEPT !.state = Aborted])}
      ELSE CASE function \in {"GetObjectClass", "FindClass", "NewObjectA", "CallObjectMethodA"} -> {Gives(ref, local), Raises(vm)}
        [] function = "GetStaticObjectField" -> {Gives(ref, local)}
        [] function \in {"CallVoidMethodA", "GetMethodID", "GetStaticMethodID", "GetStaticFieldID"} -> {Gives(Null, vm), Raises(vm)}
        [] function = "CallBooleanMethodA" -> {Gives(ref, vm), Gives(Null, vm), Raises(vm)}
        [] function = "RegisterNatives" -> {Gives(ref, vm), Gives(Null, vm), Raises(vm)}
        [] function = "NewGlobalRef" -> {Gives(arg, [vm EXCEPT !.globals = @ \union {arg}]), Gives(Null, vm), Raises(vm)}
        [] function = "DeleteGlobalRef" -> {Gives(Null, [vm EXCEPT !.globals = @ \ {arg}])}
        [] function = "DeleteLocalRef" -> {Gives(Null, [vm EXCEPT !.locals = @ \ {arg}])}
        [] function = "ExceptionClear" -> {Gives(Null, [vm EXCEPT !.pending = NoException])}
        [] OTHER -> {Gives(Null, vm)}

Function(name) == JNINativeInterface[JniSlot[name] + 1]
PeerFunction(name) == JNINativeInterface[Get_JniFunctionTable[name] + 1]
VmAfter(function, arg, vm) == (CHOOSE result \in JniCall(function, arg, Null, vm) : TRUE).vm

\* Assert-NoJavaException: clears what it throws for.
Asserted(result) ==
  IF result.vm.pending # NoException /\ Function("ExceptionCheck") = "ExceptionCheck"
  THEN [value |-> Null, ends |-> "throws",
        vm |-> VmAfter(Function("ExceptionClear"), Null, VmAfter(Function("ExceptionDescribe"), Null, result.vm))]
  ELSE [value |-> result.value, ends |-> "returns", vm |-> result.vm]
Invoke_JavaCall(name, arg, ref, vm) == {Asserted(result) : result \in JniCall(Function(name), arg, ref, vm)}
\* Mutation: the reference is kept.
Remove_JavaLocalRef_Kept(ref, vm) == vm
Remove_JavaLocalRef(ref, vm) == IF ref = Null THEN vm ELSE VmAfter(Function("DeleteLocalRef"), ref, vm)

\* Mutation: an exception on the way keeps the reference.
Closed_OnlyWhole(c, vm) ==
  IF c.surface = Null THEN {[ends |-> "returns", vm |-> vm]}
  ELSE {[ends |-> result.ends,
         vm |-> IF result.ends = "throws" THEN result.vm ELSE VmAfter(Function("DeleteGlobalRef"), c.surface, result.vm)] :
          result \in Invoke_JavaCall("CallVoidMethodA", c.surface, Null, vm)}

\* Close-HardwareSurface: the variables go first, the reference last and in any case.
Closed(c, vm) ==
  IF c.surface = Null THEN {[ends |-> "returns", vm |-> vm]}
  ELSE {[ends |-> result.ends, vm |-> VmAfter(Function("DeleteGlobalRef"), c.surface, result.vm)] :
          result \in Invoke_JavaCall("CallVoidMethodA", c.surface, Null, vm)}
NoSurface(c) == [c EXCEPT !.surface = Null, !.surfaceWindow = 0]

NoFrame == [window |-> 0, surface |-> Null, canvas |-> Null]
NotStarted == [up |-> FALSE, directory |-> "", probe |-> <<>>]
Init ==
  /\ ps \in PointerSizes /\ hardware \in BOOLEAN
  /\ at = "looper" /\ activity = 0 /\ made = [activities |-> 0, windows |-> 0] /\ window = 0 /\ callbacks = Nobody
  /\ runtime = NotStarted /\ delegates = {} /\ ran = <<>> /\ peers = {} /\ memory = {} /\ log = <<>>
  /\ java = [locals |-> {}, globals |-> {}, pending |-> NoException, state |-> Running, locked |-> 0]
  /\ canvas = [activity |-> 0, draws |-> FALSE, window |-> 0, surface |-> Null, surfaceWindow |-> 0]
  /\ frame = NoFrame /\ answer = <<>>

-----------------------------------------------------------------------------
(* ANativeActivity_onCreate.  A failure is logged and ends it.               *)

Create ==
  /\ at = "looper" /\ activity = 0 /\ made.activities < MaxActivities
  /\ activity' = made.activities + 1 /\ made' = [made EXCEPT !.activities = @ + 1]
  /\ callbacks' = Nobody /\ window' = 0 /\ at' = "directory"
  /\ UNCHANGED <<ps, hardware, host, java, canvas, frame, log>>

Fails(line) == at' = "looper" /\ log' = <<Get_AndroidLogPriority("ERROR"), line>>
Goes(place) == at' = place /\ UNCHANGED log

\* snprintf returns the length it needed, or -1; the comparison is unsigned.
Fits(length, bound) == length \in 0..(bound - 1)
FormatDirectory ==
  /\ at = "directory"
  /\ \E length \in {20, 511, 512, -1} :
       IF Fits(length, 512)
       THEN Goes("contract") /\ runtime' = [runtime EXCEPT !.directory = Read(InternalDataPath(ps))]
       ELSE Fails("base directory does not fit") /\ UNCHANGED runtime
  /\ UNCHANGED <<ps, hardware, app, delegates, ran, peers, memory, java, canvas, frame, answer>>

FormatContract ==
  /\ at = "contract"
  /\ \E length \in {10, -1} :
       IF Fits(length, 32) THEN Goes("initialize") ELSE Fails("contract pointer does not fit")
  /\ UNCHANGED <<ps, hardware, app, host, java, canvas, frame>>

\* CoreCLR starts once in a process: a second start is refused.
coreclr_initialize ==
  /\ at = "initialize"
  /\ \E result \in (IF runtime.up THEN {1} ELSE {0, 1}) :
       IF result = 0
       THEN /\ Goes("admit")
            /\ runtime' = [runtime EXCEPT !.up = TRUE,
                 !.probe = Contract(ps)[(Place("external_assembly_probe", host_runtime_contract) - 1) * ps]]
       ELSE Fails("coreclr_initialize failed") /\ UNCHANGED runtime
  /\ UNCHANGED <<ps, hardware, app, delegates, ran, peers, memory, java, canvas, frame, answer>>

coreclr_create_delegate(here, method, next) ==
  /\ at = here
  /\ \E result \in {0, 1} :
       IF result = 0 THEN Goes(next) /\ delegates' = delegates \union {method}
       ELSE Fails("coreclr_create_delegate failed") /\ UNCHANGED delegates
  /\ UNCHANGED <<ps, hardware, app, runtime, ran, peers, memory, java, canvas, frame, answer>>

CreateAdmit == coreclr_create_delegate("admit", "Admit", "admission")
CreateRun == coreclr_create_delegate("create run", "RunPowerShell", "run")

PWSH == 1347900232
Admit ==
  /\ at = "admission"
  /\ \E result \in {PWSH, 0} : IF result = PWSH THEN Goes("create run") ELSE Fails("Admit returned")
  /\ UNCHANGED <<ps, hardware, app, host, java, canvas, frame>>

RunPowerShell ==
  /\ at = "run" /\ Goes("get class")
  /\ ran' = Append(ran, <<Read(2 * ps), Read(3 * ps), activity>>)
  /\ UNCHANGED <<ps, hardware, app, runtime, delegates, peers, memory, java, canvas, frame, answer>>

-----------------------------------------------------------------------------
(* JavaPeers.Bind.  An exception is caught in RunPowerShell, which returns   *)
(* its HResult.                                                              *)

\* The finally block, entered by an exception or after the last call.
Finally(thrown) == Goes(IF thrown THEN "unbind after exception" ELSE "unbind")
\* Check: clears what it throws for.
Check(vm) == IF vm.pending # NoException THEN VmAfter(PeerFunction("ExceptionClear"), Null, vm) ELSE vm

GetObjectClass ==
  /\ at = "get class"
  /\ \E result \in JniCall(PeerFunction("GetObjectClass"), <<Read(3 * ps)>>, <<"class", activity>>, java) :
       /\ java' = Check(result.vm)
       /\ IF result.vm.pending # NoException THEN Finally(TRUE) ELSE Goes("fill methods")
  /\ UNCHANGED <<ps, hardware, app, host, canvas, frame>>

\* Two strings for each of the two handlers; an allocation may fail.
Returned == at' = "looper" /\ log' = <<Get_AndroidLogPriority("INFO"), "RunPowerShell returned">>
Strings == {"name 1", "descriptor 1", "name 2", "descriptor 2"}
FillMethods ==
  /\ at = "fill methods"
  /\ \E got \in {{}, {"methods"}, {"methods", "name 1"}, {"methods"} \union Strings} :
       /\ memory' = got
       /\ IF got = {"methods"} \union Strings THEN Goes("register") ELSE Finally(TRUE)
  /\ UNCHANGED <<ps, hardware, app, runtime, delegates, ran, peers, java, canvas, frame, answer>>

\* Exception first, then the result.
RegisterNatives ==
  /\ at = "register"
  /\ \E result \in JniCall(PeerFunction("RegisterNatives"), <<"class", activity>>, <<"0">>, java) :
       /\ java' = Check(result.vm)
       /\ peers' = IF result.value = <<"0">> THEN {"OnActivityResult", "OnRequestPermissionsResult"} ELSE peers
       /\ Finally(result.value # <<"0">>)
  /\ UNCHANGED <<ps, hardware, app, runtime, delegates, ran, memory, canvas, frame, answer>>

LeaveBind ==
  /\ at \in {"unbind", "unbind after exception"}
  /\ memory' = memory \ (Strings \union {"methods"})
  /\ java' = IF <<"class", activity>> \in java.locals
             THEN VmAfter(PeerFunction("DeleteLocalRef"), <<"class", activity>>, java) ELSE java
  /\ IF at = "unbind" THEN Goes("session") ELSE Returned
  /\ UNCHANGED <<ps, hardware, app, runtime, delegates, ran, peers, canvas, frame, answer>>

-----------------------------------------------------------------------------
(* The session: the start script opens the canvas, once, and registers its   *)
(* handlers.  An exception ends it.  One class stands for the four that      *)
(* Initialize-AndroidCanvas finds, and one method of each kind for the rest. *)

Opening == {"members", "paint", "handlers", "opened"}
TypefaceClass == <<"class Typeface", activity>>
Monospace == <<"monospace", activity>>
Paint == <<"paint", activity>>
SetTypeface == <<"typeface set", activity>>

\* A global reference the module keeps as long as the process; java.globals
\* does not count it.  Its caller makes no check.
Lasting(ref, vm) ==
  {Gives(result.value, [result.vm EXCEPT !.globals = vm.globals]) : result \in JniCall(Function("NewGlobalRef"), ref, ref, vm)}
GoesUnless(ends, place) == IF ends = "throws" THEN Goes("opened") ELSE Goes(place)

\* The classes, and the local reference to the typeface.
Initialize_AndroidCanvas ==
  /\ at = "session"
  /\ IF canvas.activity # 0 THEN Goes("opened") /\ UNCHANGED <<java, canvas>>
     ELSE /\ canvas' = [canvas EXCEPT !.activity = activity]
          /\ \E found \in Invoke_JavaCall("FindClass", <<"name">>, TypefaceClass, java) :
               IF found.ends = "throws" THEN java' = found.vm /\ Goes("opened")
               ELSE \E class \in Lasting(TypefaceClass, found.vm) :
                    \E field \in Invoke_JavaCall("GetStaticFieldID", class.value, Null,
                                                 VmAfter(Function("DeleteLocalRef"), TypefaceClass, class.vm)) :
                      IF field.ends = "throws" THEN java' = field.vm /\ Goes("opened")
                      ELSE \E mono \in JniCall(Function("GetStaticObjectField"), class.value, Monospace, field.vm) :
                             java' = mono.vm /\ Goes("members")
  /\ UNCHANGED <<ps, hardware, app, host, frame>>

OpenMembers ==
  /\ at = "members"
  /\ \E method \in Invoke_JavaCall("GetMethodID", TypefaceClass, Null, java) :
       IF method.ends = "throws" THEN java' = method.vm /\ Goes("opened")
       ELSE \E paint \in Invoke_JavaCall("NewObjectA", TypefaceClass, Paint, method.vm) :
              java' = paint.vm /\ GoesUnless(paint.ends, "paint")
  /\ UNCHANGED <<ps, hardware, app, host, canvas, frame>>

\* The paint's local reference is removed; the typeface's, and the one that
\* setTypeface returns, are not.
OpenPaint ==
  /\ at = "paint"
  /\ \E paint \in Lasting(Paint, java) :
     \E mono \in Lasting(Monospace, Remove_JavaLocalRef(Paint, paint.vm)) :
     \E method \in Invoke_JavaCall("GetStaticMethodID", TypefaceClass, Null, mono.vm) :
       IF method.ends = "throws" THEN java' = method.vm /\ Goes("opened")
       ELSE \E set \in Invoke_JavaCall("CallObjectMethodA", paint.value, SetTypeface, method.vm) :
              java' = set.vm /\ GoesUnless(set.ends, "handlers")
  /\ UNCHANGED <<ps, hardware, app, host, canvas, frame>>

\* The script may end before it.
Register_WindowDrawHandler ==
  /\ at = "handlers" /\ Goes("opened")
  /\ \/ UNCHANGED <<canvas, callbacks>>
     \/ /\ canvas' = [canvas EXCEPT !.draws = TRUE]
        /\ callbacks' = [callbacks EXCEPT ![7] = "draw", ![8] = "draw", ![9] = "draw", ![10] = "release"]
  /\ UNCHANGED <<ps, hardware, activity, made, window, host, java, frame>>

\* onCreate is a native method for the VM, which frees what local references it left.
Return ==
  /\ at = "opened" /\ Returned
  /\ java' = [java EXCEPT !.locals = {}]
  /\ UNCHANGED <<ps, hardware, app, host, canvas, frame>>

-----------------------------------------------------------------------------
(* The callbacks, and one frame.                                             *)

Draw(w) == /\ frame' = [NoFrame EXCEPT !.window = w] /\ Goes("open surface")
           /\ UNCHANGED <<java, canvas>>

Handle(callback, w) ==
  LET handler == callbacks[Slot(callback)]
  IN  CASE handler = "draw" ->
             /\ frame' = [NoFrame EXCEPT !.window = w] /\ canvas' = [canvas EXCEPT !.window = w]
             /\ Goes("open surface") /\ UNCHANGED java
        [] handler = "release" ->
             /\ \E closed \in Closed(canvas, java) :
                  /\ java' = closed.vm
                  /\ IF closed.ends = "throws" THEN log' = <<Get_AndroidLogPriority("ERROR"), "cleanup">>
                     ELSE log' = <<Get_AndroidLogPriority("INFO"), "window released">>
             /\ canvas' = [NoSurface(canvas) EXCEPT !.window = 0] /\ UNCHANGED <<at, frame>>
        [] OTHER -> UNCHANGED <<at, java, canvas, frame, log>>

WindowCreated ==
  /\ at = "looper" /\ activity # 0 /\ window = 0 /\ made.windows < MaxWindows
  /\ window' = made.windows + 1 /\ made' = [made EXCEPT !.windows = @ + 1]
  /\ Handle("onNativeWindowCreated", window')
  /\ UNCHANGED <<ps, hardware, activity, callbacks, host>>

WindowAgain ==
  /\ at = "looper" /\ window # 0
  /\ \E callback \in {"onNativeWindowResized", "onNativeWindowRedrawNeeded"} : Handle(callback, window)
  /\ UNCHANGED <<ps, hardware, app, host>>

WindowDestroyed ==
  /\ at = "looper" /\ window # 0 /\ window' = 0
  /\ Handle("onNativeWindowDestroyed", window)
  /\ UNCHANGED <<ps, hardware, activity, made, callbacks, host>>

Destroy ==
  /\ at = "looper" /\ activity # 0 /\ window = 0
  /\ activity' = 0 /\ callbacks' = Nobody
  /\ UNCHANGED <<ps, hardware, at, made, window, host, java, canvas, frame, log>>

\* A looper timer outlives the activity that started it.
Request_WindowDraw ==
  /\ at = "looper" /\ canvas.window # 0 /\ canvas.draws
  /\ Draw(canvas.window)
  /\ UNCHANGED <<ps, hardware, app, host>>

Then(result, place) == IF result.ends = "throws" THEN Goes("unlock") ELSE Goes(place)

\* The hardware path keeps a surface for the window; another one is closed first.
OpenSurface ==
  /\ at = "open surface"
  /\ IF ~hardware THEN Goes("set geometry") /\ UNCHANGED <<java, canvas, frame>>
     ELSE IF canvas.surfaceWindow # frame.window
     THEN \E closed \in Closed(canvas, java) :
            java' = closed.vm /\ canvas' = NoSurface(canvas) /\ Then(closed, "set geometry") /\ UNCHANGED frame
     ELSE Goes("lock") /\ frame' = [frame EXCEPT !.surface = canvas.surface] /\ UNCHANGED <<java, canvas>>
  /\ UNCHANGED <<ps, hardware, app, host>>

SetGeometry ==
  /\ at = "set geometry"
  /\ \E result \in {0, -1} : IF result = 0 THEN Goes("to surface") ELSE Goes("unlock")
  /\ UNCHANGED <<ps, hardware, app, host, java, canvas, frame>>

\* Only the hardware path looks at what it got.
ToSurface ==
  /\ at = "to surface"
  /\ LET ref == <<"surface", frame.window>>
     IN  \E result \in {Gives(ref, [java EXCEPT !.locals = @ \union {ref}]), Gives(Null, java), Raises(java)} :
           IF hardware
           THEN LET got == Asserted(result)
                IN  /\ java' = got.vm /\ UNCHANGED frame
                    /\ IF got.ends = "throws" \/ got.value = Null THEN Goes("unlock") ELSE Goes("retain")
           ELSE java' = result.vm /\ frame' = [frame EXCEPT !.surface = result.value] /\ Goes("lock")
  /\ UNCHANGED <<ps, hardware, app, host, canvas>>

Retain ==
  /\ at = "retain"
  /\ LET local == <<"surface", frame.window>>
     IN  \E result \in JniCall(Function("NewGlobalRef"), local, local, java) :
           LET got == Asserted([result EXCEPT !.vm = Remove_JavaLocalRef(local, result.vm)])
           IN  /\ java' = got.vm
               /\ IF got.ends = "throws" \/ result.value = Null
                  THEN Goes("unlock") /\ canvas' = [canvas EXCEPT !.surface = result.value] /\ UNCHANGED frame
                  ELSE /\ canvas' = [canvas EXCEPT !.surface = result.value, !.surfaceWindow = frame.window]
                       /\ frame' = [frame EXCEPT !.surface = result.value] /\ Goes("lock")
  /\ UNCHANGED <<ps, hardware, app, host>>

Lock ==
  /\ at = "lock"
  /\ \E result \in Invoke_JavaCall("CallObjectMethodA", frame.surface, <<"canvas", frame.window>>, java) :
       /\ frame' = [frame EXCEPT !.canvas = result.value]
       /\ java' = [result.vm EXCEPT !.locked = IF result.value = Null THEN @ ELSE @ + 1]
       /\ IF result.value = Null THEN Goes("unlock") ELSE Goes("test")
  /\ UNCHANGED <<ps, hardware, app, host, canvas>>

TestHardware ==
  /\ at = "test"
  /\ IF hardware
     THEN \E result \in Invoke_JavaCall("CallBooleanMethodA", frame.canvas, <<"true">>, java) :
            java' = result.vm /\ (IF result.value = Null THEN Goes("unlock") ELSE Goes("draw"))
     ELSE Goes("draw") /\ UNCHANGED java
  /\ UNCHANGED <<ps, hardware, app, host, canvas, frame>>

\* The handler's own calls fail with an exception that has been cleared.
DrawFrame == at = "draw" /\ Goes("unlock") /\ UNCHANGED <<ps, hardware, app, host, java, canvas, frame>>

\* Finally: post what was locked, and drop the references whether or not that worked.
Unlock ==
  /\ at = "unlock"
  /\ \E posted \in (IF frame.canvas = Null THEN {java}
                    ELSE {[result.vm EXCEPT !.locked = @ - 1] :
                            result \in Invoke_JavaCall("CallVoidMethodA", frame.surface, Null, java)}) :
       LET left == Remove_JavaLocalRef(frame.canvas, posted)
       IN  java' = IF hardware THEN left ELSE Remove_JavaLocalRef(frame.surface, left)
  /\ frame' = NoFrame /\ Goes("looper")
  /\ UNCHANGED <<ps, hardware, app, host, canvas>>

\* The runtime asks for an assembly through the contract it was given.
Probe ==
  /\ at = "looper" /\ runtime.up /\ runtime.probe = <<"pwsh_assembly_probe", 0>>
  /\ \E path \in Requests : answer' = <<path, pwsh_assembly_probe(path)>>
  /\ UNCHANGED <<ps, hardware, at, app, runtime, delegates, ran, peers, memory, java, canvas, frame, log>>

Next ==
  java.state = Running /\
  (\/ Create \/ FormatDirectory \/ FormatContract \/ coreclr_initialize \/ CreateAdmit \/ Admit \/ CreateRun
   \/ RunPowerShell \/ GetObjectClass \/ FillMethods \/ RegisterNatives \/ LeaveBind
   \/ Initialize_AndroidCanvas \/ OpenMembers \/ OpenPaint \/ Register_WindowDrawHandler \/ Return
   \/ WindowCreated \/ WindowAgain \/ WindowDestroyed \/ Destroy \/ Request_WindowDraw
   \/ OpenSurface \/ SetGeometry \/ ToSurface \/ Retain \/ Lock \/ TestHardware \/ DrawFrame \/ Unlock \/ Probe)

Spec == Init /\ [][Next]_vars

-----------------------------------------------------------------------------
(* What the proofs presume of the constants and the tables: targets of 32 and *)
(* 64 bits, a table of assemblies that have names, and slots that hold the   *)
(* functions they are fetched for.                                           *)
HostHypotheses ==
  /\ PointerSizes \subseteq {4, 8}
  /\ StoreEntries \in Seq([name : STRING \ {End}, offset : Nat, size : Nat]) /\ End \notin Requests
  /\ \A name \in DOMAIN JniSlot : Function(name) = name
  /\ \A name \in DOMAIN Get_JniFunctionTable : PeerFunction(name) = name

-----------------------------------------------------------------------------
(* Properties.                                                               *)

\* Whatever fails on the way, a callback that returns to Android has posted
\* every canvas it locked, and leaves no local reference, no exception and no
\* memory of the registration behind (docs/android-facade.md 48, 50).  onCreate
\* leaves the VM at most two typefaces to free, whatever call of the session
\* failed.  With the hardware surface, no call is made that the VM would abort
\* on, but for those of the session, which does not look at what it keeps.
CallbacksLeaveNothing ==
  /\ java.locked \in 0..1 /\ (hardware /\ at \notin Opening => java.state = Running)
  /\ at \in {"opened", "looper"} /\ java.state = Running =>
       /\ java.locked = 0 /\ java.pending = NoException /\ memory = {} /\ frame = NoFrame
       /\ java.locals \subseteq (IF at = "opened" THEN {Monospace, SetTypeface} ELSE {})

\* A frame is drawn on the window that is there, and the module holds no
\* surface but that window's, not even after its activity is gone
\* (docs/android-facade.md 49): through lost frames, timers and a window that
\* takes the place of another.
WindowGoesClean ==
  /\ frame.window \in {0, window}
  /\ at = "looper" => java.globals \subseteq {<<"surface", window>>} /\ canvas.window \in {0, window}

\* PowerShell runs at most once in a process, however many activities Android
\* makes of it: after Admit, with the environment and the object of the activity
\* being created.  CoreCLR got the application's directory and the probe in the
\* places the headers give; and an activity that got no further has an error in
\* the log (priority 6).
RunsOnce ==
  /\ ran # <<>> => Len(ran) = 1 /\ ran[1][1] = "env" /\ ran[1][2] = "clazz" /\ delegates = {"Admit", "RunPowerShell"}
  /\ runtime.up => runtime.directory = "internalDataPath" /\ runtime.probe = <<"pwsh_assembly_probe", 0>>
  /\ at = "looper" /\ activity # 0 /\ (ran = <<>> \/ ran[1][3] # activity) => log[1] = 6

\* The probe gives a stored assembly's own bytes, all 64 bits of its size
\* written, and touches nothing for a name that is not in the store.
ProbeAnswers ==
  answer # <<>> =>
    LET stored == {i \in 1..Len(StoreEntries) : StoreEntries[i].name = answer[1]}
        entry == StoreEntries[CHOOSE i \in stored : \A j \in stored : i <= j]
    IN  answer[2] = IF stored = {} THEN [found |-> FALSE, start |-> Garbage, size |-> <<Garbage, Garbage>>]
                    ELSE [found |-> TRUE, start |-> entry.offset, size |-> <<entry.size, 0>>]

HostHandsOver == RunsOnce /\ ProbeAnswers
=============================================================================
