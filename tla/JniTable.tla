------------------------------ MODULE JniTable ------------------------------
(***************************************************************************)
(* The JNI function table: the members of struct JNINativeInterface in the *)
(* order lib/jni.h declares them, as the VM lays them out, the slots       *)
(* setup.ps1 derives from the header, and the slot numbers written out in  *)
(* AndroidCanvas.psm1.  Every member is one pointer, so a member's place   *)
(* is its number.                                                          *)
(***************************************************************************)
EXTENDS Integers, Sequences

\* Types of Java, each with its own call and field functions; a primitive
\* type also has arrays of its own.
JavaTypes == <<"Object", "Boolean", "Byte", "Char", "Short", "Int", "Long", "Float", "Double">>
Primitives == Tail(JavaTypes)

\* A function per type, and a call per type (and void) and way to pass arguments.
PerType(before, types, after) == [i \in 1..Len(types) |-> before \o types[i] \o after]
CallsOf(before) ==
  LET types == Append(JavaTypes, "Void")
      ways == <<"", "V", "A">>
  IN  [i \in 1..(3 * Len(types)) |-> before \o types[((i - 1) \div 3) + 1] \o "Method" \o ways[((i - 1) % 3) + 1]]

ClassFunctions ==
  <<"reserved0", "reserved1", "reserved2", "reserved3", "GetVersion", "DefineClass", "FindClass",
    "FromReflectedMethod", "FromReflectedField", "ToReflectedMethod", "GetSuperclass", "IsAssignableFrom",
    "ToReflectedField", "Throw", "ThrowNew", "ExceptionOccurred", "ExceptionDescribe", "ExceptionClear",
    "FatalError", "PushLocalFrame", "PopLocalFrame", "NewGlobalRef", "DeleteGlobalRef", "DeleteLocalRef",
    "IsSameObject", "NewLocalRef", "EnsureLocalCapacity", "AllocObject", "NewObject", "NewObjectV", "NewObjectA",
    "GetObjectClass", "IsInstanceOf", "GetMethodID">>
MethodFunctions == CallsOf("Call") \o CallsOf("CallNonvirtual")
FieldFunctions ==
  <<"GetFieldID">> \o PerType("Get", JavaTypes, "Field") \o PerType("Set", JavaTypes, "Field")
StaticFunctions ==
  <<"GetStaticMethodID">> \o CallsOf("CallStatic") \o <<"GetStaticFieldID">>
    \o PerType("GetStatic", JavaTypes, "Field") \o PerType("SetStatic", JavaTypes, "Field")
StringFunctions ==
  <<"NewString", "GetStringLength", "GetStringChars", "ReleaseStringChars", "NewStringUTF", "GetStringUTFLength",
    "GetStringUTFChars", "ReleaseStringUTFChars", "GetArrayLength", "NewObjectArray", "GetObjectArrayElement",
    "SetObjectArrayElement">>
ArrayFunctions ==
  PerType("New", Primitives, "Array") \o PerType("Get", Primitives, "ArrayElements")
    \o PerType("Release", Primitives, "ArrayElements") \o PerType("Get", Primitives, "ArrayRegion")
    \o PerType("Set", Primitives, "ArrayRegion")
OtherFunctions ==
  <<"RegisterNatives", "UnregisterNatives", "MonitorEnter", "MonitorExit", "GetJavaVM", "GetStringRegion",
    "GetStringUTFRegion", "GetPrimitiveArrayCritical", "ReleasePrimitiveArrayCritical", "GetStringCritical",
    "ReleaseStringCritical", "NewWeakGlobalRef", "DeleteWeakGlobalRef", "ExceptionCheck", "NewDirectByteBuffer",
    "GetDirectBufferAddress", "GetDirectBufferCapacity", "GetObjectRefType">>

JNINativeInterface ==
  ClassFunctions \o MethodFunctions \o FieldFunctions \o StaticFunctions \o StringFunctions \o ArrayFunctions
    \o OtherFunctions

\* setup.ps1: the slots of the functions the emitted peers call.
Get_JniFunctionTable ==
  [name \in {"GetObjectClass", "RegisterNatives", "DeleteLocalRef", "ExceptionCheck", "ExceptionClear"} |->
     CHOOSE slot \in 0..(Len(JNINativeInterface) - 1) : JNINativeInterface[slot + 1] = name]

\* AndroidCanvas.psm1: $JniSlot, for the functions its start and its frames call.
JniSlot ==
  [FindClass |-> 6, ExceptionDescribe |-> 16, ExceptionClear |-> 17, NewGlobalRef |-> 21, DeleteGlobalRef |-> 22,
   DeleteLocalRef |-> 23, NewObjectA |-> 30, GetMethodID |-> 33, CallObjectMethodA |-> 36, CallBooleanMethodA |-> 39,
   CallVoidMethodA |-> 63, GetStaticMethodID |-> 113, GetStaticFieldID |-> 144, GetStaticObjectField |-> 145,
   ExceptionCheck |-> 228]
=============================================================================
