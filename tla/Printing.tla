------------------------------ MODULE Printing ------------------------------
(***************************************************************************)
(* How the wrappers of opencl.c print enumerated arguments and error codes: *)
(* an array of names is indexed by the value, with no check.  A program    *)
(* calls the functions of the OpenCL headers with values that the headers  *)
(* define, for this or another type, or that nobody defines; the library   *)
(* returns codes of the core, of an extension or of its own.  The calls    *)
(* go to a wrapper if the tracer has one (module Wrappers).                *)
(*                                                                         *)
(* A table is the set of its indices that hold a name.  That the name is   *)
(* the one cl.h gives the value, and that each argument is printed by the  *)
(* printer of its declared type, was compared entry by entry.              *)
(***************************************************************************)
EXTENDS Integers, Sequences, FiniteSets, Wrappers, OpenCLHeaders, OpenCLExtensions

CONSTANTS
  Foreign,             \* some values that no header defines
  NoFunction, NoCode

ASSUME ForeignAssumption ==
  Foreign \subseteq Int
    /\ Foreign \intersect (ErrorCode \union ExtensionCode \union ExtensionEnum) = {}

ASSUME NoCodeAssumption == NoCode \notin Int

-----------------------------------------------------------------------------
(* The tables                                                              *)

ErrorCodes == (0..19) \union (30..70)

Bools == 0..1

\* Seeded fault: the line of CL_DEVICE_PREFERRED_VECTOR_WIDTH_HALF is missing.
PlatformStrings_Short ==
  (\h900..\h904) \union (\h1000..\h1032) \union (\h1035..\h105A)
  \union (\h1080..\h1088) \union (\h1090..\h1094)

\* Seeded fault: an entry at the index cl.h reserves.
PlatformStrings_Reserved ==
  (\h900..\h904) \union (\h1000..\h105A) \union (\h1080..\h1088) \union (\h1090..\h1094)

\* common_string: platform, device, context and queue
PlatformStrings ==
  (\h900..\h904) \union (\h1000..\h1032) \union (\h1034..\h105A)
  \union (\h1080..\h1088) \union (\h1090..\h1094)

\* common_string: images and memory
MemStrings ==
  (\h10B0..\h10C3) \union (\h10D0..\h10DF) \union (\h10F0..\h10F7)
  \union (\h1100..\h1109) \union (\h1110..\h111A) \union (\h1120..\h1121)
  \union (\h1130..\h1134) \union (\h1140..\h1141) \union (\h1150..\h1157)

\* common_string: programs, kernels, events
KernelStrings ==
  (\h1160..\h1168) \union (\h1181..\h1185) \union (\h1190..\h119E)
  \union (\h11A0..\h11A3) \union (\h11B0..\h11B7) \union (\h11D0..\h11D4)
  \union (\h11F0..\h120D) \union {\h1220} \union (\h1280..\h1284)

CommonString == PlatformStrings \union MemStrings \union KernelStrings

\* memory_flags, bit 6 as "reserved"
MemoryFlags == 0..12

\* the types whose printer is emit_cl_int or emit_cl_int_ptr
Codes == {"code", "binary_status", "execution_status"}

\* which table the printer of a type indexes, and with what
Table(type) ==
  IF type \in Codes THEN ErrorCodes ELSE IF type = "bool" THEN Bools ELSE CommonString

Index(type, x) == IF type \in Codes THEN -x ELSE x

\* the tables end with the last name
LastIndex(type) == IF type \in Codes THEN 70 ELSE IF type = "bool" THEN 1 ELSE \h1284

\* What printing x puts out: its name, nothing for a flag the loop does not
\* reach, a null pointer from a hole of the table, or whatever lies outside it.
Look(type, x) ==
  IF type = "mem_flags" THEN IF x \in MemoryFlags THEN "name" ELSE "dropped"
  ELSE IF Index(type, x) \in Table(type) THEN "name"
  ELSE IF Index(type, x) \in 0..LastIndex(type) THEN "null" ELSE "wild"

\* fputs of a null pointer ends the process, fputs of a wild one may
MayDie(shown)  == shown \in {"null", "wild"}
MayLive(shown) == shown # "null"

-----------------------------------------------------------------------------
(* The types through which the wrappers call the library                   *)

\* the typedefs up to cl_get_event_profiling_info that return no cl_int
EarlyObjects ==
  {"clCreateContext", "clCreateContextFromType", "clCreateCommandQueueWithProperties",
   "clCreateBuffer", "clCreateSubBuffer", "clCreateImage", "clCreatePipe",
   "clCreateSamplerWithProperties", "clCreateProgramWithSource",
   "clCreateProgramWithBinary", "clCreateProgramWithBuiltInKernels",
   "clLinkProgram", "clCreateKernel", "clCreateUserEvent"}
EarlyOthers == [clSVMAlloc |-> "address", clSVMFree |-> "nothing"]

\* and from cl_flush on
LateObjects ==
  {"clEnqueueMapBuffer", "clEnqueueMapImage", "clCreateImage2D", "clCreateImage3D",
   "clCreateCommandQueue", "clCreateSampler"}
LateOthers ==
  All("address", {"clGetExtensionFunctionAddressForPlatform",
      "clGetExtensionFunctionAddress"})

Objects == EarlyObjects \union LateObjects
Others  == Merge({EarlyOthers, LateOthers})

\* the typedef of every function the tracer wraps
Typedef ==
  Merge({Others, All("object", Objects),
         All("code", FuncNames \ (Objects \union DOMAIN Others))})

-----------------------------------------------------------------------------
VARIABLES
  fn,      \* the function called last, or NoFunction
  left,    \* the types of its arguments still to be printed from a table
  seen,    \* history: the last value looked up, its type, and what came out
  gave,    \* history: the error code the caller received, or NoCode
  phase    \* where the call is

vars == <<fn, left, seen, gave, phase>>

CoreFunction == DOMAIN Api
Outputs == {"name", "dropped", "null", "wild", "nothing"}
NoLook == [type |-> "none", value |-> 0, shown |-> "nothing"]

\* Values a program may pass for a type: any bit of a cl_mem_flags; for the
\* others any enumerated value or code of any header, or a foreign one.
CoreEnum == UNION {Core[type] : type \in DOMAIN Core \ {"mem_flags"}}
Value(type) ==
  IF type = "mem_flags" THEN 0..63
  ELSE CoreEnum \union ExtensionEnum \union ErrorCode \union ExtensionCode \union Foreign

TypeOK ==
  /\ fn \in CoreFunction \union ExtensionFunction \union {NoFunction}
  /\ left \in Seq(DOMAIN Core \union Codes)
  /\ seen.type \in DOMAIN Core \union Codes \union {"none"}
  /\ seen.value \in Int /\ seen.shown \in Outputs
  /\ gave \in Int \union {NoCode}
  /\ phase \in {"idle", "arguments", "returned", "dead"}
  /\ phase # "arguments" /\ phase # "dead" => left = <<>>

Init ==
  /\ fn = NoFunction /\ left = <<>> /\ seen = NoLook /\ gave = NoCode
  /\ phase = "idle"

\* The program calls a function.  Those without a wrapper are the library's own.
Call(f) ==
  /\ phase = "idle"
  /\ fn' = f
  /\ left' = IF f \in FuncNames THEN Api[f].takes ELSE <<>>
  /\ phase' = "arguments"
  /\ UNCHANGED <<seen, gave>>

\* The program goes on; nothing of the call is left.
Resume ==
  /\ phase = "returned"
  /\ fn' = NoFunction /\ seen' = NoLook /\ gave' = NoCode /\ phase' = "idle"
  /\ UNCHANGED left

\* fputs(table[x], fout): x is printed, and the process may die of it.
Puts(type, x, next) ==
  /\ seen' = [type |-> type, value |-> x, shown |-> Look(type, x)]
  /\ \/ MayLive(Look(type, x)) /\ phase' = next
     \/ MayDie(Look(type, x)) /\ phase' = "dead"

\* The wrapper prints the next argument that has a table.
PrintArgument ==
  /\ phase = "arguments" /\ left # <<>>
  /\ \E x \in Value(Head(left)) : Puts(Head(left), x, "arguments")
  /\ left' = Tail(left)
  /\ UNCHANGED <<fn, gave>>

\* emit_cl_int_ptr of clCreateProgramWithBinary's binary_status, when it is NULL
SkipStatus ==
  /\ phase = "arguments" /\ left # <<>> /\ Head(left) = "binary_status"
  /\ left' = Tail(left)
  /\ seen' = NoLook
  /\ UNCHANGED <<fn, gave, phase>>

\* How the wrapper of f learns the error code, going by its operations and by
\* the type it casts the library's function to.
Learns(f, way) ==
  /\ f \in FuncNames
  /\ Typedef[f] = way
  /\ \E i \in DOMAIN Script[f] :
       Script[f][i] = CASE way = "code" -> "result" [] way = "object" -> "resultptr"

\* Seeded fault: the call begins before the arguments have been printed.
ReturnCode_Early == \E x \in ErrorCode \union ExtensionCode \union Foreign :
  /\ phase = "arguments"
  /\ fn \in CoreFunction /\ Api[fn].gives \in {"code", "object"}
  /\ gave' = x
  /\ IF Learns(fn, Api[fn].gives) THEN Puts("code", x, "returned")
     ELSE seen' = NoLook /\ phase' = "returned"
  /\ UNCHANGED <<fn, left>>

\* The library's function returns with a code, which the wrapper prints.
ReturnCode == \E x \in ErrorCode \union ExtensionCode \union Foreign :
  /\ phase = "arguments" /\ left = <<>>
  /\ fn \in CoreFunction /\ Api[fn].gives \in {"code", "object"}
  /\ gave' = x
  /\ IF Learns(fn, Api[fn].gives) THEN Puts("code", x, "returned")
     ELSE seen' = NoLook /\ phase' = "returned"
  /\ UNCHANGED <<fn, left>>

\* It returns, and there is no code: none is declared, the caller passed no
\* pointer for it, or the function is not traced.
ReturnOther ==
  /\ phase = "arguments" /\ left = <<>>
  /\ fn \in CoreFunction => Api[fn].gives # "code"
  /\ seen' = NoLook
  /\ phase' = "returned"
  /\ UNCHANGED <<fn, left, gave>>

\* The process is gone.
Finished == phase = "dead" /\ UNCHANGED vars

Next ==
  \/ \E f \in CoreFunction \union ExtensionFunction : Call(f)
  \/ PrintArgument \/ SkipStatus \/ ReturnCode \/ ReturnOther
  \/ Resume \/ Finished

Spec == Init /\ [][Next]_vars

-----------------------------------------------------------------------------
(* Properties                                                              *)

\* the values that mean something for a type, by cl.h
Meaning(type) == IF type \in {"code", "binary_status"} THEN ErrorCode ELSE Core[type]

Misprinted == seen.shown \in {"dropped", "null", "wild"}

\* Tracing ends the program, or prints something that is no name, only on a
\* value that cl.h does not define for that type (opencl.c:473-739): an
\* extension's, a vendor's, another type's, uninitialised memory.  The
\* exception is the execution status of an event, whose values above 0 are
\* taken for error codes.
MisprintNeedsForeign == Misprinted =>
  \/ seen.value \notin Meaning(seen.type)
  \/ seen.type = "execution_status" /\ seen.value > 0

\* A name is printed only for a value of cl.h, be it of another type: the tables
\* (opencl.c:60-413) name nothing the header does not define, but for the bit
\* of cl_mem_flags it reserves (cl.h:388).
NamesAreCore == seen.shown = "name" =>
  seen.value \in CASE seen.type = "mem_flags" -> Core["mem_flags"] \union {6}
                   [] seen.type \in Codes      -> ErrorCode
                   [] OTHER                    -> CoreEnum

\* Whenever a function of cl.h has given the program an error code, that code is
\* what the wrapper looked up last in error_codes (opencl.c:573, 582): the
\* header's declaration, the typedef the wrapper casts to (opencl.h:132-373) and
\* what the wrapper prints agree for all 101 functions.  The trace then shows the
\* name of the code if cl.h defines it; of a code of an extension, or of the
\* library's own, it shows no name but what happens to be at the index.  Only
\* calls of extension functions go unseen.
CodeIsShown == phase = "returned" =>
  IF gave = NoCode THEN seen = NoLook
  ELSE /\ seen.type = "code" /\ seen.value = gave
       /\ seen.shown = "name" <=> gave \in ErrorCode

\* A "call tracer -- like strace" (ocltrace.c:69) lets the program run: a call
\* that passes a value cl.h:620-624 defines does not end in the tracer.
CoreCallsSurvive == phase = "dead" => seen.value \notin Meaning(seen.type)
=============================================================================
