--------------------------- MODULE PrintingProofs ---------------------------
(***************************************************************************)
(* Proofs about Printing: for any values that no header defines, and for   *)
(* every function, its tables name what cl.h defines and no more, and the  *)
(* code a caller receives is the code the trace shows.                     *)
(*                                                                         *)
(* The tables come in pieces that Merge puts together.  A property that    *)
(* every entry of every piece has, every entry of the whole has; so each   *)
(* fact about a table is proved of its pieces.                             *)
(***************************************************************************)
EXTENDS Printing, SequenceTheorems, TLAPS

-----------------------------------------------------------------------------
(* Merged tables                                                           *)

LEMMA MergeNames ==
  ASSUME NEW T, NEW n
  PROVE  n \in DOMAIN Merge(T) <=> \E t \in T : n \in DOMAIN t
BY DEF Merge

\* An entry of the whole is the entry of a piece.
LEMMA MergeEntry ==
  ASSUME NEW T, NEW n \in DOMAIN Merge(T)
  PROVE  \E t \in T : n \in DOMAIN t /\ Merge(T)[n] = t[n]
<1>1. \E t \in T : n \in DOMAIN t
  BY DEF Merge
<1> DEFINE t == CHOOSE u \in T : n \in DOMAIN u
<1>2. t \in T /\ n \in DOMAIN t
  BY <1>1
<1>3. Merge(T)[n] = t[n]
  BY DEF Merge
<1> QED BY <1>2, <1>3

LEMMA AllNames ==
  ASSUME NEW x, NEW names
  PROVE  DOMAIN All(x, names) = names
BY DEF All

-----------------------------------------------------------------------------
(* Enumerated types                                                        *)

\* The types of the arguments that the wrappers print from a table, and the
\* table of names for those of them that have values of their own.
Named == {"platform_info", "device_info", "context_info", "command_queue_info",
          "buffer_create_type", "mem_object_type", "mem_info", "image_info",
          "pipe_info", "sampler_info", "program_info", "program_build_info",
          "kernel_exec_info", "kernel_info", "kernel_arg_info",
          "kernel_work_group_info", "event_info", "profiling_info",
          "addressing_mode", "filter_mode"}
Printed == Named \union {"bool", "mem_flags", "binary_status", "execution_status"}

LEMMA BitsAreIntegers == ASSUME NEW n \in Nat PROVE Bits(n) \subseteq Int
BY DEF Bits

LEMMA CodesAreIntegers ==
  ErrorCode \subseteq Int /\ ExtensionCode \subseteq Int /\ ExtensionEnum \subseteq Int
<1>1. ErrorCode \subseteq Int
  BY DEF ErrorCode
<1>2. ExtensionCode \subseteq Int
  BY DEF ExtensionCode, IcdCodes, FissionCodes, GLCodes, EGLCodes, D3D10Codes,
         D3D11Codes, DX9Codes
<1>3. ExtensionEnum \subseteq Int
  BY DEF ExtensionEnum, KhrEnums, FissionEnums, HostPtrEnums, GLEnums, EGLEnums,
         D3D10Enums, D3D11Enums, DX9Enums
<1> QED BY <1>1, <1>2, <1>3

\* What the table of a type has to do with the values cl.h gives the type.
Covers(enums) == \A type \in DOMAIN enums :
  /\ enums[type] \subseteq Int
  /\ type \in Named => enums[type] \subseteq CommonString
  /\ type = "bool" => enums[type] = Bools
  /\ type = "mem_flags" => enums[type] = MemoryFlags \ {6}
  /\ type = "execution_status" => enums[type] = (0..3) \union ErrorCode
  /\ type \notin Codes \ {"execution_status"}

LEMMA PiecesCover ==
  /\ Covers(PlatformEnums) /\ Covers(DeviceEnums) /\ Covers(ContextEnums)
  /\ Covers(MemEnums) /\ Covers(ImageEnums) /\ Covers(ProgramEnums)
  /\ Covers(KernelEnums) /\ Covers(EventEnums)
<1> USE DEF Covers, Named, CommonString, PlatformStrings, MemStrings, KernelStrings,
            Codes
<1>1. Covers(PlatformEnums) /\ Covers(DeviceEnums)
  BY BitsAreIntegers DEF PlatformEnums, DeviceEnums, Bools
<1>2. Covers(ContextEnums)
  BY BitsAreIntegers DEF ContextEnums
<1>3. Covers(MemEnums)
  BY BitsAreIntegers DEF MemEnums, MemoryFlags
<1>4. Covers(ImageEnums) /\ Covers(ProgramEnums)
  BY BitsAreIntegers DEF ImageEnums, ProgramEnums
<1>5. Covers(KernelEnums)
  BY BitsAreIntegers DEF KernelEnums
<1>6. Covers(EventEnums)
  <2>1. DOMAIN EventEnums = {"event_info", "command_type", "execution_status",
                             "buffer_create_type", "profiling_info"}
    BY DEF EventEnums
  <2>2. /\ EventEnums["event_info"] = \h11D0..\h11D4
        /\ EventEnums["command_type"] = \h11F0..\h120D
        /\ EventEnums["execution_status"] = (0..3) \union ErrorCode
        /\ EventEnums["buffer_create_type"] = {\h1220}
        /\ EventEnums["profiling_info"] = \h1280..\h1284
    BY DEF EventEnums
  <2>3. /\ EventEnums["event_info"] \subseteq CommonString
        /\ EventEnums["buffer_create_type"] \subseteq CommonString
        /\ EventEnums["profiling_info"] \subseteq CommonString
    BY <2>2
  <2>4. \A type \in DOMAIN EventEnums : EventEnums[type] \subseteq Int
    <3>1. (0..3) \union ErrorCode \subseteq Int
      BY CodesAreIntegers
    <3>2. /\ \h11D0..\h11D4 \subseteq Int /\ \h11F0..\h120D \subseteq Int
          /\ {\h1220} \subseteq Int /\ \h1280..\h1284 \subseteq Int
      OBVIOUS
    <3> QED BY <2>1, <2>2, <3>1, <3>2
  <2> QED BY <2>1, <2>2, <2>3, <2>4
<1> QED BY <1>1, <1>2, <1>3, <1>4, <1>5, <1>6

LEMMA CoreCovers == Covers(Core)
<1> DEFINE T == {PlatformEnums, DeviceEnums, ContextEnums, MemEnums, ImageEnums,
                 ProgramEnums, KernelEnums, EventEnums}
<1>1. \A t \in T : Covers(t)
  BY PiecesCover
<1>2. ASSUME NEW n \in DOMAIN Merge(T)
      PROVE  \E t \in T : n \in DOMAIN t /\ Merge(T)[n] = t[n]
  BY MergeEntry
<1>3. Core = Merge(T)
  BY DEF Core
<1> HIDE DEF T
<1> QED BY <1>1, <1>2, <1>3 DEF Covers

\* the types cl.h defines
LEMMA CoreTypes ==
  DOMAIN Core = DOMAIN PlatformEnums \union DOMAIN DeviceEnums
    \union DOMAIN ContextEnums \union DOMAIN MemEnums \union DOMAIN ImageEnums
    \union DOMAIN ProgramEnums \union DOMAIN KernelEnums \union DOMAIN EventEnums
<1> DEFINE T == {PlatformEnums, DeviceEnums, ContextEnums, MemEnums, ImageEnums,
                 ProgramEnums, KernelEnums, EventEnums}
<1>1. DOMAIN Merge(T) = UNION {DOMAIN t : t \in T}
  BY DEF Merge
<1> QED BY <1>1 DEF Core

LEMMA PrintedTypes == Printed \subseteq DOMAIN Core \union Codes
<1>1. {"bool", "platform_info"} \subseteq DOMAIN PlatformEnums
      /\ "device_info" \in DOMAIN DeviceEnums
  BY DEF PlatformEnums, DeviceEnums
<1>2. {"context_info", "command_queue_info"} \subseteq DOMAIN ContextEnums
      /\ {"mem_flags", "mem_object_type"} \subseteq DOMAIN MemEnums
  BY DEF ContextEnums, MemEnums
<1>3. {"mem_info", "image_info", "pipe_info", "sampler_info", "addressing_mode",
       "filter_mode"} \subseteq DOMAIN ImageEnums
  BY DEF ImageEnums
<1>4. {"program_info", "program_build_info"} \subseteq DOMAIN ProgramEnums
      /\ {"kernel_info", "kernel_arg_info", "kernel_work_group_info",
          "kernel_exec_info"} \subseteq DOMAIN KernelEnums
  BY DEF ProgramEnums, KernelEnums
<1>5. {"event_info", "execution_status", "buffer_create_type",
       "profiling_info"} \subseteq DOMAIN EventEnums
  BY DEF EventEnums
<1> QED BY <1>1, <1>2, <1>3, <1>4, <1>5, CoreTypes DEF Printed, Named, Codes

LEMMA ValuesAreIntegers == ASSUME NEW type PROVE Value(type) \subseteq Int
<1>1. CoreEnum \subseteq Int
  BY CoreCovers DEF CoreEnum, Covers
<1> QED BY <1>1, CodesAreIntegers, ForeignAssumption DEF Value

-----------------------------------------------------------------------------
(* What a lookup shows                                                     *)

LEMMA LookOutputs ==
  ASSUME NEW type, NEW x
  PROVE  Look(type, x) \in {"name", "dropped", "null", "wild"}
BY DEF Look

\* A code has a name in the table if cl.h defines it, and only then.
LEMMA CodesNamed ==
  ASSUME NEW x \in Int
  PROVE  Look("code", x) = "name" <=> x \in ErrorCode
BY DEF Look, Table, Index, Codes, ErrorCodes, ErrorCode

\* No name and no flag comes out: the value is not one that cl.h gives the type.
LEMMA LookMisprints ==
  ASSUME NEW type \in Printed \union {"code"}, NEW x \in Int, Look(type, x) # "name"
  PROVE  x \notin Meaning(type) \/ (type = "execution_status" /\ x > 0)
<1>1. CASE type \in {"code", "binary_status"}
  BY <1>1 DEF Look, Table, Index, Codes, Meaning, ErrorCodes, ErrorCode
<1>2. CASE type = "execution_status"
  <2>1. Core[type] = (0..3) \union ErrorCode
    BY <1>2, CoreCovers, PrintedTypes, CoreTypes DEF Covers, EventEnums
  <2>2. -x \notin ErrorCodes
    BY <1>2 DEF Look, Table, Index, Codes
  <2> QED BY <1>2, <2>1, <2>2 DEF Meaning, ErrorCodes, ErrorCode
<1>3. CASE type = "mem_flags"
  <2>1. Core[type] = MemoryFlags \ {6}
    BY <1>3, CoreCovers, CoreTypes DEF Covers, MemEnums
  <2> QED BY <1>3, <2>1 DEF Look, Meaning
<1>4. CASE type = "bool"
  <2>1. Core[type] = Bools
    BY <1>4, CoreCovers, CoreTypes DEF Covers, PlatformEnums
  <2> QED BY <1>4, <2>1 DEF Look, Table, Index, Codes, Meaning
<1>5. CASE type \in Named
  <2>1. type \in DOMAIN Core /\ type \notin Codes \union {"bool", "mem_flags", "code"}
    BY <1>5, PrintedTypes DEF Printed, Named, Codes
  <2>2. Core[type] \subseteq CommonString
    BY <1>5, <2>1, CoreCovers DEF Covers
  <2>3. x \notin CommonString
    BY <2>1 DEF Look, Table, Index
  <2>4. type \notin {"code", "binary_status"}
    BY <2>1 DEF Codes
  <2> QED BY <2>2, <2>3, <2>4 DEF Meaning
<1> QED BY <1>1, <1>2, <1>3, <1>4, <1>5 DEF Printed

\* The pieces of Core have no type in common.
LEMMA CorePieces ==
  ASSUME NEW enums \in {PlatformEnums, DeviceEnums, ContextEnums, MemEnums,
                        ImageEnums, ProgramEnums, KernelEnums, EventEnums},
         NEW type \in DOMAIN enums
  PROVE  type \in DOMAIN Core /\ Core[type] = enums[type]
<1> DEFINE T == {PlatformEnums, DeviceEnums, ContextEnums, MemEnums, ImageEnums,
                 ProgramEnums, KernelEnums, EventEnums}
<1>1. DOMAIN PlatformEnums = {"bool", "platform_info"}
  BY DEF PlatformEnums
<1>2. DOMAIN DeviceEnums = {"device_type", "device_info", "fp_config",
        "mem_cache_type", "local_mem_type", "exec_capabilities"}
  BY DEF DeviceEnums
<1>3. DOMAIN ContextEnums = {"queue_properties", "context_info",
        "context_properties", "partition_property", "affinity_domain",
        "svm_capabilities", "command_queue_info"}
  BY DEF ContextEnums
<1>4. DOMAIN MemEnums = {"mem_flags", "migration_flags", "channel_order",
        "channel_type", "mem_object_type"}
  BY DEF MemEnums
<1>5. DOMAIN ImageEnums = {"mem_info", "image_info", "pipe_info",
        "addressing_mode", "filter_mode", "sampler_info", "map_flags"}
  BY DEF ImageEnums
<1>6. DOMAIN ProgramEnums = {"program_info", "program_build_info",
        "program_binary_type", "build_status"}
  BY DEF ProgramEnums
<1>7. DOMAIN KernelEnums = {"kernel_info", "kernel_arg_info", "address_qualifier",
        "access_qualifier", "type_qualifier", "kernel_work_group_info",
        "kernel_exec_info"}
  BY DEF KernelEnums
<1>8. DOMAIN EventEnums = {"event_info", "command_type", "execution_status",
        "buffer_create_type", "profiling_info"}
  BY DEF EventEnums
<1>9. \A u \in T : type \in DOMAIN u => u = enums
  BY <1>1, <1>2, <1>3, <1>4, <1>5, <1>6, <1>7, <1>8
<1>10. type \in DOMAIN Merge(T)
  BY CoreTypes DEF Core
<1>11. PICK t \in T : type \in DOMAIN t /\ Merge(T)[type] = t[type]
  BY <1>10, MergeEntry
<1> QED BY <1>9, <1>10, <1>11 DEF Core

\* Every value that has a name in common_string is a value of cl.h.
LEMMA CommonIsCore == CommonString \subseteq CoreEnum
<1> DEFINE T == {PlatformEnums, DeviceEnums, ContextEnums, MemEnums, ImageEnums,
                 ProgramEnums, KernelEnums, EventEnums}
<1>1. ASSUME NEW x, NEW t \in T, NEW type \in DOMAIN t, x \in t[type], type # "mem_flags"
      PROVE  x \in CoreEnum
  BY <1>1, CorePieces DEF CoreEnum
<1> HIDE DEF T
<1> DEFINE In(x, t) == \E type \in DOMAIN t \ {"mem_flags"} : x \in t[type]
<1>2. ASSUME NEW x, NEW t \in T, In(x, t)
      PROVE  x \in CoreEnum
  BY <1>1, <1>2
<1>3. \A x \in PlatformStrings :
        In(x, PlatformEnums) \/ In(x, DeviceEnums) \/ In(x, ContextEnums)
  <2>1. \A x \in \h900..\h904 : In(x, PlatformEnums)
    BY DEF PlatformEnums
  <2>2. \A x \in (\h1000..\h1032) \union (\h1034..\h105A) : In(x, DeviceEnums)
    BY DEF DeviceEnums
  <2>3. \A x \in (\h1080..\h1088) \union (\h1090..\h1094) : In(x, ContextEnums)
    BY DEF ContextEnums
  <2> HIDE DEF In
  <2> QED BY <2>1, <2>2, <2>3 DEF PlatformStrings
<1>4. \A x \in MemStrings : In(x, MemEnums) \/ In(x, ImageEnums)
  <2>1. \A x \in (\h10B0..\h10C3) \union (\h10D0..\h10DF) \union (\h10F0..\h10F7) :
          In(x, MemEnums)
    BY DEF MemEnums
  <2>2. \A x \in (\h1100..\h1109) \union (\h1110..\h111A) \union (\h1120..\h1121) :
          In(x, ImageEnums)
    BY DEF ImageEnums
  <2>3. \A x \in (\h1130..\h1134) \union (\h1140..\h1141) \union (\h1150..\h1157) :
          In(x, ImageEnums)
    BY DEF ImageEnums
  <2> HIDE DEF In
  <2> QED BY <2>1, <2>2, <2>3 DEF MemStrings
<1>5. \A x \in KernelStrings :
        In(x, ProgramEnums) \/ In(x, KernelEnums) \/ In(x, EventEnums)
  <2>1. \A x \in (\h1160..\h1168) \union (\h1181..\h1185) : In(x, ProgramEnums)
    BY DEF ProgramEnums
  <2>2. \A x \in (\h1190..\h119E) \union (\h11A0..\h11A3) : In(x, KernelEnums)
    BY DEF KernelEnums
  <2>3. \A x \in \h11B0..\h11B7 : In(x, KernelEnums)
    BY DEF KernelEnums
  <2>4. \A x \in (\h11D0..\h11D4) \union (\h11F0..\h120D) : In(x, EventEnums)
    BY DEF EventEnums
  <2>5. \A x \in {\h1220} \union (\h1280..\h1284) : In(x, EventEnums)
    BY DEF EventEnums
  <2> HIDE DEF In
  <2> QED BY <2>1, <2>2, <2>3, <2>4, <2>5 DEF KernelStrings
<1>6. {PlatformEnums, DeviceEnums, ContextEnums, MemEnums, ImageEnums,
       ProgramEnums, KernelEnums, EventEnums} \subseteq T
  BY DEF T
<1> HIDE DEF In
<1> QED BY <1>2, <1>3, <1>4, <1>5, <1>6 DEF CommonString

\* A name comes out: the value is one of cl.h, or the flag it reserves.
LEMMA LookNames ==
  ASSUME NEW type \in Printed \union {"code"}, NEW x \in Int, Look(type, x) = "name"
  PROVE  x \in CASE type = "mem_flags" -> Core["mem_flags"] \union {6}
                 [] type \in Codes      -> ErrorCode
                 [] OTHER               -> CoreEnum
<1>1. CASE type = "mem_flags"
  <2>1. "mem_flags" \in DOMAIN MemEnums
    BY DEF MemEnums
  <2>2. Core["mem_flags"] = MemEnums["mem_flags"]
    BY <2>1, CorePieces
  <2>3. x \in Core["mem_flags"] \union {6}
    BY <1>1, <2>2 DEF Look, MemoryFlags, MemEnums
  <2> QED BY <1>1, <2>3 DEF Codes
<1>2. CASE type \in Codes
  <2>1. type # "mem_flags"
    BY <1>2 DEF Codes
  <2>2. x \in ErrorCode
    BY <1>2, <2>1 DEF Look, Index, Table, ErrorCodes, ErrorCode
  <2> QED BY <1>2, <2>1, <2>2
<1>3. CASE type \notin Codes \union {"mem_flags"}
  <2>1. CASE type = "bool"
    <3>1. "bool" \in DOMAIN PlatformEnums /\ PlatformEnums["bool"] = {0, 1}
      BY DEF PlatformEnums
    <3>2. "bool" \in DOMAIN Core /\ Core["bool"] = {0, 1}
      BY <3>1, CorePieces
    <3>3. x \in {0, 1}
      BY <1>3, <2>1 DEF Look, Index, Table, Bools
    <3> QED BY <1>3, <3>2, <3>3 DEF CoreEnum
  <2>2. CASE type # "bool"
    <3>1. x \in CommonString
      BY <1>3, <2>2 DEF Look, Index, Table
    <3> QED BY <1>3, <3>1, CommonIsCore
  <2> QED BY <2>1, <2>2
<1> QED BY <1>1, <1>2, <1>3

-----------------------------------------------------------------------------
(* Functions: declarations, typedefs and wrappers                          *)

\* the functions that give back an address or nothing
OtherNames == {"clSVMAlloc", "clSVMFree", "clGetExtensionFunctionAddressForPlatform",
               "clGetExtensionFunctionAddress"}

LEMMA OthersNamed == DOMAIN Others = OtherNames
<1>1. DOMAIN EarlyOthers = {"clSVMAlloc", "clSVMFree"}
  BY DEF EarlyOthers
<1>2. DOMAIN LateOthers = OtherNames \ {"clSVMAlloc", "clSVMFree"}
  BY AllNames DEF LateOthers, OtherNames
<1>3. \A n : n \in DOMAIN Others <=> n \in DOMAIN EarlyOthers \union DOMAIN LateOthers
  BY MergeNames DEF Others
<1> QED BY <1>1, <1>2, <1>3 DEF OtherNames

\* Every function of cl.h has a wrapper.
LEMMA WrapperPerFunction == CoreFunction \subseteq FuncNames
<1> USE MergeNames, AllNames DEF Declare
<1>1. \A n \in DOMAIN PlatformApi \union DOMAIN DeviceApi : n \in DOMAIN PlatformCalls
  BY DEF PlatformApi, DeviceApi, PlatformCalls
<1>2. \A n \in DOMAIN ContextApi : n \in DOMAIN ContextCalls
  BY DEF ContextApi, ContextCalls
<1>3. \A n \in DOMAIN QueueApi : n \in DOMAIN ContextCalls \union DOMAIN MemObjectCalls
  BY DEF QueueApi, ContextCalls, MemObjectCalls
<1>4. \A n \in DOMAIN MemApi : n \in DOMAIN MemObjectCalls \union DOMAIN MemInfoCalls
  BY DEF MemApi, MemObjectCalls, MemInfoCalls
<1>5. \A n \in DOMAIN SVMApi : n \in DOMAIN MemInfoCalls
  BY DEF SVMApi, MemInfoCalls
<1>6. \A n \in DOMAIN SamplerApi : n \in DOMAIN SamplerCalls
  BY DEF SamplerApi, SamplerCalls
<1>7. \A n \in DOMAIN ProgramApi :
        n \in DOMAIN SamplerCalls \union DOMAIN ProgramCalls \union DOMAIN KernelCalls
  BY DEF ProgramApi, SamplerCalls, ProgramCalls, KernelCalls
<1>8. \A n \in DOMAIN KernelApi : n \in DOMAIN KernelCalls \union DOMAIN KernelInfoCalls
  BY DEF KernelApi, KernelCalls, KernelInfoCalls
<1>9. \A n \in DOMAIN EventApi : n \in DOMAIN KernelInfoCalls \union DOMAIN EventCalls
  BY DEF EventApi, KernelInfoCalls, EventCalls
<1>10. \A n \in DOMAIN EnqueueBufferApi :
         n \in DOMAIN EventCalls \union DOMAIN BufferCopyCalls \union DOMAIN BufferFillCalls
  BY DEF EnqueueBufferApi, EventCalls, BufferCopyCalls, BufferFillCalls
<1>11. \A n \in DOMAIN EnqueueImageApi :
         n \in DOMAIN BufferFillCalls \union DOMAIN ImageCalls \union DOMAIN MapCalls
  BY DEF EnqueueImageApi, BufferFillCalls, ImageCalls, MapCalls
<1>12. \A n \in DOMAIN EnqueueMapApi : n \in DOMAIN MapCalls \union DOMAIN EnqueueCalls
  BY DEF EnqueueMapApi, MapCalls, EnqueueCalls
<1>13. \A n \in DOMAIN EnqueueSVMApi : n \in DOMAIN SVMCalls
  BY DEF EnqueueSVMApi, SVMCalls
<1>14. \A n \in DOMAIN DeprecatedApi :
         n \in DOMAIN DeprecatedCalls \union DOMAIN DeprecatedQueueCalls
  BY DEF DeprecatedApi, DeprecatedCalls, DeprecatedQueueCalls
<1> QED
  <2>1. \A n : n \in CoreFunction =>
          \/ n \in DOMAIN PlatformApi \union DOMAIN DeviceApi \union DOMAIN ContextApi
               \union DOMAIN QueueApi \union DOMAIN MemApi \union DOMAIN SVMApi
          \/ n \in DOMAIN SamplerApi \union DOMAIN ProgramApi \union DOMAIN KernelApi
               \union DOMAIN EventApi \union DOMAIN EnqueueBufferApi
          \/ n \in DOMAIN EnqueueImageApi \union DOMAIN EnqueueMapApi
               \union DOMAIN EnqueueSVMApi \union DOMAIN DeprecatedApi
    BY DEF CoreFunction, Api
  <2>2. \A n :
          n \in DOMAIN PlatformCalls \union DOMAIN ContextCalls
                  \union DOMAIN MemObjectCalls \union DOMAIN MemInfoCalls
            \union DOMAIN SamplerCalls \union DOMAIN ProgramCalls
                  \union DOMAIN KernelCalls \union DOMAIN KernelInfoCalls
            \union DOMAIN EventCalls \union DOMAIN BufferCopyCalls
                  \union DOMAIN BufferFillCalls \union DOMAIN ImageCalls
            \union DOMAIN MapCalls \union DOMAIN EnqueueCalls \union DOMAIN SVMCalls
                  \union DOMAIN DeprecatedCalls \union DOMAIN DeprecatedQueueCalls
          => n \in FuncNames
    BY DEF FuncNames, Script
  <2> QED BY <2>1, <2>2, <1>1, <1>2, <1>3, <1>4, <1>5, <1>6, <1>7, <1>8, <1>9,
             <1>10, <1>11, <1>12, <1>13, <1>14

\* The tracer wraps nothing else.
LEMMA FunctionPerWrapper == FuncNames \subseteq CoreFunction
<1> USE MergeNames, AllNames DEF Declare
<1>1. \A n \in DOMAIN PlatformCalls : n \in DOMAIN PlatformApi \union DOMAIN DeviceApi
  BY DEF PlatformApi, DeviceApi, PlatformCalls
<1>2. \A n \in DOMAIN ContextCalls : n \in DOMAIN ContextApi \union DOMAIN QueueApi
  BY DEF ContextApi, QueueApi, ContextCalls
<1>3. \A n \in DOMAIN MemObjectCalls : n \in DOMAIN QueueApi \union DOMAIN MemApi
  BY DEF QueueApi, MemApi, MemObjectCalls
<1>4. \A n \in DOMAIN MemInfoCalls : n \in DOMAIN MemApi \union DOMAIN SVMApi
  BY DEF MemApi, SVMApi, MemInfoCalls
<1>5. \A n \in DOMAIN SamplerCalls : n \in DOMAIN SamplerApi \union DOMAIN ProgramApi
  BY DEF SamplerApi, ProgramApi, SamplerCalls
<1>6. \A n \in DOMAIN ProgramCalls : n \in DOMAIN ProgramApi
  BY DEF ProgramApi, ProgramCalls
<1>7. \A n \in DOMAIN KernelCalls : n \in DOMAIN ProgramApi \union DOMAIN KernelApi
  BY DEF ProgramApi, KernelApi, KernelCalls
<1>8. \A n \in DOMAIN KernelInfoCalls : n \in DOMAIN KernelApi \union DOMAIN EventApi
  BY DEF KernelApi, EventApi, KernelInfoCalls
<1>9. \A n \in DOMAIN EventCalls : n \in DOMAIN EventApi \union DOMAIN EnqueueBufferApi
  BY DEF EventApi, EnqueueBufferApi, EventCalls
<1>10. \A n \in DOMAIN BufferCopyCalls : n \in DOMAIN EnqueueBufferApi
  BY DEF EnqueueBufferApi, BufferCopyCalls
<1>11. \A n \in DOMAIN BufferFillCalls :
         n \in DOMAIN EnqueueBufferApi \union DOMAIN EnqueueImageApi
  BY DEF EnqueueBufferApi, EnqueueImageApi, BufferFillCalls
<1>12. \A n \in DOMAIN ImageCalls : n \in DOMAIN EnqueueImageApi
  BY DEF EnqueueImageApi, ImageCalls
<1>13. \A n \in DOMAIN MapCalls : n \in DOMAIN EnqueueImageApi \union DOMAIN EnqueueMapApi
  BY DEF EnqueueImageApi, EnqueueMapApi, MapCalls
<1>14. \A n \in DOMAIN EnqueueCalls : n \in DOMAIN EnqueueMapApi
  BY DEF EnqueueMapApi, EnqueueCalls
<1>15. \A n \in DOMAIN SVMCalls : n \in DOMAIN EnqueueSVMApi
  BY DEF EnqueueSVMApi, SVMCalls
<1>16. \A n \in DOMAIN DeprecatedCalls : n \in DOMAIN DeprecatedApi
  BY DEF DeprecatedApi, DeprecatedCalls
<1>17. \A n \in DOMAIN DeprecatedQueueCalls : n \in DOMAIN DeprecatedApi
  BY DEF DeprecatedApi, DeprecatedQueueCalls
<1> QED
  <2>1. \A n : n \in FuncNames =>
          \/ n \in DOMAIN PlatformCalls \union DOMAIN ContextCalls
               \union DOMAIN MemObjectCalls \union DOMAIN MemInfoCalls
               \union DOMAIN SamplerCalls \union DOMAIN ProgramCalls
          \/ n \in DOMAIN KernelCalls \union DOMAIN KernelInfoCalls
               \union DOMAIN EventCalls \union DOMAIN BufferCopyCalls
               \union DOMAIN BufferFillCalls \union DOMAIN ImageCalls
          \/ n \in DOMAIN MapCalls \union DOMAIN EnqueueCalls \union DOMAIN SVMCalls
               \union DOMAIN DeprecatedCalls \union DOMAIN DeprecatedQueueCalls
    BY DEF FuncNames, Script
  <2>2. \A n :
          n \in DOMAIN PlatformApi \union DOMAIN DeviceApi \union DOMAIN ContextApi
                  \union DOMAIN QueueApi \union DOMAIN MemApi \union DOMAIN SVMApi
            \union DOMAIN SamplerApi \union DOMAIN ProgramApi \union DOMAIN KernelApi
                  \union DOMAIN EventApi \union DOMAIN EnqueueBufferApi
            \union DOMAIN EnqueueImageApi \union DOMAIN EnqueueMapApi
                  \union DOMAIN EnqueueSVMApi \union DOMAIN DeprecatedApi
          => n \in CoreFunction
    BY DEF CoreFunction, Api
  <2> QED BY <2>1, <2>2, <1>1, <1>2, <1>3, <1>4, <1>5, <1>6, <1>7, <1>8, <1>9,
             <1>10, <1>11, <1>12, <1>13, <1>14, <1>15, <1>16, <1>17

\* The wrappers learn the code that the declaration and the typedef promise.
Telling(calls) == \A n \in DOMAIN calls :
  /\ n \in Objects => calls[n] \in {Create, Binary}
  /\ n \notin Objects \union OtherNames => calls[n] \in {Status, Event, SVMFree}

LEMMA CallsTell == Telling(Script)
<1>1. \A names : names \intersect (Objects \union OtherNames) = {} =>
        /\ Telling(All(Status, names))
        /\ Telling(All(Event, names)) /\ Telling(All(SVMFree, names))
  BY DEF Telling, All
<1>2. \A names : names \subseteq Objects /\ names \intersect OtherNames = {} =>
        Telling(All(Create, names)) /\ Telling(All(Binary, names))
  BY DEF Telling, All
<1>3. \A names : names \subseteq OtherNames /\ names \intersect Objects = {} =>
        Telling(All(Address, names)) /\ Telling(All(Plain, names))
  BY DEF Telling, All
<1>4. ASSUME NEW T, \A t \in T : Telling(t)
      PROVE  Telling(Merge(T))
  BY <1>4, MergeEntry DEF Telling
<1> USE <1>1, <1>2, <1>3, <1>4 DEF Objects, EarlyObjects, LateObjects, OtherNames
<1>5. Telling(PlatformCalls) /\ Telling(ContextCalls)
  BY DEF PlatformCalls, ContextCalls
<1>6. Telling(MemObjectCalls) 
  BY DEF MemObjectCalls
<1>7. Telling(MemInfoCalls) /\ Telling(SamplerCalls)
  BY DEF MemInfoCalls, SamplerCalls
<1>8. Telling(ProgramCalls) /\ Telling(KernelCalls)
  BY DEF ProgramCalls, KernelCalls
<1>9. Telling(KernelInfoCalls) /\ Telling(EventCalls)
  BY DEF KernelInfoCalls, EventCalls
<1>10. Telling(BufferCopyCalls) /\ Telling(BufferFillCalls) /\ Telling(ImageCalls)
  BY DEF BufferCopyCalls, BufferFillCalls, ImageCalls
<1>11. Telling(MapCalls) /\ Telling(EnqueueCalls) /\ Telling(SVMCalls)
  BY DEF MapCalls, EnqueueCalls, SVMCalls
<1>12. Telling(DeprecatedCalls) /\ Telling(DeprecatedQueueCalls)
  BY DEF DeprecatedCalls, DeprecatedQueueCalls
<1> QED BY <1>4, <1>5, <1>6, <1>7, <1>8, <1>9, <1>10, <1>11, <1>12 DEF Script

\* What the declarations say of the code and of the printed arguments.
Declared(api) == \A n \in DOMAIN api :
  /\ api[n].gives = "code" => n \notin Objects \union OtherNames
  /\ api[n].gives = "object" => n \in Objects
  /\ api[n].takes \in Seq(Printed)

LEMMA ApiDeclared == Declared(Api)
<1>1. \A names, takes : names \intersect (Objects \union OtherNames) = {}
                        /\ takes \in Seq(Printed) =>
        Declared(Declare("code", takes, names))
  BY DEF Declared, Declare, All
<1>2. \A names, takes : names \subseteq Objects /\ takes \in Seq(Printed) =>
        Declared(Declare("object", takes, names))
  BY DEF Declared, Declare, All
<1>3. \A names, takes : takes \in Seq(Printed) =>
        Declared(Declare("address", takes, names)) /\ Declared(Declare("nothing", takes, names))
  BY DEF Declared, Declare, All
<1>4. ASSUME NEW T, \A t \in T : Declared(t)
      PROVE  Declared(Merge(T))
  BY <1>4, MergeEntry DEF Declared
<1>5. /\ <<>> \in Seq(Printed)
      /\ \A type \in Printed : <<type>> \in Seq(Printed)
      /\ \A type \in Printed : <<"mem_flags", type>> \in Seq(Printed)
      /\ <<"bool", "addressing_mode", "filter_mode">> \in Seq(Printed)
  BY DEF Printed, Named
<1> USE <1>1, <1>2, <1>3, <1>4, <1>5
    DEF Objects, EarlyObjects, LateObjects, OtherNames, Printed, Named
<1>6. Declared(PlatformApi) /\ Declared(DeviceApi) /\ Declared(ContextApi)
  BY DEF PlatformApi, DeviceApi, ContextApi
<1>7. Declared(QueueApi) /\ Declared(SVMApi)
  BY DEF QueueApi, SVMApi
<1>8. Declared(MemApi) /\ Declared(SamplerApi)
  BY DEF MemApi, SamplerApi
<1>9. Declared(ProgramApi) /\ Declared(KernelApi)
  BY DEF ProgramApi, KernelApi
<1>10. Declared(EventApi) /\ Declared(EnqueueBufferApi)
  BY DEF EventApi, EnqueueBufferApi
<1>11. Declared(EnqueueImageApi) /\ Declared(EnqueueMapApi)
  BY DEF EnqueueImageApi, EnqueueMapApi
<1>12. Declared(EnqueueSVMApi) /\ Declared(DeprecatedApi)
  BY DEF EnqueueSVMApi, DeprecatedApi
<1> QED BY <1>4, <1>6, <1>7, <1>8, <1>9, <1>10, <1>11, <1>12 DEF Api

\* The typedefs agree.
LEMMA TypedefWays ==
  ASSUME NEW f \in FuncNames
  PROVE  /\ f \in Objects => Typedef[f] = "object"
         /\ f \notin Objects \union OtherNames => Typedef[f] = "code"
<1> DEFINE Rest == FuncNames \ (Objects \union DOMAIN Others)
           T == {Others, All("object", Objects), All("code", Rest)}
<1>1. Typedef = Merge(T)
  BY DEF Typedef
<1>2. Objects \intersect OtherNames = {}
  BY DEF Objects, EarlyObjects, LateObjects, OtherNames
<1>3. ASSUME f \notin OtherNames
      PROVE  Typedef[f] = IF f \in Objects THEN "object" ELSE "code"
  <2>1. \E t \in T : f \in DOMAIN t
    BY <1>3, OthersNamed, AllNames
  <2>2. f \in DOMAIN Merge(T)
    BY <2>1, MergeNames
  <2>3. PICK t \in T : f \in DOMAIN t /\ Merge(T)[f] = t[f]
    BY <2>2, MergeEntry
  <2>4. t # Others
    BY <1>3, <2>3, OthersNamed
  <2>5. CASE t = All("object", Objects)
    BY <1>1, <2>3, <2>5 DEF All
  <2>6. CASE t = All("code", Rest)
    BY <1>1, <2>3, <2>6 DEF All
  <2> QED BY <2>3, <2>4, <2>5, <2>6
<1> QED BY <1>2, <1>3

\* the operations of the wrappers
Operation == {"prefix", "name", "open", "args", "close", "ret", "pointer", "spent",
              "eol", "result", "resultptr", "argument", "unset", "flush", "start",
              "stop", "calls", "errors", "seconds", "enter", "leave"}

\* An operation that a sequence is put together with occurs in it.
Has(s, op) == s \in Seq(Operation) /\ \E i \in DOMAIN s : s[i] = op

LEMMA HasConcat ==
  ASSUME NEW s \in Seq(Operation), NEW t \in Seq(Operation), NEW op,
         Has(s, op) \/ Has(t, op)
  PROVE  Has(s \o t, op)
<1>1. s \o t \in Seq(Operation)
  BY ConcatProperties
<1>2. CASE Has(s, op)
  <2>1. PICK i \in DOMAIN s : s[i] = op
    BY <1>2 DEF Has
  <2>2. i \in DOMAIN (s \o t) /\ (s \o t)[i] = op
    BY <2>1, ConcatProperties
  <2> QED BY <1>1, <2>2 DEF Has
<1>3. CASE Has(t, op)
  <2>1. PICK i \in DOMAIN t : t[i] = op
    BY <1>3 DEF Has
  <2>2. i + Len(s) \in DOMAIN (s \o t) /\ (s \o t)[i + Len(s)] = op
    BY <2>1, ConcatProperties
  <2> QED BY <1>1, <2>2 DEF Has
<1> QED BY <1>2, <1>3

LEMMA SequencesLearn ==
  /\ \A s \in {Status, Event, SVMFree} : Has(s, "result")
  /\ \A s \in {Create, Binary} : Has(s, "resultptr")
<1> DEFINE S == Seq(Operation)
           A == Open \o Args
           U == Code("unset")
           G == Code("argument")
           I == Code("result")
           J == Code("resultptr")
           R == <<"ret">>
<1>1. \A s \in S, t \in S : s \o t \in S
  BY ConcatProperties
<1>2. \A s \in S : \A option : When(option, s) \in S
  BY DEF When
<1>3. /\ \A x \in Operation : <<x>> \in S
      /\ \A x, y \in Operation : <<x, y>> \in S
  OBVIOUS
<1>4. /\ Args \in S /\ Close \in S /\ Flush \in S /\ Real \in S /\ R \in S /\ Pointer \in S
  BY <1>3 DEF Args, Close, Flush, Real, Pointer, Operation
<1>5. Open \in S /\ End \in S
  <2>1. /\ <<"prefix">> \in S /\ <<"name", "open">> \in S /\ <<"start">> \in S
        /\ <<"calls">> \in S /\ <<"stop">> \in S /\ <<"spent">> \in S
        /\ <<"seconds">> \in S /\ <<"eol", "flush">> \in S
    BY <1>3 DEF Operation
  <2> QED BY <1>1, <1>2, <2>1 DEF Open, End
<1>6. Has(I, "result") /\ Has(J, "resultptr") /\ U \in S /\ G \in S
  <2>1. \A x \in Operation : Has(<<x>>, x)
    BY <1>3 DEF Has
  <2>2. {"result", "resultptr", "unset", "argument", "errors"} \subseteq Operation
    BY DEF Operation
  <2>3. When(EmitStats, <<"errors">>) \in S
    BY <1>2, <1>3, <2>2
  <2> QED BY <1>1, <1>3, <2>1, <2>2, <2>3, HasConcat DEF Code
<1>7. /\ Status = ((((A \o Close) \o Real) \o R) \o I) \o End
      /\ Create = (((((A \o Flush) \o Real) \o J) \o Close) \o Pointer) \o End
      /\ Binary = ((((((A \o U) \o Flush) \o Real) \o J) \o Close) \o Pointer) \o End
      /\ Event = (((((A \o G) \o Close) \o Real) \o R) \o I) \o End
      /\ SVMFree = ((((((A \o Close) \o Args) \o Close) \o Real) \o R) \o I) \o End
  BY DEF Status, Create, Binary, Event, SVMFree
<1>8. A \in S
  BY <1>1, <1>4, <1>5
<1>9. I \in S /\ J \in S
  BY <1>6 DEF Has
<1> HIDE DEF A, U, G, I, J, R
<1>10. ASSUME NEW s \in S
       PROVE  Has((s \o I) \o End, "result")
              /\ Has(((s \o J) \o Close) \o Pointer \o End, "resultptr")
  BY <1>1, <1>4, <1>5, <1>6, <1>9, HasConcat
<1> QED BY <1>1, <1>4, <1>5, <1>6, <1>7, <1>8, <1>9, <1>10, HasConcat

\* The declaration, the typedef and the wrapper of each function agree on how
\* the error code reaches the caller.
LEMMA CodesAreLearned ==
  ASSUME NEW f \in CoreFunction, Api[f].gives \in {"code", "object"}
  PROVE  Learns(f, Api[f].gives)
<1>1. f \in FuncNames
  BY WrapperPerFunction
<1>2. CASE Api[f].gives = "code"
  <2>1. f \notin Objects \union OtherNames
    BY <1>2, ApiDeclared DEF Declared, CoreFunction
  <2>2. Has(Script[f], "result")
    BY <1>1, <2>1, CallsTell, SequencesLearn DEF Telling, FuncNames
  <2> QED BY <1>1, <1>2, <2>1, <2>2, TypedefWays DEF Learns, Has
<1>3. CASE Api[f].gives = "object"
  <2>1. f \in Objects
    BY <1>3, ApiDeclared DEF Declared, CoreFunction
  <2>2. Has(Script[f], "resultptr")
    BY <1>1, <2>1, CallsTell, SequencesLearn DEF Telling, FuncNames
  <2> QED BY <1>1, <1>3, <2>1, <2>2, TypedefWays DEF Learns, Has
<1> QED BY <1>2, <1>3

-----------------------------------------------------------------------------
(* The theorems                                                            *)

\* The last lookup was made for an argument or a code, and shows what its
\* table has there.
Looked ==
  \/ seen = NoLook
  \/ \E type \in Printed \union {"code"}, x \in Int :
       seen = [type |-> type, value |-> x, shown |-> Look(type, x)]

\* A code is known from the return of the library to the end of the call.
PrintInv ==
  /\ TypeOK /\ CodeIsShown /\ Looked
  /\ left \in Seq(Printed)
  /\ gave # NoCode => phase \in {"returned", "dead"}

LEMMA LookedTyped ==
  ASSUME Looked
  PROVE  /\ seen.type \in DOMAIN Core \union Codes \union {"none"}
         /\ seen.value \in Int /\ seen.shown \in Outputs
<1>1. CASE seen = NoLook
  BY <1>1 DEF NoLook, Outputs
<1>2. CASE seen # NoLook
  <2>1. PICK type \in Printed \union {"code"}, x \in Int :
          seen = [type |-> type, value |-> x, shown |-> Look(type, x)]
    BY <1>2 DEF Looked
  <2>2. type \in DOMAIN Core \union Codes
    BY PrintedTypes DEF Codes
  <2>3. Look(type, x) \in Outputs
    BY LookOutputs DEF Outputs
  <2> QED BY <2>1, <2>2, <2>3
<1> QED BY <1>1, <1>2

LEMMA PrintedSequence ==
  ASSUME NEW s \in Seq(Printed)
  PROVE  s \in Seq(DOMAIN Core \union Codes)
BY PrintedTypes

LEMMA PrintInit == Init => PrintInv
<1> SUFFICES ASSUME Init PROVE PrintInv
  OBVIOUS
<1> USE DEF Init
<1>1. Looked
  BY DEF Looked
<1>2. left \in Seq(Printed)
  OBVIOUS
<1>3. TypeOK
  BY <1>1, <1>2, LookedTyped, PrintedSequence DEF TypeOK
<1>4. CodeIsShown
  BY DEF CodeIsShown
<1> QED BY <1>1, <1>2, <1>3, <1>4 DEF PrintInv

LEMMA PrintNext == PrintInv /\ [Next]_vars => PrintInv'
<1> SUFFICES ASSUME PrintInv, [Next]_vars PROVE PrintInv'
  OBVIOUS
<1> USE DEF PrintInv, TypeOK
<1>1. ASSUME NEW f \in CoreFunction \union ExtensionFunction, Call(f) PROVE PrintInv'
  <2>1. left' \in Seq(Printed)
    <3>1. CASE f \in FuncNames
      <4>1. f \in DOMAIN Api
        BY <3>1, FunctionPerWrapper DEF CoreFunction
      <4> QED BY <1>1, <3>1, <4>1, ApiDeclared DEF Call, Declared
    <3>2. CASE f \notin FuncNames
      BY <1>1, <3>2 DEF Call
    <3> QED BY <3>1, <3>2
  <2>2. Looked' /\ (gave = NoCode)'
    BY <1>1 DEF Call, Looked
  <2>3. TypeOK'
    BY <1>1, <2>1, PrintedSequence DEF Call
  <2> QED BY <1>1, <2>1, <2>2, <2>3 DEF Call, CodeIsShown
<1>2. CASE PrintArgument
  <2>1. PICK x \in Value(Head(left)) : Puts(Head(left), x, "arguments")
    BY <1>2 DEF PrintArgument
  <2>2. x \in Int /\ Head(left) \in Printed /\ left' \in Seq(Printed)
    BY <1>2, ValuesAreIntegers, HeadTailProperties DEF PrintArgument
  <2>3. Looked'
    BY <2>1, <2>2 DEF Puts, Looked
  <2>4. phase' \in {"arguments", "dead"} /\ gave' = NoCode /\ fn' = fn
    BY <1>2, <2>1 DEF PrintArgument, Puts
  <2>5. Look(Head(left), x) \in Outputs /\ Head(left) \in DOMAIN Core \union Codes
    BY <2>2, LookOutputs, PrintedTypes DEF Outputs
  <2>6. TypeOK'
    BY <2>1, <2>2, <2>4, <2>5, PrintedSequence DEF Puts
  <2> QED BY <2>2, <2>3, <2>4, <2>6 DEF CodeIsShown
<1>3. CASE SkipStatus
  <2>1. left' \in Seq(Printed)
    BY <1>3, HeadTailProperties DEF SkipStatus
  <2>2. Looked'
    BY <1>3 DEF SkipStatus, Looked
  <2> QED BY <1>3, <2>1, <2>2, PrintedSequence DEF SkipStatus, CodeIsShown, NoLook, Outputs
<1>4. CASE ReturnCode
  <2>1. PICK x \in ErrorCode \union ExtensionCode \union Foreign :
          /\ phase = "arguments" /\ left = <<>>
          /\ fn \in CoreFunction /\ Api[fn].gives \in {"code", "object"}
          /\ gave' = x
          /\ IF Learns(fn, Api[fn].gives) THEN Puts("code", x, "returned")
             ELSE seen' = NoLook /\ phase' = "returned"
          /\ UNCHANGED <<fn, left>>
    BY <1>4 DEF ReturnCode
  <2>2. x \in Int
    BY CodesAreIntegers, ForeignAssumption
  <2>3. Puts("code", x, "returned")
    BY <2>1, CodesAreLearned
  <2>4. /\ seen' = [type |-> "code", value |-> x, shown |-> Look("code", x)]
        /\ phase' \in {"returned", "dead"}
    BY <2>3 DEF Puts
  <2>5. Looked'
    BY <2>2, <2>4 DEF Looked
  <2>6. Look("code", x) \in Outputs
    BY LookOutputs DEF Outputs
  <2>7. CodeIsShown'
    <3>1. Look("code", x) = "name" <=> x \in ErrorCode
      BY <2>2, CodesNamed
    <3> QED BY <2>1, <2>2, <2>4, <3>1, NoCodeAssumption DEF CodeIsShown
  <2>8. TypeOK'
    BY <2>1, <2>2, <2>4, <2>6 DEF Codes
  <2> QED BY <2>1, <2>4, <2>5, <2>7, <2>8
<1>5. CASE ReturnOther
  BY <1>5 DEF ReturnOther, Looked, CodeIsShown, NoLook, Outputs
<1>6. CASE Resume
  BY <1>6 DEF Resume, Looked, CodeIsShown, NoLook, Outputs
<1>7. CASE UNCHANGED vars
  BY <1>7 DEF vars, Looked, CodeIsShown
<1>8. CASE Finished
  BY <1>7, <1>8 DEF Finished
<1> QED BY <1>1, <1>2, <1>3, <1>4, <1>5, <1>6, <1>7, <1>8 DEF Next

\* The invariant of every behaviour, for any values that no header defines.
THEOREM PrintInvHolds == Spec => []PrintInv
BY PrintInit, PrintNext, PTL DEF Spec

\* The wrappers look up no argument that has no table: type correctness of the
\* calls, their remaining arguments and the lookups.
THEOREM PrintingTypeCorrect == Spec => []TypeOK
<1>1. PrintInv => TypeOK
  BY DEF PrintInv
<1> QED BY <1>1, PrintInvHolds, PTL

\* The tables have a name for every value cl.h defines, the execution statuses
\* above 0 apart: nothing else is dropped, null or wild.
THEOREM MisprintNeedsForeignHolds == Spec => []MisprintNeedsForeign
<1>1. PrintInv => MisprintNeedsForeign
  <2> SUFFICES ASSUME Looked, Misprinted
               PROVE  \/ seen.value \notin Meaning(seen.type)
                      \/ seen.type = "execution_status" /\ seen.value > 0
    BY DEF PrintInv, MisprintNeedsForeign
  <2>1. PICK type \in Printed \union {"code"}, x \in Int :
          seen = [type |-> type, value |-> x, shown |-> Look(type, x)]
    BY DEF Looked, Misprinted, NoLook
  <2>2. Look(type, x) # "name"
    BY <2>1 DEF Misprinted
  <2> QED BY <2>1, <2>2, LookMisprints
<1> QED BY <1>1, PrintInvHolds, PTL

\* The tables name no value that cl.h does not define, the reserved bit of
\* cl_mem_flags apart.
THEOREM NamesAreCoreHolds == Spec => []NamesAreCore
<1>1. PrintInv => NamesAreCore
  <2> SUFFICES ASSUME Looked, seen.shown = "name"
               PROVE  seen.value \in
                        CASE seen.type = "mem_flags" -> Core["mem_flags"] \union {6}
                          [] seen.type \in Codes      -> ErrorCode
                          [] OTHER                    -> CoreEnum
    BY DEF PrintInv, NamesAreCore
  <2>1. PICK type \in Printed \union {"code"}, x \in Int :
          seen = [type |-> type, value |-> x, shown |-> Look(type, x)]
    BY DEF Looked, NoLook
  <2>2. Look(type, x) = "name" /\ seen.type = type /\ seen.value = x
    BY <2>1
  <2> QED BY <2>2, LookNames
<1> QED BY <1>1, PrintInvHolds, PTL

\* For each function of cl.h, the code that the caller receives is the code
\* that the wrapper looks up, and the trace names it if cl.h does.
THEOREM CodeIsShownHolds == Spec => []CodeIsShown
<1>1. PrintInv => CodeIsShown
  BY DEF PrintInv
<1> QED BY <1>1, PrintInvHolds, PTL
=============================================================================
