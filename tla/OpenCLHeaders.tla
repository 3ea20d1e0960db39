--------------------------- MODULE OpenCLHeaders ---------------------------
(***************************************************************************)
(* What include/CL/cl.h promises, as data: the values it defines for each  *)
(* enumerated type, the error codes, and for each of its functions what it *)
(* gives back and which of its arguments the tracer prints by looking them *)
(* up in a table.                                                          *)
(*                                                                         *)
(* A value stands for its name: no property needs the text.  A bit field   *)
(* of memory flags is given by the numbers of its bits, the other bit      *)
(* fields by the values of their bits, as they are printed as numbers      *)
(* (CL_DEVICE_TYPE_ALL, all bits, is left out).                            *)
(***************************************************************************)
EXTENDS Integers, Sequences, Tables

Bits(n) == {2 ^ i : i \in 0..n}

-----------------------------------------------------------------------------
(* Error codes and enumerated types, in the order of the file              *)

ErrorCode == {-n : n \in (0..19) \union (30..70)}

PlatformEnums == [bool |-> {0, 1}, platform_info |-> \h900..\h904]

DeviceEnums ==
  [device_type |-> Bits(4), device_info |-> (\h1000..\h1032) \union (\h1034..\h105A),
   fp_config |-> Bits(7), mem_cache_type |-> 0..2, local_mem_type |-> 1..2,
   exec_capabilities |-> Bits(1)]

ContextEnums ==
  [queue_properties |-> Bits(3), context_info |-> \h1080..\h1083,
   context_properties |-> \h1084..\h1085,
   partition_property |-> {0} \union (\h1086..\h1088),
   affinity_domain |-> Bits(5), svm_capabilities |-> Bits(3),
   command_queue_info |-> \h1090..\h1094]

MemEnums ==
  [mem_flags |-> (0..5) \union (7..12), migration_flags |-> Bits(1),
   channel_order |-> \h10B0..\h10C3, channel_type |-> \h10D0..\h10DF,
   mem_object_type |-> \h10F0..\h10F7]

ImageEnums ==
  [mem_info |-> \h1100..\h1109, image_info |-> \h1110..\h111A,
   pipe_info |-> \h1120..\h1121, addressing_mode |-> \h1130..\h1134,
   filter_mode |-> \h1140..\h1141, sampler_info |-> \h1150..\h1157,
   map_flags |-> Bits(2)]

ProgramEnums ==
  [program_info |-> \h1160..\h1168, program_build_info |-> \h1181..\h1185,
   program_binary_type |-> {0, 1, 2, 4}, build_status |-> -3..0]

KernelEnums ==
  [kernel_info |-> \h1190..\h1195, kernel_arg_info |-> \h1196..\h119A,
   address_qualifier |-> \h119B..\h119E, access_qualifier |-> \h11A0..\h11A3,
   type_qualifier |-> {0} \union Bits(3), kernel_work_group_info |-> \h11B0..\h11B5,
   kernel_exec_info |-> \h11B6..\h11B7]

\* "command execution status" is the type of a cl_int argument; an error code
\* may be passed for it too
EventEnums ==
  [event_info |-> \h11D0..\h11D4, command_type |-> \h11F0..\h120D,
   execution_status |-> (0..3) \union ErrorCode,
   buffer_create_type |-> {\h1220}, profiling_info |-> \h1280..\h1284]

\* every enumerated type of cl.h with its values
Core ==
  Merge({PlatformEnums, DeviceEnums, ContextEnums, MemEnums, ImageEnums,
         ProgramEnums, KernelEnums, EventEnums})

-----------------------------------------------------------------------------
(* The functions: what they give the caller ("code": a cl_int; "object":   *)
(* an object or address, and an error code through the last argument;      *)
(* "address": an address alone; "nothing"), and the types of the arguments *)
(* that are printed from a table, in order.                                *)

Declare(gives, takes, names) == All([gives |-> gives, takes |-> takes], names)

PlatformApi ==
  Merge({Declare("code", <<>>, {"clGetPlatformIDs"}),
         Declare("code", <<"platform_info">>, {"clGetPlatformInfo"})})

DeviceApi ==
  Merge({Declare("code", <<>>, {"clGetDeviceIDs", "clCreateSubDevices", "clRetainDevice",
             "clReleaseDevice"}),
         Declare("code", <<"device_info">>, {"clGetDeviceInfo"})})

ContextApi ==
  Merge({Declare("object", <<>>, {"clCreateContext", "clCreateContextFromType"}),
         Declare("code", <<>>, {"clRetainContext", "clReleaseContext"}),
         Declare("code", <<"context_info">>, {"clGetContextInfo"})})

QueueApi ==
  Merge({Declare("object", <<>>, {"clCreateCommandQueueWithProperties"}),
         Declare("code", <<>>, {"clRetainCommandQueue", "clReleaseCommandQueue"}),
         Declare("code", <<"command_queue_info">>, {"clGetCommandQueueInfo"})})

MemApi ==
  Merge({Declare("object", <<"mem_flags">>, {"clCreateBuffer", "clCreateImage", "clCreatePipe"}),
         Declare("object", <<"mem_flags", "buffer_create_type">>, {"clCreateSubBuffer"}),
         Declare("code", <<>>, {"clRetainMemObject", "clReleaseMemObject",
             "clSetMemObjectDestructorCallback"}),
         Declare("code", <<"mem_flags", "mem_object_type">>, {"clGetSupportedImageFormats"}),
         Declare("code", <<"mem_info">>, {"clGetMemObjectInfo"}),
         Declare("code", <<"image_info">>, {"clGetImageInfo"}),
         Declare("code", <<"pipe_info">>, {"clGetPipeInfo"})})

SVMApi ==
  Merge({Declare("address", <<>>, {"clSVMAlloc"}),
         Declare("nothing", <<>>, {"clSVMFree"})})

SamplerApi ==
  Merge({Declare("object", <<>>, {"clCreateSamplerWithProperties"}),
         Declare("code", <<>>, {"clRetainSampler", "clReleaseSampler"}),
         Declare("code", <<"sampler_info">>, {"clGetSamplerInfo"})})

\* binary_status: a cl_int behind a pointer, set by the call
ProgramApi ==
  Merge({Declare("object", <<>>, {"clCreateProgramWithSource",
             "clCreateProgramWithBuiltInKernels", "clLinkProgram"}),
         Declare("object", <<"binary_status">>, {"clCreateProgramWithBinary"}),
         Declare("code", <<>>, {"clRetainProgram", "clReleaseProgram", "clBuildProgram",
             "clCompileProgram", "clUnloadPlatformCompiler"}),
         Declare("code", <<"program_info">>, {"clGetProgramInfo"}),
         Declare("code", <<"program_build_info">>, {"clGetProgramBuildInfo"})})

KernelApi ==
  Merge({Declare("object", <<>>, {"clCreateKernel"}),
         Declare("code", <<>>, {"clCreateKernelsInProgram", "clRetainKernel",
             "clReleaseKernel", "clSetKernelArg", "clSetKernelArgSVMPointer"}),
         Declare("code", <<"kernel_exec_info">>, {"clSetKernelExecInfo"}),
         Declare("code", <<"kernel_info">>, {"clGetKernelInfo"}),
         Declare("code", <<"kernel_arg_info">>, {"clGetKernelArgInfo"}),
         Declare("code", <<"kernel_work_group_info">>, {"clGetKernelWorkGroupInfo"})})

EventApi ==
  Merge({Declare("object", <<>>, {"clCreateUserEvent"}),
         Declare("code", <<>>, {"clWaitForEvents", "clRetainEvent", "clReleaseEvent",
             "clFlush", "clFinish"}),
         Declare("code", <<"event_info">>, {"clGetEventInfo"}),
         Declare("code", <<"execution_status">>, {"clSetUserEventStatus", "clSetEventCallback"}),
         Declare("code", <<"profiling_info">>, {"clGetEventProfilingInfo"})})

EnqueueBufferApi ==
  Merge({Declare("code", <<"bool">>, {"clEnqueueReadBuffer", "clEnqueueReadBufferRect",
             "clEnqueueWriteBuffer", "clEnqueueWriteBufferRect"}),
         Declare("code", <<>>, {"clEnqueueFillBuffer", "clEnqueueCopyBuffer",
             "clEnqueueCopyBufferRect"})})

EnqueueImageApi ==
  Merge({Declare("code", <<"bool">>, {"clEnqueueReadImage", "clEnqueueWriteImage"}),
         Declare("code", <<>>, {"clEnqueueFillImage", "clEnqueueCopyImage",
             "clEnqueueCopyImageToBuffer", "clEnqueueCopyBufferToImage"})})

EnqueueMapApi ==
  Merge({Declare("object", <<"bool">>, {"clEnqueueMapBuffer", "clEnqueueMapImage"}),
         Declare("code", <<>>, {"clEnqueueUnmapMemObject", "clEnqueueMigrateMemObjects",
             "clEnqueueNDRangeKernel", "clEnqueueNativeKernel",
             "clEnqueueMarkerWithWaitList", "clEnqueueBarrierWithWaitList"})})

EnqueueSVMApi ==
  Merge({Declare("code", <<>>, {"clEnqueueSVMFree", "clEnqueueSVMMemFill", "clEnqueueSVMUnmap"}),
         Declare("code", <<"bool">>, {"clEnqueueSVMMemcpy", "clEnqueueSVMMap"})})

DeprecatedApi ==
  Merge({Declare("address", <<>>, {"clGetExtensionFunctionAddressForPlatform",
             "clGetExtensionFunctionAddress"}),
         Declare("object", <<"mem_flags">>, {"clCreateImage2D", "clCreateImage3D"}),
         Declare("code", <<>>, {"clEnqueueMarker", "clEnqueueWaitForEvents",
             "clEnqueueBarrier", "clUnloadCompiler", "clEnqueueTask"}),
         Declare("object", <<>>, {"clCreateCommandQueue"}),
         Declare("object", <<"bool", "addressing_mode", "filter_mode">>, {"clCreateSampler"})})

\* every function of cl.h with its declaration
Api ==
  Merge({PlatformApi, DeviceApi, ContextApi, QueueApi, MemApi, SVMApi,
         SamplerApi, ProgramApi, KernelApi, EventApi, EnqueueBufferApi,
         EnqueueImageApi, EnqueueMapApi, EnqueueSVMApi,
         DeprecatedApi})
=============================================================================
