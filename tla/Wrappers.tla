------------------------------ MODULE Wrappers ------------------------------
(***************************************************************************)
(* The 101 wrapper functions of opencl.c as data: what each one does, in   *)
(* order, as a sequence of operations that module Tracer executes.  A      *)
(* wrapper is straight-line code, so its control is its sequence; 101      *)
(* functions follow seven sequences.  Printing the input arguments is one  *)
(* operation ("args"), as no property tells one argument from another.     *)
(*                                                                         *)
(* Operations: "prefix" "name" "open" "args" "close" "ret" "pointer"       *)
(* "spent" "eol" print text; "result" "resultptr" "argument" "unset" print *)
(* a cl_int by its error name; "flush" is fflush; "start" and "stop" read  *)
(* the clock; "calls" "errors" "seconds" update func_stats; "enter" and    *)
(* "leave" are the call into the real library and its return.              *)
(***************************************************************************)
EXTENDS Sequences, Tables

CONSTANTS EmitTime, EmitSpent, EmitStats  \* emit_time, emit_time_spent, emit_stats

ASSUME OptionAssumption == {EmitTime, EmitSpent, EmitStats} \subseteq BOOLEAN

When(option, ops) == IF option THEN ops ELSE <<>>

-----------------------------------------------------------------------------
(* The emit_* functions                                                    *)

\* Seeded fault: the timestamp after the name.
Open_NameFirst ==
  <<"name">> \o When(EmitTime, <<"prefix">>) \o <<"open">>
    \o When(EmitSpent \/ EmitStats, <<"start">>) \o When(EmitStats, <<"calls">>)

\* emit_open
Open ==
  When(EmitTime, <<"prefix">>) \o <<"name", "open">>
    \o When(EmitSpent \/ EmitStats, <<"start">>) \o When(EmitStats, <<"calls">>)

\* emit_char_ptr .. emit_void_ptr and emit_separator, once per input argument
Args == <<"args">>

\* emit_ret and the printer of an address
Pointer == <<"ret", "pointer">>

\* emit_close
Close == <<"close", "flush">>

\* emit_end
End ==
  When(EmitSpent \/ EmitStats, <<"stop">>) \o When(EmitSpent, <<"spent">>)
    \o When(EmitStats, <<"seconds">>) \o <<"eol", "flush">>

\* emit_flush
Flush == <<"flush">>

\* emit_cl_int and emit_cl_int_ptr
Code(of) == <<of>> \o When(EmitStats, <<"errors">>)

\* the call through opencl_fptr
Real == <<"enter", "leave">>

-----------------------------------------------------------------------------
(* The seven sequences                                                     *)

\* a function that returns an error code
Status == Open \o Args \o Close \o Real \o <<"ret">> \o Code("result") \o End

\* Seeded fault: no emit_flush before the call.
Create_NoFlush ==
  Open \o Args \o Real \o Code("resultptr") \o Close
    \o Pointer \o End

\* Seeded fault: no emit_close after it.
Create_NoClose ==
  Open \o Args \o Flush \o Real \o Code("resultptr")
    \o Pointer \o End

\* a function that returns an object and its error code through a pointer
Create ==
  Open \o Args \o Flush \o Real \o Code("resultptr") \o Close
    \o Pointer \o End

\* a function that returns an address and no error code
Address == Open \o Args \o Close \o Real \o Pointer \o End

\* a function that returns nothing
Plain == Open \o Args \o Close \o Real \o End

\* clCreateProgramWithBinary prints *binary_status before the call sets it
Binary ==
  Open \o Args \o Code("unset") \o Flush \o Real \o Code("resultptr")
    \o Close \o Pointer \o End

\* clSetUserEventStatus and clSetEventCallback print an argument by emit_cl_int
Event ==
  Open \o Args \o Code("argument") \o Close \o Real \o <<"ret">>
    \o Code("result") \o End

\* clEnqueueSVMFree closes its argument list in the middle and at the end
SVMFree ==
  Open \o Args \o Close \o Args \o Close \o Real \o <<"ret">>
    \o Code("result") \o End

-----------------------------------------------------------------------------
(* Which function follows which, in the order of opencl.c                  *)

PlatformCalls ==
  All(Status, {"clGetPlatformIDs", "clGetPlatformInfo", "clGetDeviceIDs",
      "clGetDeviceInfo", "clCreateSubDevices", "clRetainDevice",
      "clReleaseDevice"})

ContextCalls ==
  Merge({All(Create, {"clCreateContext", "clCreateContextFromType",
             "clCreateCommandQueueWithProperties"}),
         All(Status, {"clRetainContext", "clReleaseContext", "clGetContextInfo",
             "clRetainCommandQueue", "clReleaseCommandQueue"})})

MemObjectCalls ==
  Merge({All(Status, {"clGetCommandQueueInfo", "clRetainMemObject", "clReleaseMemObject"}),
         All(Create, {"clCreateBuffer", "clCreateSubBuffer", "clCreateImage",
             "clCreatePipe"})})

MemInfoCalls ==
  Merge({All(Status, {"clGetSupportedImageFormats", "clGetMemObjectInfo",
             "clGetImageInfo", "clGetPipeInfo",
             "clSetMemObjectDestructorCallback"}),
         All(Address, {"clSVMAlloc"}),
         All(Plain, {"clSVMFree"})})

SamplerCalls ==
  Merge({All(Create, {"clCreateSamplerWithProperties", "clCreateProgramWithSource",
             "clCreateProgramWithBuiltInKernels"}),
         All(Status, {"clRetainSampler", "clReleaseSampler", "clGetSamplerInfo"}),
         All(Binary, {"clCreateProgramWithBinary"})})

ProgramCalls ==
  Merge({All(Status, {"clRetainProgram", "clReleaseProgram", "clBuildProgram",
             "clCompileProgram", "clUnloadPlatformCompiler", "clGetProgramInfo"}),
         All(Create, {"clLinkProgram"})})

KernelCalls ==
  Merge({All(Status, {"clGetProgramBuildInfo", "clCreateKernelsInProgram",
             "clRetainKernel", "clReleaseKernel", "clSetKernelArg",
             "clSetKernelArgSVMPointer", "clSetKernelExecInfo"}),
         All(Create, {"clCreateKernel"})})

KernelInfoCalls ==
  Merge({All(Status, {"clGetKernelInfo", "clGetKernelArgInfo", "clGetKernelWorkGroupInfo",
             "clWaitForEvents", "clGetEventInfo", "clRetainEvent",
             "clReleaseEvent"}),
         All(Create, {"clCreateUserEvent"})})

EventCalls ==
  Merge({All(Event, {"clSetUserEventStatus", "clSetEventCallback"}),
         All(Status, {"clGetEventProfilingInfo", "clFlush", "clFinish",
             "clEnqueueReadBuffer"})})

BufferCopyCalls ==
  All(Status, {"clEnqueueReadBufferRect", "clEnqueueWriteBuffer",
      "clEnqueueWriteBufferRect"})

BufferFillCalls ==
  All(Status, {"clEnqueueFillBuffer", "clEnqueueCopyBuffer",
      "clEnqueueCopyBufferRect", "clEnqueueReadImage"})

ImageCalls ==
  All(Status, {"clEnqueueWriteImage", "clEnqueueFillImage", "clEnqueueCopyImage",
      "clEnqueueCopyImageToBuffer"})

MapCalls ==
  Merge({All(Status, {"clEnqueueCopyBufferToImage", "clEnqueueUnmapMemObject"}),
         All(Create, {"clEnqueueMapBuffer", "clEnqueueMapImage"})})

EnqueueCalls ==
  All(Status, {"clEnqueueMigrateMemObjects", "clEnqueueNDRangeKernel",
      "clEnqueueNativeKernel", "clEnqueueMarkerWithWaitList",
      "clEnqueueBarrierWithWaitList"})

SVMCalls ==
  Merge({All(SVMFree, {"clEnqueueSVMFree"}),
         All(Status, {"clEnqueueSVMMemcpy", "clEnqueueSVMMemFill", "clEnqueueSVMMap",
             "clEnqueueSVMUnmap"})})

DeprecatedCalls ==
  Merge({All(Address, {"clGetExtensionFunctionAddressForPlatform",
             "clGetExtensionFunctionAddress"}),
         All(Create, {"clCreateImage2D", "clCreateImage3D"}),
         All(Status, {"clEnqueueMarker", "clEnqueueWaitForEvents", "clEnqueueBarrier",
             "clUnloadCompiler"})})

\* Seeded fault: clEnqueueTask as a function without a result.
DeprecatedQueueCalls_NoResult ==
  Merge({All(Create, {"clCreateCommandQueue", "clCreateSampler"}),
         All(Plain, {"clEnqueueTask"})})

DeprecatedQueueCalls ==
  Merge({All(Create, {"clCreateCommandQueue", "clCreateSampler"}),
         All(Status, {"clEnqueueTask"})})

\* func_names with what each wrapper does
Script ==
  Merge({PlatformCalls, ContextCalls, MemObjectCalls, MemInfoCalls,
         SamplerCalls, ProgramCalls, KernelCalls, KernelInfoCalls,
         EventCalls, BufferCopyCalls, BufferFillCalls, ImageCalls, MapCalls,
         EnqueueCalls, SVMCalls, DeprecatedCalls, DeprecatedQueueCalls})

FuncNames == DOMAIN Script
=============================================================================
