-------------------------- MODULE OpenCLExtensions --------------------------
(***************************************************************************)
(* What the other headers of include/CL add to cl.h: enumerated values,    *)
(* error codes, one memory flag, and functions.  A program or a library    *)
(* may use any of them; the tracer's tables and wrappers were made from    *)
(* cl.h alone.  (CL_DEVICE_TYPE_ALL and the list terminators of device     *)
(* fission are values the tracer prints as numbers, and are left out.)     *)
(***************************************************************************)
EXTENDS Integers

-----------------------------------------------------------------------------
(* cl_ext.h: half precision, ICD, contexts, SPIR, NVIDIA, AMD, ARM         *)

KhrEnums ==
  {\h1033, \h920, \h40E0, \h40E1, \h4036} \union (\h2030..\h2032)
  \union (\h4000..\h4006) \union (\h40B0..\h40B1)

\* device fission: properties, selectors, affinity domains
FissionEnums == (\h4050..\h4058) \union (1..4) \union {\h10, \h100}

\* Qualcomm host pointers, sub groups
HostPtrEnums == (\h40A0..\h40A8) \union (\h2033..\h2034)

\* CL_MEM_EXT_HOST_PTR_QCOM, by bit number
ExtensionFlag == {29}

IcdCodes     == {-1001}
FissionCodes == -1059..(-1057)

AppleFunctions ==
  {"clSetMemObjectDestructorAPPLE", "clLogMessagesToSystemLogAPPLE",
   "clLogMessagesToStdoutAPPLE", "clLogMessagesToStderrAPPLE"}

KhrFunctions == {"clIcdGetPlatformIDsKHR", "clTerminateContextKHR"}

FissionFunctions == {"clReleaseDeviceEXT", "clRetainDeviceEXT", "clCreateSubDevicesEXT"}

HostPtrFunctions == {"clGetDeviceImageInfoQCOM", "clGetKernelSubGroupInfoKHR"}

-----------------------------------------------------------------------------
(* cl_gl.h, cl_gl_ext.h, cl_egl.h                                          *)

\* objects, textures, contexts; the fence of cl_gl_ext.h lies in between
GLEnums == \h2000..\h2012
GLCodes == {-1000}

GLFunctions ==
  {"clCreateFromGLBuffer", "clCreateFromGLTexture", "clCreateFromGLRenderbuffer",
   "clGetGLObjectInfo", "clGetGLTextureInfo", "clEnqueueAcquireGLObjects",
   "clEnqueueReleaseGLObjects", "clCreateFromGLTexture2D", "clCreateFromGLTexture3D"}

GLContextFunctions == {"clGetGLContextInfoKHR"}

GLEventFunctions == {"clCreateEventFromGLsyncKHR"}

EGLEnums == \h202D..\h202F
EGLCodes == {-1092, -1093}

EGLFunctions ==
  {"clCreateFromEGLImageKHR", "clEnqueueAcquireEGLObjectsKHR",
   "clEnqueueReleaseEGLObjectsKHR", "clCreateEventFromEGLSyncKHR"}

-----------------------------------------------------------------------------
(* cl_d3d10.h, cl_d3d11.h, cl_dx9_media_sharing.h                          *)

D3D10Enums == (\h4010..\h4018) \union {\h402C}
D3D10Codes == -1005..(-1002)

D3D10Functions ==
  {"clGetDeviceIDsFromD3D10KHR", "clCreateFromD3D10BufferKHR",
   "clCreateFromD3D10Texture2DKHR", "clCreateFromD3D10Texture3DKHR",
   "clEnqueueAcquireD3D10ObjectsKHR", "clEnqueueReleaseD3D10ObjectsKHR"}

D3D11Enums == (\h4019..\h4021) \union {\h402D}
D3D11Codes == -1009..(-1006)

D3D11Functions ==
  {"clGetDeviceIDsFromD3D11KHR", "clCreateFromD3D11BufferKHR",
   "clCreateFromD3D11Texture2DKHR", "clCreateFromD3D11Texture3DKHR",
   "clEnqueueAcquireD3D11ObjectsKHR", "clEnqueueReleaseD3D11ObjectsKHR"}

DX9Enums == \h2020..\h202C
DX9Codes == -1013..(-1010)

DX9Functions ==
  {"clGetDeviceIDsFromDX9MediaAdapterKHR", "clCreateFromDX9MediaSurfaceKHR",
   "clEnqueueAcquireDX9MediaSurfacesKHR", "clEnqueueReleaseDX9MediaSurfacesKHR"}

-----------------------------------------------------------------------------
ExtensionEnum ==
  KhrEnums \union FissionEnums \union HostPtrEnums \union GLEnums
  \union EGLEnums \union D3D10Enums \union D3D11Enums \union DX9Enums

ExtensionCode ==
  IcdCodes \union FissionCodes \union GLCodes \union EGLCodes
  \union D3D10Codes \union D3D11Codes \union DX9Codes

ExtensionFunction ==
  AppleFunctions \union KhrFunctions \union FissionFunctions
  \union HostPtrFunctions \union GLFunctions \union GLContextFunctions
  \union GLEventFunctions \union EGLFunctions \union D3D10Functions
  \union D3D11Functions \union DX9Functions
=============================================================================
