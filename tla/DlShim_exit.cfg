SPECIFICATION FairSpec
CONSTANTS
  t1 = t1
  t2 = t2
  ocl = ocl
  tracer = tracer
  plugin = plugin
  codec = codec
  r1 = r1
  r2 = r2
  r3 = r3
  r4 = r4
  clname = clname
  plugname = plugname
  Thread <- MCThread
  Library <- MCLibrary
  Symbol <- MCSymbol
  Ref <- MCRefOne
  Exports <- MCExports
  Global <- MCGlobal
  OpenCL = ocl
  Tracer = tracer
  OpenCLRef = r1
  TracerRef = r2
  Memory <- MCMemoryWild
  Reopen <- MCReopen
  NoThread = NoThread
  NoLibrary = NoLibrary
  NoRef = NoRef
  NoSymbol = NoSymbol
PROPERTIES
  FiniCompletes
