SPECIFICATION Spec
CONSTANTS
  p1 = p1
  p2 = p2
  file1 = file1
  file2 = file2
  lib = lib
  Process <- MCProcess
  First = p1
  File <- MCFile
  Library <- MCLibrary
  None = None
  Hole = Hole
  MaxOptions = 2
  MaxPieces = 2
INVARIANTS
  TypeOK
  NestingConcatenates
  TraceGoesWhereAsked
  FileIsOneTrace
