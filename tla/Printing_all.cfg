SPECIFICATION Spec
CONSTANTS
  EmitTime = TRUE
  EmitSpent = TRUE
  EmitStats = TRUE
  Foreign <- MCForeign
  NoFunction = NoFunction
  NoCode = NoCode
INVARIANTS
  TypeOK
  MisprintNeedsForeign
  NamesAreCore
  CodeIsShown
