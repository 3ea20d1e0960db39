SPECIFICATION Spec
CONSTANTS
  t1 = t1
  t2 = t2
  Thread <- Two
  Function <- Finish
  MaxCalls = 2
  MaxTime = 0
  EmitTime = TRUE
  EmitSpent = TRUE
  EmitStats = TRUE
  NoFunction = NoFunction
  Nothing = Nothing
SYMMETRY Symmetry
INVARIANTS
  CountsExact
