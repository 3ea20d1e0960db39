SPECIFICATION Spec
CONSTANTS
  t1 = t1
  t2 = t2
  Thread <- One
  Function <- FuncNames
  MaxCalls = 1
  MaxTime = 2
  EmitTime = TRUE
  EmitSpent = TRUE
  EmitStats = TRUE
  NoFunction = NoFunction
  Nothing = Nothing
INVARIANTS
  FlushedBeforeCall
  ErrorsAreFailures
  TimeCoversCall
  LinesPrefixed
  LineIsACall
