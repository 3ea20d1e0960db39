SPECIFICATION Spec
CONSTANTS
  t1 = t1
  t2 = t2
  N = 3
  Thread <- MCThread
  Duration <- MCDuration
  MaxCalls = 2
  NoThread = NoThread
  NoCall = NoCall
  NoRow = NoRow
SYMMETRY Symmetry
INVARIANTS
  TypeOK
  SummaryExact
  SummarySorted
  TotalInRange
  PercentSane
