SPECIFICATION Spec
CONSTANTS
  main = main
  t1 = t1
  t2 = t2
  N = 2
  Provided <- MCProvided
  Thread <- MCThread
  Loader = main
  NoThread = NoThread
SYMMETRY Symmetry
INVARIANTS
  TypeOK
  UsableWhileRunning
  RealIsReal
  StderrSurvives
