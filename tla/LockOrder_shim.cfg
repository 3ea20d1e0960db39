SPECIFICATION Spec
CONSTANTS
  t1 = t1
  t2 = t2
  t3 = t3
  Thread <- Three
  NoThread = NoThread
  MaxDepth = 3
SYMMETRY Symmetry
CHECK_DEADLOCK FALSE
INVARIANTS
  TypeOK
  NoSelfDeadlock
  DeadlockNeedsNullLookup
