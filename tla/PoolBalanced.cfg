CONSTANTS
  a1 = a1
  a2 = a2
  b1 = b1
  z1 = z1
  Threads = {t1, t2, t3}
  Tasks = {a1, a2, b1, z1}
  Id <- MCId
  Stop = Stop
  None = None
  MaxThreads = 2
  MaxQueue = 3
  LoadBalance = TRUE
  CreateMayFail = TRUE
SPECIFICATION Spec
SYMMETRY ThreadSymmetry
INVARIANTS TypeOK GroupExclusion CountersExact FreedOnce WorkAccounted
PROPERTIES ImplementsExecutor
CHECK_DEADLOCK FALSE
