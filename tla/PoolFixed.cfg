CONSTANTS
  a1 = a1
  a2 = a2
  b1 = b1
  z1 = z1
  Threads = {t1, t2}
  Tasks = {a1, a2, b1, z1}
  Id <- MCId
  Stop = Stop
  None = None
  MaxThreads = 2
  MaxQueue = 3
  LoadBalance = FALSE
  CreateMayFail = FALSE
SPECIFICATION FairSpec
PROPERTIES PushedIsRun PoolIsFreed
CHECK_DEADLOCK FALSE
