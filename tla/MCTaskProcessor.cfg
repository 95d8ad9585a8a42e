CONSTANTS
  Instances = {t1, t2}
  Clients = {c1, c2, c3}
  Permanent = {c1}
  Clis = {k1}
  MaxTasks = 3
  AllocFails = TRUE
  None = None
SPECIFICATION LiveSpec
INVARIANTS Singleton ExecutedInOrder UnreferencedIsDestroyed NoUseAfterFree
PROPERTIES TasksAreProcessed CallsReturn
CHECK_DEADLOCK FALSE
