CONSTANTS
  Instances = {t1, t2}
  Clients = {c1}
  Permanent = {}
  Clis = {k1}
  MaxTasks = 2
  AllocFails = FALSE
  None = None
SPECIFICATION Spec
INVARIANTS NoUseAfterFree
CHECK_DEADLOCK FALSE
