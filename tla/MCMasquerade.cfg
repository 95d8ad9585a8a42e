SPECIFICATION LiveSpec
CONSTANTS
  Chans = {a, b}
  Transferers = {s, t}
  None = None
INVARIANTS NoUseAfterFree EachSideHungUpOnce NothingLeaks
PROPERTIES AllDestroyed
CHECK_DEADLOCK FALSE
