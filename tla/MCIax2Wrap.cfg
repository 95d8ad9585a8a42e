CONSTANTS
  MaxSends <- TwoAndOne
  Writers = {0, 1}
  Leavers = {}
  max_retries = 2
  Starts = {254}
SPECIFICATION Spec
INVARIANTS AckedWasReceived
CHECK_DEADLOCK FALSE
