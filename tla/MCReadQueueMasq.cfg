SPECIFICATION Spec
CONSTANTS
  Chans = {a, b}
  LongQueue = 3
  LongVoice = 2
  Drop = 1
  MaxFrames = 2
  MaxSoft = 1
  AllocFails = TRUE
INVARIANTS NoLostWakeup KeptOrRead
