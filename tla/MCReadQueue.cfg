SPECIFICATION LiveSpec
CONSTANTS
  Chans = {a}
  LongQueue = 3
  LongVoice = 2
  Drop = 1
  MaxFrames = 3
  MaxSoft = 2
  AllocFails = FALSE
INVARIANTS MarksAreLast
PROPERTIES NullMeansDrained HangupCalledOff SoftHangupSeen
