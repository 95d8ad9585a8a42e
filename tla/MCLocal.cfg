SPECIFICATION LiveSpec
CONSTANTS
  MaxFrames = 3
  MaxBack = 1
  NoOpts = {FALSE, TRUE}
INVARIANTS NoUseAfterFree PairAgrees FramesInOrder
PROPERTIES PairGoes OperationsReturn
CHECK_DEADLOCK FALSE
