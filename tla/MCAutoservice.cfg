SPECIFICATION LiveSpec
CONSTANTS
  a = a  b = b  u = u  v = v
  Chans = {a, b}
  Users = {u, v}
  Serves <- OwnChannel
  Entries = {e1, e2}
  EndOnly = {b}
  Ignored = {"control"}
  MaxUses <- OneNests
  MaxFrames = 2
  CreateFails = {u}
  NoMemory = TRUE
  None = None
INVARIANTS ThreadHoldsNothingFreed FramesInOrder FlagFollowsService DeferredAreKept
PROPERTIES CallsReturn
