CONSTANTS
  MaxSends <- OneEach
  Writers = {0}
  Leavers = {0}
  max_retries = 2
  Starts = {0}
SPECIFICATION LiveSpec
INVARIANTS InOrderOnce AckedWasReceived
PROPERTIES SentIsDelivered CallIsDestroyed
CHECK_DEADLOCK FALSE
