CONSTANTS
  Structs = {s1, s2}
  Users = {u1, u2}
  Whens = {1, 2}
  Results = {0, 1}
  Ms = 2
  MaxTime = 4
  MaxAdds = 2
  IdBits = 8
  MaxCache = 1
  Retries = 2
  BareContext = FALSE
  None = None
SPECIFICATION LiveSpec
INVARIANTS NoOversleep
PROPERTIES TimeoutFindsWork DueEntriesRun DestroyReturns
CHECK_DEADLOCK FALSE
