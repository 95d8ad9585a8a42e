CONSTANTS
  Structs = {s1, s2}
  Users = {u1, u2}
  Whens = {0, 1}
  Results = {0, 1}
  Ms = 1
  MaxTime = 4
  MaxAdds = 2
  IdBits = 8
  MaxCache = 1
  Retries = 2
  BareContext = TRUE
  None = None
SYMMETRY Symmetry
SPECIFICATION Spec
INVARIANTS QueueAgrees OneOwner CancelledNeverRuns AtMostTwicePerRunq
CHECK_DEADLOCK FALSE
