\* the program may end
CHECK_DEADLOCK FALSE
CONSTANTS
  MaxPending = 2
  MaxAge = 1
  Tracked = 4
  MaxSkew = 1
  Requests = 1
  LastStamp = 3
SPECIFICATION Spec
INVARIANT GateIsTrue
PROPERTY SendsOnward
