\* the program ends when a camera fails
CHECK_DEADLOCK FALSE
CONSTANTS
  Requests = 2
  MaxSkew = 1
  LastStamp = 3
SPECIFICATION Spec
INVARIANT NothingGoesAstray
PROPERTIES
  PairsAreRight
  MainGoesOn
