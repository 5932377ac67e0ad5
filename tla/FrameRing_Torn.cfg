\* Deadlock is not checked: the writer ends after MaxWrites frames.
CONSTANTS
  Capacity = 2
  MaxWrites = 3
SPECIFICATION Spec
INVARIANT NoTornRead
CHECK_DEADLOCK FALSE
