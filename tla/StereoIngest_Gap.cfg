\* the frames end at the horizon
CHECK_DEADLOCK FALSE
CONSTANTS
  Period = 4
  MaxError = 1
  PairSkew = 2
  MaxSkew = 2
  Warmup = 2
  DegradeAfter = 2
  Jitter = 3
  MaxLost = 1
  Horizon = 10
SPECIFICATION Spec
INVARIANT RegularIsLocked
