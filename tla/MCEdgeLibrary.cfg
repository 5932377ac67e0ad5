\* Deadlock is not checked: the writer ends after MaxWrites frames, the cameras at the horizon.
CONSTANTS
  Capacity = 2
  MaxWrites = 6
  Ahead = {21}
  Behind = {45}
  Delays = {1, 20}
  Newer = {0, 2}
  Older = {5}
  Times = {0, 10, 30, 44, 46, 100}
  Scale = 20
  DriftMax = 3
  Modulus = 4096
  Period = 4
  MaxError = 1
  PairSkew = 2
  MaxSkew = 2
  Warmup = 2
  DegradeAfter = 2
  Jitter = 3
  MaxLost = 1
  Horizon = 5
SPECIFICATION MCSpec
INVARIANTS
  RingIsSafe
  ClockIsRight
  PairsAreJudged
PROPERTIES
  RingDelivers
  ClockSettles
CHECK_DEADLOCK FALSE
