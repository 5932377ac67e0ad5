\* Deadlock is not checked: the program may end.
CONSTANTS
  SlotCount = 3
  MaxPairs = 4
  Requests = {r1, r2}
  Params = {p1}
  One = 64
  Kp = 26
  Ki = 5
  RateMin = 6
  RateMax = 128
  Target = 50
  Latencies = {0, 40, 50, 51, 70, 600}
  Steps = {0, 1, 6, 100}
  Bases = {}
SPECIFICATION MCSpec
INVARIANTS
  SlotsAreSafe
  SkippedIsExact
  ResourcesAreKept
  OneAtATime
PROPERTIES
  PassesOnNewer
  NewestIsTaken
  FailuresEnd
  SenderComesBack
  PaceIsSound
CHECK_DEADLOCK FALSE
