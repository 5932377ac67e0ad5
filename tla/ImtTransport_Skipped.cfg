CONSTANTS
  MaxPayload = 2
  LastSeq = 3
  KeySizes = {5}
  InterSizes = {1}
  TailBound = 0
  MaxFrameSize = 6
SPECIFICATION Spec
INVARIANT NoInterframeAfterSkipped
CHECK_DEADLOCK FALSE
