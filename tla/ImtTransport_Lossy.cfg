CONSTANTS
  MaxPayload = 2
  LastSeq = 4
  KeySizes = {5}
  InterSizes = {3}
  TailBound = 0
  MaxFrameSize = 6
SPECIFICATION Spec
INVARIANTS
  ShownAsEncoded
  NoInterframeWhileOwed
  RequestsMeetRetries
CHECK_DEADLOCK FALSE
