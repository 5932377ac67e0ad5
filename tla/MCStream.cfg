\* Deadlock is not checked: frames are bounded, and so are those of the restarted sender.
CONSTANTS
  MaxPayload = 2
  MaxFrameSize = 10
  MapCapacity = 4
  Token <- MCToken
  Datagrams <- MCDatagrams
  SentOnce <- MCSentOnce
  SentAgain <- MCSentAgain
  SentWithMaps <- MCSentWithMaps
  Maps <- MCMaps
  LastOld = 2
  LastNew = 5
  RestartSizes <- MCRestartSizes
  BatchSize = 3
  WireLimit = 20
  Frames <- MCFrames
  LastSeq = 3
  KeySizes = {3, 5}
  InterSizes = {1}
  TailBound = 1
  MpqChunks = 4
  Sizes = {0, 1, 3, 6, 7, 9}
  LastFrame = 3
  Base = 7
  MaxMapTiles = 4
  Payloads = {0, 1, 3}
  Damages = {1, 3}
SPECIFICATION StreamSpec
INVARIANTS
  WellFormed
  GateAgrees
  RepairedAsSent
  SentAsLaidOut
  EverythingFits
  NumbersAreTrue
  AnyLossIsRepaired
  ReadersAreExact
  RetriesAreRight
PROPERTIES
  KeepsPromise
  GateYieldsToKeyframes
  MapsAdvance
  PictureComesBack
  NackIsAnswered
CHECK_DEADLOCK FALSE
