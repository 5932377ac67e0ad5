\* Deadlock is not checked: the sender of raw pairs ends when a camera does.
CONSTANTS
  EyeWidth = 10
  EyeHeight = 7
  TileSize = 4
  MbSize = 2
  MaxPayload = 12
  Scenes <- MCScenes
  MaxChanges = 1
  MaxFailures = 1
SPECIFICATION MCSpec
PROPERTIES
  PaceConverges
  CrfFollows
  FramesArePaired
  MapsFollowTheScene
CHECK_DEADLOCK FALSE
