CONSTANTS
  Requests = {r1}
  Params = {p1}
SPECIFICATION Spec
INVARIANT CamerasAreExclusive
