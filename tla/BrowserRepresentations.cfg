SPECIFICATION Spec
CONSTANTS
  flow = flow
  canvas = canvas
  r1 = r1
  r2 = r2
  r3 = r3
  Browser <- Browsers
  FlowBrowser = flow
  Media = {"m1"}
  Edge = {1, 2}
  Request <- Requests
  NoRequest = NoRequest
  MaxSessions = 2
INVARIANTS
  TypeOK
  LeasesAreShown
  NoForgottenTile
SYMMETRY Symmetry
CHECK_DEADLOCK FALSE
