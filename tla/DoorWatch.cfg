SPECIFICATION FairSpec
CONSTANTS
  Clients = {c1, c2}
  Size = 2
  MaxFrames = 2
  MaxFaces = 1
CHECK_DEADLOCK FALSE
INVARIANTS
  PhotoFirst
  WholeUnlessOverwritten
PROPERTIES
  StayingIsLookedAt
  IntruderIsReported
