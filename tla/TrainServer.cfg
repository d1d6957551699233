SPECIFICATION FairSpec
CONSTANTS
  Clients = {c1, c2, c3}
CHECK_DEADLOCK FALSE
INVARIANTS
  ZombieIsNoticed
PROPERTIES
  EndIsSeen
  NobodyWaitsForever
